---------------------------- MODULE OAuthProofs ----------------------------
(***************************************************************************)
(* The OAuth accounts taken together: the refresh of their tokens, the     *)
(* scan that finds them due, logins, identities, quotas, usage estimates,  *)
(* the refreshes that traffic causes, the answers of an upstream and the   *)
(* model catalogs.  The properties that hold of all of them, and proofs    *)
(* for every set of accounts, callers and answers and every delay.         *)
(***************************************************************************)
EXTENDS OAuthRefresh, Integers, FiniteSetTheorems, TLAPS

CONSTANTS
  Accounts, ScanConcurrency, MaxRevision,                            \* OAuthScan
  LoginClients, LoginSessions, Capacity, Ttl, PollInterval, PerSecond, SlowDown,
  Spacing, LoginTime,                                                        \* OAuthLogin
  Ids, Identities, Secrets, IdTokens, Models,                        \* OAuthAccounts
  QuotaClients, MaxCredits, MaxOps,                                  \* OAuthQuota
  Providers, Payloads, Bearers, Cycles, MaxCost,                     \* QuotaUsage
  Debounce, RefreshInterval, Retention, RefreshConcurrency, MaxRun,
  MaxLate,                                                           \* QuotaActivity
  Attempts, Statuses, Codes, Hints, RateFallback, Unsupported, Denied, MaxDelay,
  MaxToken, MaxTime,                                                 \* UpstreamAttempt
  Scopes, CatalogClients, MaxChanges                                 \* ModelCatalog

VARIABLES
  revision, external, due_accounts, scan_worker, started_at, published, interleaved,
  waiting, in_flight, ready, scan_seen,
  login_now, sessions, generation, issued, client, next_start, gate, last_start, ended,
  accounts, login, renewal,
  present, version, quota_op, quota_queue, completed, last, quota_stored, authFailed,
  quota_credits, rejected, resets, reply, blind, begun,
  kind, usage_stored, exhausted, usage_credits, clock, usage_spent, usage_seen,
  activity, permit, activity_worker, until, running, asked,
  attempt_now, token, auth_error, cooldown, model, quota, wake, attempt,
  plan, catalog_op, catalog_gates, catalogs, changes

Scan == INSTANCE OAuthScan WITH
  Concurrency <- ScanConcurrency, worker <- scan_worker, seen <- scan_seen
Login == INSTANCE OAuthLogin WITH
  Clients <- LoginClients, Sessions <- LoginSessions, Interval <- PollInterval,
  MaxTime <- LoginTime, Nil <- None, now <- login_now
Accounting == INSTANCE OAuthAccounts WITH Nil <- None, refresh <- renewal
Quota == INSTANCE OAuthQuota WITH
  Clients <- QuotaClients, Nil <- None, op <- quota_op, queue <- quota_queue,
  stored <- quota_stored, credits <- quota_credits
Usage == INSTANCE QuotaUsage WITH
  Tokens <- Bearers, Nil <- None, stored <- usage_stored, credits <- usage_credits,
  spent <- usage_spent, seen <- usage_seen
Activity == INSTANCE QuotaActivity WITH
  Interval <- RefreshInterval, Concurrency <- RefreshConcurrency, Nil <- None,
  worker <- activity_worker
Attempting == INSTANCE UpstreamAttempt WITH now <- attempt_now
Catalog == INSTANCE ModelCatalog WITH
  Clients <- CatalogClients, Nil <- None, op <- catalog_op, gates <- catalog_gates

(* What is kept for an account is of that account: the worker does not     *)
(* sleep on tokens published since its scan, a reset is paid for by a      *)
(* credit, a rejection is blamed on the version that was rejected, a       *)
(* capacity is measured on one identity, a catalog is of the account's own *)
(* plan, and whatever blocks the credential for a while has its wake set.  *)
AccountsStayTheirOwn ==
  /\ Scan!SleepsInformed
  /\ Quota!NoBlindReset /\ Quota!BlameIsEarned
  /\ Usage!CapacityOfOneIdentity
  /\ Catalog!CatalogsOfOwnPlan
  /\ Attempting!BlocksAreWoken

(* Nothing is undone by a late answer: a failed refresh is tried again by  *)
(* one of those who waited for it, a session that is gone stays gone and   *)
(* is polled no faster than allowed, no login makes a twin, a refresh of a *)
(* quota sees the resets before it, a frozen estimate stays, the refreshes *)
(* that traffic causes keep their distance, and an old token's rejection   *)
(* does not mark the new one.                                              *)
LateAnswersUndoNothing ==
  /\ [][OneRetryPerFailure]_vars
  /\ [][Login!SessionsStayGone /\ Login!PollsPaced]_(Login!vars)
  /\ [][Accounting!NoNewTwins]_(Accounting!vars)
  /\ [][Quota!RefreshSeesResets]_(Quota!vars)
  /\ [][Usage!FrozenEstimate]_(Usage!vars)
  /\ [][Activity!AttemptsAreSpaced]_(Activity!vars)
  /\ [][Attempting!LateRejectionsSpareNewTokens]_(Attempting!vars)

-----------------------------------------------------------------------------
(* Proofs.  The invariant has two halves.  The mutex: every gate is held   *)
(* by the one caller past it, and its queue is of callers that wait there. *)
(* The tokens: what a caller acts on is of the past, what was taken is     *)
(* replaced or about to be, and a failure that let a waiter through is     *)
(* over or still in that waiter's hands.                                   *)

Holding == {"check", "exchange", "publishing", "failing"}
Inside == Holding \union {"try", "observe", "enqueue", "waiting"}
Outside == {"idle", "retain", "retain only", "gate", "report", "recording"}

Caller == [at : Inside \union Outside, observed : Nat, waited : Nat \union {None},
           gate : GateIds \union {0}, gone : BOOLEAN]

Account ==
  /\ token_version \in Nat /\ consumed \subseteq Nat
  /\ failed_attempts \in [version : Nat, attempts : Nat]

DueIsAlive == token_version = 0 => due = FALSE

Gates ==
  /\ caller \in [Callers -> Caller]
  /\ gates \in GateIds \union {0}
  /\ holder \in [GateIds -> Callers \union {None}]
  /\ queue \in [GateIds -> Seq(Callers)]

(* One gate at a time: whoever has a gate has the one the map points to.   *)
OneGate ==
  \A c \in Callers :
    /\ caller[c].at \in Inside => caller[c].gate \in GateIds
    /\ caller[c].gate # 0 => caller[c].gate = gates

(* Whoever is past the gate holds its mutex.                               *)
HoldersHold == \A c \in Callers : caller[c].at \in Holding => holder[caller[c].gate] = c

(* The queue of a gate holds callers that wait there, each once.           *)
QueuesWait ==
  \A g \in GateIds : \A i \in 1..Len(queue[g]) :
    /\ caller[queue[g][i]].at = "waiting" /\ caller[queue[g][i]].gate = g
    /\ \A j \in 1..Len(queue[g]) : queue[g][i] = queue[g][j] => i = j

(* What a caller acts on was published, and stays published until it is    *)
(* replaced by a newer token or the account is deleted.                    *)
ObservedPast == token_version # 0 => \A c \in Callers : caller[c].observed <= token_version

Begun(c) == caller[c].at \notin {"idle", "retain only"}
ObservedKnown == \A c \in Callers : Begun(c) => caller[c].observed # 0

(* A token that was taken is replaced, or will be by the caller publishing.*)
TakenIsReplaced ==
  \A v \in consumed \ lost :
    token_version # 0 => \/ v < token_version
                         \/ \E c \in Callers : At(c, "publishing") /\ caller[c].observed = v

(* A failure that has let a waiter through lets no other one through: a    *)
(* further failure has been counted, the token replaced, or that waiter is *)
(* still at work.                                                          *)
Retrying(c) == caller[c].at \in {"exchange", "publishing", "failing"}
SpentIsSpent ==
  \A s \in spent :
    /\ s \in Nat \X Nat
    /\ token_version # 0 => s[1] <= token_version
    /\ \A c \in Callers : Retrying(c) => s[1] <= caller[c].observed
    /\ \/ token_version = 0 \/ s[1] < token_version
       \/ AttemptsOf(s[1]) > s[2] + 1
       \/ AttemptsOf(s[1]) = s[2] + 1 /\ \E c \in Callers : Retrying(c) /\ Failure(c) = s

Mutex == Gates /\ OneGate /\ HoldersHold /\ QueuesWait
TokensSound == Account /\ DueIsAlive /\ ObservedPast /\ ObservedKnown /\ TakenIsReplaced
  /\ TokensAreUsedOnce /\ SpentIsSpent
IInv == Mutex /\ TokensSound

-----------------------------------------------------------------------------
(* The gate.                                                               *)

(* There is a gate to be had.                                              *)
LEMMA SomeGate == 1 \in GateIds /\ GateIds \subseteq Nat \ {0}
<1>1. IsFiniteSet(Callers) /\ Scanner \in Callers
  BY CallersAssumption, FS_AddElement DEF Callers
<1>2. Cardinality(Callers) \in Nat /\ Cardinality(Callers) # 0
  BY <1>1, FS_CardinalityType, FS_EmptySet
<1> QED BY <1>2 DEF GateIds

(* At most one caller is past the gate.                                    *)
LEMMA OneHolder ==
  ASSUME Mutex, NEW c \in Callers, NEW d \in Callers,
         caller[c].at \in Holding, caller[d].at \in Holding
  PROVE  c = d
<1>1. caller[c].gate = gates /\ caller[d].gate = gates
  BY SomeGate DEF Mutex, OneGate, Inside
<1> QED BY <1>1 DEF Mutex, HoldersHold

(* A fact of arithmetic the steps below keep needing.                      *)
LEMMA SelfLeq == \A n \in Nat : n <= n
OBVIOUS

(* What a caller that has gone leaves behind.                              *)
LEMMA IdleIsCaller == Idle \in Caller /\ Idle.at = "idle" /\ Idle.observed = 0 /\ Idle.gate = 0
BY DEF Idle, Caller, Outside, Inside, Holding

(* The next of a queue goes on to its check.                               *)
LEMMA Checks ==
  ASSUME NEW r \in Caller
  PROVE  LET q == [r EXCEPT !.at = "check"] IN
         q \in Caller /\ q.at = "check" /\ q.observed = r.observed /\ q.gate = r.gate
BY DEF Caller, Outside, Inside, Holding

(* A caller goes on without touching the mutex.                            *)
LEMMA Moves ==
  ASSUME Mutex, NEW c \in Callers, NEW r \in Caller,
         caller' = [caller EXCEPT ![c] = r], UNCHANGED <<gates, holder, queue>>,
         r.gate \in {0, caller[c].gate},
         r.at \in Inside => caller[c].at \in Inside /\ r.gate = caller[c].gate,
         r.at \in Holding => caller[c].at \in Holding,
         caller[c].at # "waiting"
  PROVE  Mutex'
<1>1. Gates'
  BY DEF Mutex, Gates
<1>2. OneGate'
  BY DEF Mutex, Gates, OneGate
<1>3. HoldersHold'
  BY DEF Mutex, Gates, HoldersHold, Inside
<1>4. QueuesWait'
  <2> SUFFICES ASSUME NEW g \in GateIds, NEW i \in 1..Len(queue[g])
               PROVE  /\ caller'[queue[g][i]].at = "waiting" /\ caller'[queue[g][i]].gate = g
                      /\ \A j \in 1..Len(queue[g]) : queue[g][i] = queue[g][j] => i = j
    BY DEF QueuesWait
  <2>1. queue[g][i] # c /\ queue[g][i] \in Callers
    BY DEF Mutex, Gates, QueuesWait
  <2> QED BY <2>1 DEF Mutex, Gates, QueuesWait
<1> QED BY <1>1, <1>2, <1>3, <1>4 DEF Mutex

(* A caller that unlocks hands the mutex to the first in the queue, which  *)
(* goes on from where it waited; nobody else moves.                        *)
LEMMA Unlocks ==
  ASSUME Mutex, NEW c \in Callers, NEW r \in Caller, caller[c].at \in Holding,
         Unlock(c, r), UNCHANGED gates, r.gate = 0, r.at \in Outside
  PROVE  /\ Mutex' /\ caller'[c] = r
         /\ \A d \in Callers \ {c} :
              \/ caller'[d] = caller[d]
              \/ caller[d].at = "waiting" /\ caller'[d] = [caller[d] EXCEPT !.at = "check"]
<1> DEFINE g == caller[c].gate
           w == queue[g]
<1>1. g \in GateIds /\ g = gates /\ holder[g] = c /\ w \in Seq(Callers) /\ caller[c] \in Caller
  BY SomeGate DEF Mutex, Gates, OneGate, HoldersHold, Inside
<1>2. /\ r.at \notin Inside /\ "waiting" \notin Holding /\ "waiting" \in Inside
      /\ "check" \in Holding
      /\ "check" \in Inside
  BY DEF Outside, Inside, Holding
<1>3. CASE w = <<>>
  <2>1. /\ holder' = [holder EXCEPT ![g] = None] /\ queue' = queue
        /\ caller' = [caller EXCEPT ![c] = r]
    BY <1>3 DEF Unlock, Set
  <2>2. Gates'
    BY <1>1, <2>1 DEF Mutex, Gates
  <2>3. OneGate'
    BY <1>2, <2>1 DEF Mutex, Gates, OneGate
  <2>4. HoldersHold'
    <3> SUFFICES ASSUME NEW d \in Callers, caller'[d].at \in Holding
                 PROVE holder'[caller'[d].gate] = d
      BY DEF HoldersHold
    <3>1. d # c /\ caller'[d] = caller[d]
      BY <1>2, <2>1 DEF Mutex, Gates, Inside
    <3>2. FALSE
      BY <3>1, OneHolder
    <3> QED BY <3>2
  <2>5. QueuesWait'
    <3> SUFFICES ASSUME NEW h \in GateIds, NEW i \in 1..Len(queue[h])
                 PROVE  /\ caller'[queue[h][i]].at = "waiting" /\ caller'[queue[h][i]].gate = h
                        /\ \A j \in 1..Len(queue[h]) : queue[h][i] = queue[h][j] => i = j
      BY <2>1 DEF QueuesWait
    <3>1. queue[h][i] # c /\ queue[h][i] \in Callers
      BY <1>2 DEF Mutex, Gates, QueuesWait
    <3> QED BY <3>1, <2>1 DEF Mutex, Gates, QueuesWait
  <2>6. caller'[c] = r /\ \A d \in Callers \ {c} : caller'[d] = caller[d]
    BY <2>1 DEF Mutex, Gates
  <2> QED BY <2>2, <2>3, <2>4, <2>5, <2>6 DEF Mutex
<1>4. CASE w # <<>>
  <2> DEFINE h == Head(w)
  <2>1. h \in Callers /\ h = w[1] /\ Len(w) >= 1 /\ caller[h].at = "waiting" /\ caller[h].gate = g
        /\ h # c /\ caller[h] \in Caller
    BY <1>1, <1>2, <1>4 DEF Mutex, Gates, QueuesWait
  <2>2. /\ holder' = [holder EXCEPT ![g] = h] /\ queue' = [queue EXCEPT ![g] = Tail(w)]
        /\ caller' = [caller EXCEPT ![c] = r, ![h].at = "check"]
    BY <1>4 DEF Unlock
  <2> HIDE DEF h
  <2>3. /\ caller'[c] = r /\ caller'[h] = [caller[h] EXCEPT !.at = "check"]
        /\ \A d \in Callers \ {c, h} : caller'[d] = caller[d]
    BY <2>1, <2>2 DEF Mutex, Gates
  <2>4. [caller[h] EXCEPT !.at = "check"] \in Caller
    BY <2>1, <1>2 DEF Caller
  <2>5. Gates'
    BY <1>1, <2>1, <2>2, <2>3, <2>4 DEF Mutex, Gates
  <2>6. OneGate'
    <3> SUFFICES ASSUME NEW d \in Callers
                 PROVE  /\ caller'[d].at \in Inside => caller'[d].gate \in GateIds
                        /\ caller'[d].gate # 0 => caller'[d].gate = gates
      BY DEF OneGate
    <3>1. CASE d = h
      <4>1. caller'[d].gate = g
        BY <3>1, <2>1, <2>3 DEF Caller
      <4> QED BY <4>1, <1>1
    <3>2. CASE d = c
      BY <3>2, <2>3, <1>2
    <3>3. CASE d \notin {c, h}
      BY <3>3, <2>3 DEF Mutex, OneGate
    <3> QED BY <3>1, <3>2, <3>3
  <2>7. HoldersHold'
    <3> SUFFICES ASSUME NEW d \in Callers, caller'[d].at \in Holding
                 PROVE holder'[caller'[d].gate] = d
      BY DEF HoldersHold
    <3>1. CASE d = h
      <4>1. caller'[d].gate = g
        BY <3>1, <2>1, <2>3 DEF Caller
      <4> QED BY <4>1, <3>1, <1>1, <2>2 DEF Mutex, Gates
    <3>2. CASE d # h
      <4>1. d # c /\ caller'[d] = caller[d]
        BY <3>2, <1>2, <2>3 DEF Inside
      <4>2. FALSE
        BY <4>1, OneHolder
      <4> QED BY <4>2
    <3> QED BY <3>1, <3>2
  <2>8. QueuesWait'
    <3> SUFFICES ASSUME NEW k \in GateIds, NEW i \in 1..Len(queue'[k])
                 PROVE  /\ caller'[queue'[k][i]].at = "waiting" /\ caller'[queue'[k][i]].gate = k
                        /\ \A j \in 1..Len(queue'[k]) : queue'[k][i] = queue'[k][j] => i = j
      BY DEF QueuesWait
    <3>1. CASE k # g
      <4>1. queue'[k] = queue[k]
        BY <3>1, <2>2 DEF Mutex, Gates
      <4>2. /\ caller[queue[k][i]].at = "waiting" /\ caller[queue[k][i]].gate = k
            /\ queue[k][i] \in Callers
        BY <4>1 DEF Mutex, Gates, QueuesWait
      <4>3. queue[k][i] \notin {c, h}
        BY <4>2, <1>2, <2>1, <3>1
      <4> QED BY <4>1, <4>2, <4>3, <2>3 DEF Mutex, QueuesWait
    <3>2. CASE k = g
      <4>1. /\ queue'[k] = Tail(w) /\ Len(Tail(w)) = Len(w) - 1
            /\ \A j \in 1..Len(Tail(w)) : Tail(w)[j] = w[j + 1]
        BY <3>2, <2>1, <2>2, <1>1 DEF Mutex, Gates
      <4>2. i + 1 \in 1..Len(w) /\ queue'[k][i] = w[i + 1]
        BY <4>1, <1>1
      <4>3. caller[w[i + 1]].at = "waiting" /\ caller[w[i + 1]].gate = g /\ w[i + 1] \in Callers
        BY <4>2, <1>1 DEF Mutex, QueuesWait
      <4>4. w[i + 1] # h
        <5>1. 1 \in 1..Len(w) /\ i + 1 # 1 /\ i \in Nat
          BY <2>1, <4>2, <1>1
        <5> QED BY <5>1, <4>2, <1>1, <2>1 DEF Mutex, QueuesWait
      <4>5. w[i + 1] # c
        BY <4>3, <1>2
      <4>6. caller'[w[i + 1]] = caller[w[i + 1]]
        BY <4>3, <4>4, <4>5, <2>3
      <4>7. ASSUME NEW j \in 1..Len(queue'[k]), queue'[k][i] = queue'[k][j] PROVE i = j
        <5>1. j + 1 \in 1..Len(w) /\ w[j + 1] = w[i + 1]
          BY <4>1, <4>2, <4>7, <1>1
        <5>2. j + 1 = i + 1
          BY <5>1, <4>2, <1>1 DEF Mutex, QueuesWait
        <5> QED BY <5>2, <4>1, <1>1
      <4> QED BY <4>2, <4>3, <4>6, <4>7, <3>2
    <3> QED BY <3>1, <3>2
  <2> QED BY <2>1, <2>3, <2>5, <2>6, <2>7, <2>8 DEF Mutex
<1> QED BY <1>3, <1>4

-----------------------------------------------------------------------------
(* The tokens.                                                             *)

(* Steps before the exchange and after the answer change nothing that the  *)
(* tokens depend on.                                                       *)
Same(d) ==
  /\ caller'[d].at = caller[d].at /\ caller'[d].observed = caller[d].observed
  /\ caller'[d].waited = caller[d].waited

(* A step that begins no attempt and leaves the token and its history.     *)
LEMMA QuietStep ==
  ASSUME TokensSound, UNCHANGED <<account, failed_attempts, consumed, lost, spent>>,
         \A d \in Callers : Retrying(d) \/ Retrying(d)' => Same(d),
         \A d \in Callers : caller'[d].observed \in {0, caller[d].observed},
         \A d \in Callers : Begun(d)' => Begun(d) /\ caller'[d].observed = caller[d].observed
  PROVE  TokensSound'
<1> USE DEF account
<1>1. Account' /\ DueIsAlive'
  BY DEF TokensSound, Account, DueIsAlive
<1>2. ObservedPast' /\ ObservedKnown'
  <2>1. ObservedPast'
    <3> SUFFICES ASSUME token_version # 0, NEW d \in Callers
                 PROVE  caller'[d].observed <= token_version
      BY DEF ObservedPast
    <3>1. token_version \in Nat /\ caller[d].observed <= token_version
      BY DEF TokensSound, Account, ObservedPast
    <3> QED BY <3>1
  <2>2. ObservedKnown'
    BY DEF TokensSound, ObservedKnown
  <2> QED BY <2>1, <2>2
<1>0. ASSUME NEW d \in Callers, NEW l \in {"exchange", "publishing"}, At(d, l) \/ At(d, l)'
      PROVE  At(d, l) /\ At(d, l)' /\ caller'[d].observed = caller[d].observed
  BY <1>0 DEF At, Retrying, Same
<1>3. TakenIsReplaced'
  <2> SUFFICES ASSUME NEW v \in consumed \ lost, token_version # 0
               PROVE  \/ v < token_version
                      \/ \E c \in Callers : At(c, "publishing")' /\ caller'[c].observed = v
    BY DEF TakenIsReplaced
  <2> QED BY <1>0 DEF TokensSound, TakenIsReplaced
<1>4. TokensAreUsedOnce'
  <2> SUFFICES ASSUME NEW c \in Callers, At(c, "exchange")', caller'[c].observed \in consumed
               PROVE  caller'[c].observed \in lost
    BY DEF TokensAreUsedOnce
  <2> QED BY <1>0 DEF TokensSound, TokensAreUsedOnce
<1>5. SpentIsSpent'
  <2> SUFFICES ASSUME NEW s \in spent
               PROVE  /\ s \in Nat \X Nat
                      /\ token_version # 0 => s[1] <= token_version
                      /\ \A c \in Callers : Retrying(c)' => s[1] <= caller'[c].observed
                      /\ \/ token_version = 0 \/ s[1] < token_version
                         \/ AttemptsOf(s[1]) > s[2] + 1
                         \/ AttemptsOf(s[1]) = s[2] + 1 /\ \E c \in Callers : Retrying(c)'
                              /\ Failure(c)' = s
    BY DEF SpentIsSpent, AttemptsOf
  <2>1. ASSUME NEW c \in Callers, Retrying(c) \/ Retrying(c)'
        PROVE  Retrying(c) /\ Retrying(c)' /\ Failure(c)' = Failure(c)
               /\ caller'[c].observed = caller[c].observed
    BY <2>1 DEF Retrying, Same, Failure
  <2> QED BY <2>1 DEF TokensSound, SpentIsSpent
<1> QED BY <1>1, <1>2, <1>3, <1>4, <1>5 DEF TokensSound

(* The quiet part of a step that sets one caller's record.                 *)
LEMMA QuietSet ==
  ASSUME Mutex, TokensSound, NEW c \in Callers, NEW r \in Caller,
         caller' = [caller EXCEPT ![c] = r],
         UNCHANGED <<account, failed_attempts, consumed, lost, spent>>,
         ~Retrying(c), r.at \notin {"exchange", "publishing", "failing"},
         \/ r = Idle
         \/ r.observed = caller[c].observed /\ Begun(c)
  PROVE  TokensSound'
<1>1. caller'[c] = r /\ \A d \in Callers \ {c} : caller'[d] = caller[d]
  BY DEF Mutex, Gates
<1>2. ASSUME NEW d \in Callers, Retrying(d) \/ Retrying(d)' PROVE Same(d)
  <2>1. CASE d = c
    BY <2>1, <1>1, <1>2 DEF Retrying
  <2>2. CASE d # c
    BY <2>2, <1>1 DEF Same
  <2> QED BY <2>1, <2>2
<1>3. ASSUME NEW d \in Callers
      PROVE  /\ caller'[d].observed \in {0, caller[d].observed}
             /\ Begun(d)' => Begun(d) /\ caller'[d].observed = caller[d].observed
  <2>1. CASE d = c
    BY <2>1, <1>1, IdleIsCaller DEF Begun
  <2>2. CASE d # c
    BY <2>2, <1>1 DEF Begun
  <2> QED BY <2>1, <2>2
<1> QED BY <1>2, <1>3, QuietStep

(* The quiet part of an unlocking caller.                                  *)
LEMMA QuietUnlock ==
  ASSUME Mutex, TokensSound, NEW c \in Callers, NEW r \in Caller, At(c, "check"),
         caller'[c] = r,
         \A d \in Callers \ {c} :
           \/ caller'[d] = caller[d]
           \/ caller[d].at = "waiting" /\ caller'[d] = [caller[d] EXCEPT !.at = "check"],
         UNCHANGED <<account, failed_attempts, consumed, lost, spent>>,
         r.at \in {"idle", "report"}, r.observed = caller[c].observed
  PROVE  TokensSound'
<1>1. ASSUME NEW d \in Callers, d # c, caller'[d] # caller[d]
      PROVE  /\ caller[d].at = "waiting" /\ caller'[d].at = "check"
             /\ caller'[d].observed = caller[d].observed
  <2>1. caller[d] \in Caller
    BY DEF Mutex, Gates
  <2> QED BY <1>1, <2>1, Checks
<1>2. ASSUME NEW d \in Callers, Retrying(d) \/ Retrying(d)' PROVE Same(d)
  BY <1>1, <1>2 DEF Retrying, Same, At
<1>3. ASSUME NEW d \in Callers
      PROVE  /\ caller'[d].observed \in {0, caller[d].observed}
             /\ Begun(d)' => Begun(d) /\ caller'[d].observed = caller[d].observed
  BY <1>1 DEF Begun, At
<1> QED BY <1>2, <1>3, QuietStep

-----------------------------------------------------------------------------
(* The invariant holds at the start.                                       *)
LEMMA InitIInv == Init => IInv
<1> SUFFICES ASSUME Init PROVE IInv
  OBVIOUS
<1>1. Gates
  BY IdleIsCaller DEF Init, Gates
<1>2. \A c \in Callers : caller[c] = Idle
  BY DEF Init
<1>3. Idle.at \notin Inside
  BY IdleIsCaller DEF Inside, Holding
<1>4. OneGate /\ HoldersHold
  BY <1>2, <1>3, IdleIsCaller DEF OneGate, HoldersHold, Inside
<1>5. QueuesWait
  BY DEF Init, QueuesWait
<1>6. Account /\ DueIsAlive
  BY DEF Init, Account, NoAttempts, DueIsAlive
<1>7. ObservedPast /\ ObservedKnown
  <2>1. token_version = 1
    BY DEF Init
  <2>2. ObservedPast
    BY <1>2, <2>1, IdleIsCaller DEF ObservedPast
  <2>3. ObservedKnown
    BY <1>2, IdleIsCaller DEF ObservedKnown, Begun
  <2> QED BY <2>2, <2>3
<1>8. TakenIsReplaced /\ TokensAreUsedOnce /\ SpentIsSpent
  BY DEF Init, TakenIsReplaced, TokensAreUsedOnce, SpentIsSpent
<1> QED BY <1>1, <1>4, <1>5, <1>6, <1>7, <1>8 DEF IInv, Mutex, TokensSound

(* The token is replaced or deleted under the callers' feet.               *)
LEMMA AccountStep ==
  ASSUME IInv, Expire \/ Reauthorize \/ DeleteAccount
  PROVE  IInv'
<1> USE DEF IInv, TokensSound, mutexes, records, history
<1>1. UNCHANGED <<caller, gates, holder, queue, failed_attempts, consumed, lost, spent>>
  BY DEF Expire, Reauthorize, DeleteAccount
<1>2. Mutex'
  BY <1>1 DEF Mutex, Gates, OneGate, HoldersHold, QueuesWait
<1>3. /\ token_version \in Nat /\ token_version' \in Nat /\ token_version # 0
      /\ \/ token_version' = token_version
         \/ token_version' = token_version + 1
         \/ token_version' = 0
  <2>1. token_version \in Nat
    BY DEF Account
  <2>2. MaxVersion \in Nat
    BY BoundsAssumption
  <2> QED BY <2>1, <2>2 DEF Expire, Reauthorize, DeleteAccount
<1>4. Account' /\ DueIsAlive'
  <2>1. Account'
    BY <1>1, <1>3 DEF Account
  <2>2. CASE Expire
    <3>1. token_version' # 0
      BY <2>2, <1>3 DEF Expire
    <3> QED BY <2>1, <3>1 DEF DueIsAlive
  <2>3. CASE Reauthorize \/ DeleteAccount
    <3>1. due' = FALSE
      BY <2>3 DEF Reauthorize, DeleteAccount
    <3> QED BY <2>1, <3>1 DEF DueIsAlive
  <2> QED BY <2>1, <2>2, <2>3
<1>5. ObservedPast' /\ ObservedKnown'
  <2> SUFFICES ASSUME token_version' # 0, NEW c \in Callers
               PROVE  caller[c].observed <= token_version'
    BY <1>1 DEF ObservedPast, ObservedKnown, Begun
  <2>1. caller[c].observed \in Nat
    BY DEF Mutex, Gates, Caller
  <2>2. caller[c].observed <= token_version
    BY <1>3 DEF ObservedPast
  <2> QED BY <1>3, <2>1, <2>2
<1>6. TakenIsReplaced'
  <2> SUFFICES ASSUME NEW v \in consumed \ lost, token_version' # 0
               PROVE  \/ v < token_version'
                      \/ \E c \in Callers : At(c, "publishing") /\ caller[c].observed = v
    BY <1>1 DEF TakenIsReplaced, At
  <2>1. \/ v < token_version
        \/ \E c \in Callers : At(c, "publishing") /\ caller[c].observed = v
    BY <1>3 DEF TakenIsReplaced
  <2>2. CASE v < token_version
    <3>1. v \in Nat
      BY DEF Account
    <3> QED BY <2>2, <3>1, <1>3
  <2> QED BY <2>1, <2>2
<1>7. TokensAreUsedOnce'
  BY <1>1 DEF TokensAreUsedOnce, At
<1>8. SpentIsSpent'
  <2> SUFFICES ASSUME NEW s \in spent
               PROVE  /\ s \in Nat \X Nat
                      /\ token_version' # 0 => s[1] <= token_version'
                      /\ \A c \in Callers : Retrying(c) => s[1] <= caller[c].observed
                      /\ \/ token_version' = 0 \/ s[1] < token_version'
                         \/ AttemptsOf(s[1]) > s[2] + 1
                         \/ AttemptsOf(s[1]) = s[2] + 1 /\ \E c \in Callers : Retrying(c)
                              /\ Failure(c) = s
    BY <1>1 DEF SpentIsSpent, AttemptsOf, Retrying, Failure
  <2>1. /\ s \in Nat \X Nat
        /\ \A c \in Callers : Retrying(c) => s[1] <= caller[c].observed
        /\ token_version # 0 => s[1] <= token_version
    BY DEF SpentIsSpent
  <2>2. \/ token_version = 0 \/ s[1] < token_version
        \/ AttemptsOf(s[1]) > s[2] + 1
        \/ AttemptsOf(s[1]) = s[2] + 1 /\ \E c \in Callers : Retrying(c) /\ Failure(c) = s
    BY DEF SpentIsSpent
  <2>3. s[1] \in Nat
    BY <2>1
  <2>4. token_version' # 0 => s[1] <= token_version'
    BY <2>1, <2>3, <1>3
  <2>5. \/ token_version' = 0 \/ s[1] < token_version'
        \/ AttemptsOf(s[1]) > s[2] + 1
        \/ AttemptsOf(s[1]) = s[2] + 1 /\ \E c \in Callers : Retrying(c) /\ Failure(c) = s
    <3>1. CASE token_version = 0 \/ s[1] < token_version
      BY <3>1, <2>3, <1>3
    <3> QED BY <2>2, <3>1
  <2> QED BY <2>1, <2>4, <2>5
<1> QED BY <1>2, <1>4, <1>5, <1>6, <1>7, <1>8

(* A caller begins: it has no gate yet, and acts on the published token.   *)
LEMMA BeginStep ==
  ASSUME IInv, ScanDueAccounts \/ \E c \in Callers : SendAttempt(c)
  PROVE  IInv'
<1> USE DEF IInv, account, mutexes, records, history
<1>1. PICK c \in Callers, l \in {"gate", "retain", "retain only"} :
        /\ At(c, "idle") /\ (l = "retain only" \/ token_version # 0)
        /\ caller' = [caller EXCEPT ![c] = [Idle EXCEPT !.at = l, !.observed = token_version]]
        /\ UNCHANGED <<account, mutexes, failed_attempts, history>>
  <2>1. ASSUME NEW c \in Callers, SendAttempt(c)
        PROVE  /\ At(c, "idle") /\ token_version # 0
               /\ caller' = [caller EXCEPT ![c] = [Idle EXCEPT !.at = "gate",
                    !.observed = token_version]]
               /\ UNCHANGED <<account, mutexes, failed_attempts, history>>
    BY <2>1 DEF SendAttempt, Set
  <2>2. CASE ScanDueAccounts
    <3>1. /\ Scanner \in Callers /\ At(Scanner, "idle")
          /\ UNCHANGED <<account, mutexes, failed_attempts, history>>
      BY <2>2 DEF ScanDueAccounts, Callers
    <3>2. \/ /\ token_version # 0
             /\ caller' = [caller EXCEPT ![Scanner] = [Idle EXCEPT !.at = "retain",
                  !.observed = token_version]]
          \/ caller' = [caller EXCEPT ![Scanner] = [Idle EXCEPT !.at = "retain only",
               !.observed = token_version]]
      BY <2>2 DEF ScanDueAccounts, Set, TokensSound, DueIsAlive
    <3> QED BY <3>1, <3>2
  <2> QED BY <2>1, <2>2
<1> DEFINE r == [Idle EXCEPT !.at = l, !.observed = token_version]
<1>2. token_version \in Nat
  BY DEF TokensSound, Account
<1>3. r \in Caller /\ r.at = l /\ r.observed = token_version /\ r.gate = 0 /\ r.at \notin Inside
  BY <1>2, IdleIsCaller DEF Idle, Caller, Outside, Inside, Holding
<1>4. caller' = [caller EXCEPT ![c] = r]
  BY <1>1
<1> HIDE DEF r
<1>5. caller[c].at = "idle"
  BY <1>1 DEF At
<1>6. Mutex'
  <2>1. r.at \notin Holding
    BY <1>3 DEF Inside
  <2> QED BY <1>1, <1>3, <1>4, <1>5, <2>1, Moves
<1>7. caller'[c] = r /\ \A d \in Callers \ {c} : caller'[d] = caller[d]
  BY <1>4 DEF Mutex, Gates
<1>8. Account' /\ DueIsAlive'
  BY <1>1 DEF TokensSound, Account, DueIsAlive
<1>9. ObservedPast' /\ ObservedKnown'
  <2> SUFFICES ASSUME NEW d \in Callers
               PROVE  /\ token_version # 0 => caller'[d].observed <= token_version
                      /\ Begun(d)' => caller'[d].observed # 0
    BY <1>1 DEF ObservedPast, ObservedKnown
  <2>1. CASE d = c
    <3>1. caller'[d].observed = token_version
      BY <2>1, <1>3, <1>7
    <3>2. Begun(d)' => token_version # 0
      BY <2>1, <1>1, <1>3, <1>7 DEF Begun
    <3>3. token_version <= token_version
      BY <1>2, SelfLeq, Zenon
    <3> QED BY <3>1, <3>2, <3>3, Zenon
  <2>2. CASE d # c
    BY <2>2, <1>7 DEF TokensSound, ObservedPast, ObservedKnown, Begun
  <2> QED BY <2>1, <2>2
<1>10. ASSUME NEW d \in Callers, caller[d].at \in Holding \/ caller'[d].at \in Holding
       PROVE  caller'[d] = caller[d]
  <2>1. caller[c].at \notin Holding /\ caller'[c].at \notin Holding
    BY <1>3, <1>5, <1>7 DEF Inside, Holding
  <2> QED BY <1>7, <1>10, <2>1
<1>11. TakenIsReplaced' /\ TokensAreUsedOnce'
  <2>1. ASSUME NEW d \in Callers, NEW k \in {"exchange", "publishing"}, At(d, k) \/ At(d, k)'
        PROVE  At(d, k) /\ At(d, k)' /\ caller'[d].observed = caller[d].observed
    BY <1>10, <2>1 DEF At, Holding
  <2>2. TakenIsReplaced'
    BY <1>1, <2>1 DEF TokensSound, TakenIsReplaced
  <2>3. TokensAreUsedOnce'
    <3> SUFFICES ASSUME NEW d \in Callers, At(d, "exchange")', caller'[d].observed \in consumed
                 PROVE  caller'[d].observed \in lost
      BY <1>1 DEF TokensAreUsedOnce
    <3> QED BY <2>1 DEF TokensSound, TokensAreUsedOnce
  <2> QED BY <2>2, <2>3
<1>12. SpentIsSpent'
  <2>1. ASSUME NEW d \in Callers, Retrying(d) \/ Retrying(d)'
        PROVE  Retrying(d) /\ Retrying(d)' /\ caller'[d] = caller[d]
    BY <1>10, <2>1 DEF Retrying, Holding
  <2> QED BY <1>1, <2>1 DEF TokensSound, SpentIsSpent, AttemptsOf, Failure
<1> QED BY <1>6, <1>8, <1>9, <1>11, <1>12 DEF TokensSound

(* The scan tidies up: it drops the gate nobody has, and with the failed   *)
(* attempts what they have let through.                                    *)
LEMMA RetainStep == ASSUME IInv, RetainActiveRefreshState PROVE IInv'
<1> USE DEF IInv, account, mutexes, records, history
<1>1. /\ Scanner \in Callers /\ caller[Scanner].at \in {"retain", "retain only"}
      /\ caller[Scanner] \in Caller
  BY DEF RetainActiveRefreshState, At, Callers, Mutex, Gates
<1>2. PICK r \in Caller :
        /\ caller' = [caller EXCEPT ![Scanner] = r] /\ r.at \in {"idle", "gate"}
        /\ r.gate \in {0, caller[Scanner].gate}
        /\ r.at = "gate" => caller[Scanner].at = "retain" /\ r.observed = caller[Scanner].observed
        /\ r.at = "idle" => r.observed = 0
  <2>1. CASE At(Scanner, "retain")
    <3> DEFINE r == [caller[Scanner] EXCEPT !.at = "gate"]
    <3>1. caller' = [caller EXCEPT ![Scanner] = r]
      BY <2>1 DEF RetainActiveRefreshState, GoTo, Set
    <3>2. /\ r \in Caller /\ r.at = "gate" /\ r.gate = caller[Scanner].gate
          /\ r.observed = caller[Scanner].observed
      BY <1>1 DEF Caller, Outside
    <3> QED BY <3>1, <3>2, <2>1 DEF At
  <2>2. CASE ~At(Scanner, "retain")
    <3>1. caller' = [caller EXCEPT ![Scanner] = Idle]
      BY <2>2 DEF RetainActiveRefreshState, Set
    <3> QED BY <3>1, IdleIsCaller
  <2> QED BY <2>1, <2>2
<1>3. /\ UNCHANGED <<account, holder, queue, consumed, lost>>
      /\ \/ gates' = gates
         \/ gates' = 0 /\ \A c \in Callers : caller[c].gate # gates
      /\ \/ failed_attempts' = failed_attempts /\ spent' = spent
         \/ failed_attempts' \in {NoAttempts, failed_attempts} /\ spent' = {}
  BY DEF RetainActiveRefreshState
<1>4. r.at \notin Inside /\ caller[Scanner].at \notin Inside
  BY <1>1, <1>2 DEF Inside, Holding
<1>5. caller'[Scanner] = r /\ \A d \in Callers \ {Scanner} : caller'[d] = caller[d]
  BY <1>1, <1>2 DEF Mutex, Gates
<1>6. Mutex'
  <2>1. Gates'
    BY <1>2, <1>3 DEF Mutex, Gates
  <2>2. OneGate'
    <3> SUFFICES ASSUME NEW d \in Callers
                 PROVE  /\ caller'[d].at \in Inside => caller'[d].gate \in GateIds
                        /\ caller'[d].gate # 0 => caller'[d].gate = gates'
      BY DEF OneGate
    <3>1. caller'[d].gate \in {0, caller[d].gate}
      BY <1>2, <1>5
    <3>2. caller'[d].at \in Inside => caller'[d] = caller[d]
      BY <1>4, <1>5
    <3>3. caller[d].gate # 0 => caller[d].gate = gates
      BY DEF Mutex, OneGate
    <3>4. caller'[d].gate # 0 => caller'[d].gate = gates'
      BY <1>3, <3>1, <3>3
    <3>5. caller'[d].at \in Inside => caller'[d].gate \in GateIds
      BY <3>2 DEF Mutex, OneGate
    <3> QED BY <3>4, <3>5
  <2>3. HoldersHold'
    BY <1>3, <1>4, <1>5 DEF Mutex, HoldersHold, Inside
  <2>4. QueuesWait'
    <3> SUFFICES ASSUME NEW g \in GateIds, NEW i \in 1..Len(queue[g])
                 PROVE  /\ caller'[queue[g][i]].at = "waiting" /\ caller'[queue[g][i]].gate = g
                        /\ \A j \in 1..Len(queue[g]) : queue[g][i] = queue[g][j] => i = j
      BY <1>3 DEF QueuesWait
    <3>1. caller[queue[g][i]].at = "waiting" /\ queue[g][i] \in Callers
      BY DEF Mutex, Gates, QueuesWait
    <3>2. queue[g][i] # Scanner
      BY <3>1, <1>1
    <3> QED BY <3>1, <3>2, <1>5 DEF Mutex, QueuesWait
  <2> QED BY <2>1, <2>2, <2>3, <2>4 DEF Mutex
<1>7. \A d \in Callers : Retrying(d) \/ Retrying(d)' => caller'[d] = caller[d]
  BY <1>4, <1>5 DEF Retrying, Inside, Holding
<1>8. /\ \A d \in Callers : caller'[d].observed \in {0, caller[d].observed}
      /\ \A d \in Callers : Begun(d)' => Begun(d) /\ caller'[d].observed = caller[d].observed
  BY <1>1, <1>2, <1>5 DEF Begun
<1>9. CASE failed_attempts' = failed_attempts /\ spent' = spent
  <2>1. \A d \in Callers : Retrying(d) \/ Retrying(d)' => Same(d)
    BY <1>7 DEF Same
  <2> QED BY <1>3, <1>6, <1>8, <1>9, <2>1, QuietStep
<1>10. CASE failed_attempts' \in {NoAttempts, failed_attempts} /\ spent' = {}
  <2>1. Account' /\ DueIsAlive'
    BY <1>3, <1>10 DEF TokensSound, Account, DueIsAlive, NoAttempts
  <2>2. ObservedPast'
    <3> SUFFICES ASSUME token_version # 0, NEW d \in Callers
                 PROVE  caller'[d].observed <= token_version
      BY <1>3 DEF ObservedPast
    <3>1. token_version \in Nat /\ caller[d].observed <= token_version
      BY DEF TokensSound, Account, ObservedPast
    <3> QED BY <3>1, <1>8
  <2>3. ObservedKnown'
    BY <1>8 DEF TokensSound, ObservedKnown
  <2>4. ASSUME NEW d \in Callers, NEW l \in {"exchange", "publishing"}, At(d, l) \/ At(d, l)'
        PROVE  At(d, l) /\ At(d, l)' /\ caller'[d].observed = caller[d].observed
    BY <1>7, <2>4 DEF At, Retrying
  <2>5. TakenIsReplaced'
    BY <1>3, <2>4 DEF TokensSound, TakenIsReplaced
  <2>6. TokensAreUsedOnce'
    <3> SUFFICES ASSUME NEW d \in Callers, At(d, "exchange")', caller'[d].observed \in consumed
                 PROVE  caller'[d].observed \in lost
      BY <1>3 DEF TokensAreUsedOnce
    <3> QED BY <2>4 DEF TokensSound, TokensAreUsedOnce
  <2>7. SpentIsSpent'
    BY <1>10 DEF SpentIsSpent
  <2> QED BY <1>6, <2>1, <2>2, <2>3, <2>5, <2>6, <2>7 DEF TokensSound
<1> QED BY <1>3, <1>9, <1>10

-----------------------------------------------------------------------------
(* Up to the gate.                                                         *)

(* A caller takes the gate the map points to, or a fresh one.              *)
LEMMA GateStep == ASSUME IInv, NEW c \in Callers, Gate(c) PROVE IInv'
<1> USE DEF IInv, account, mutexes, records, history
<1>1. caller[c] \in Caller /\ caller[c].at = "gate"
  BY DEF Mutex, Gates, Gate, At
<1>2. PICK g \in GateIds :
        /\ gates' = g
        /\ caller' = [caller EXCEPT ![c] = [caller[c] EXCEPT !.at = "try", !.gate = g]]
        /\ \A d \in Callers : caller[d].gate # 0 => caller[d].gate = g
  <2> DEFINE live == gates # 0 /\ \E d \in Callers : caller[d].gate = gates
             n == CHOOSE n \in GateIds : \A d \in Callers : caller[d].gate # n
  <2>1. \A d \in Callers : caller[d].gate # 0 => caller[d].gate = gates
    BY DEF Mutex, OneGate
  <2>2. CASE live
    <3>1. gates \in GateIds
      BY <2>2 DEF Mutex, Gates
    <3>2. /\ gates' = gates
          /\ caller' = [caller EXCEPT ![c] = [caller[c] EXCEPT !.at = "try", !.gate = gates]]
      BY <2>2 DEF Gate, Set
    <3> QED BY <2>1, <3>1, <3>2
  <2>3. CASE ~live
    <3>1. \A d \in Callers : caller[d].gate = 0
      BY <2>1, <2>3
    <3>2. \E m \in GateIds : \A d \in Callers : caller[d].gate # m
      BY <3>1, SomeGate
    <3>3. n \in GateIds
      BY <3>2
    <3>4. /\ gates' = n
          /\ caller' = [caller EXCEPT ![c] = [caller[c] EXCEPT !.at = "try", !.gate = n]]
      BY <2>3 DEF Gate, Set
    <3> QED BY <3>1, <3>3, <3>4
  <2> QED BY <2>2, <2>3
<1> DEFINE r == [caller[c] EXCEPT !.at = "try", !.gate = g]
<1>3. r \in Caller /\ r.at = "try" /\ r.gate = g /\ r.observed = caller[c].observed
      /\ r.at \notin Holding
  BY <1>1 DEF Caller, Inside, Holding
<1>4. caller' = [caller EXCEPT ![c] = r]
  BY <1>2
<1> HIDE DEF r
<1>5. caller'[c] = r /\ \A d \in Callers \ {c} : caller'[d] = caller[d]
  BY <1>4 DEF Mutex, Gates
<1>6. UNCHANGED <<account, holder, queue, failed_attempts, consumed, lost, spent>>
  BY DEF Gate
<1>7. Mutex'
  <2>1. Gates'
    BY <1>2, <1>3, <1>4, <1>6 DEF Mutex, Gates
  <2>2. OneGate'
    BY <1>2, <1>3, <1>5 DEF Mutex, OneGate
  <2>3. HoldersHold'
    BY <1>3, <1>5, <1>6 DEF Mutex, HoldersHold
  <2>4. QueuesWait'
    <3> SUFFICES ASSUME NEW h \in GateIds, NEW i \in 1..Len(queue[h])
                 PROVE  /\ caller'[queue[h][i]].at = "waiting" /\ caller'[queue[h][i]].gate = h
                        /\ \A j \in 1..Len(queue[h]) : queue[h][i] = queue[h][j] => i = j
      BY <1>6 DEF QueuesWait
    <3>1. caller[queue[h][i]].at = "waiting" /\ queue[h][i] \in Callers
      BY DEF Mutex, Gates, QueuesWait
    <3>2. queue[h][i] # c
      BY <3>1, <1>1
    <3> QED BY <3>1, <3>2, <1>5 DEF Mutex, QueuesWait
  <2> QED BY <2>1, <2>2, <2>3, <2>4 DEF Mutex
<1>8. TokensSound'
  <2>1. ~Retrying(c) /\ Begun(c) /\ r.at \notin {"exchange", "publishing", "failing"}
    BY <1>1, <1>3 DEF Retrying, Begun
  <2> QED BY <1>3, <1>4, <1>6, <2>1, QuietSet
<1> QED BY <1>7, <1>8

(* A free mutex is taken.                                                  *)
LEMMA Takes ==
  ASSUME Mutex, NEW c \in Callers, caller[c].at \in {"try", "enqueue"},
         holder[caller[c].gate] = None,
         holder' = [holder EXCEPT ![caller[c].gate] = c], GoTo(c, "check"),
           UNCHANGED <<gates, queue>>
  PROVE  Mutex'
<1> DEFINE g == caller[c].gate
           r == [caller[c] EXCEPT !.at = "check"]
<1>1. caller[c].at \in Inside /\ caller[c].at # "waiting"
  BY DEF Inside
<1>2. g \in GateIds /\ g = gates /\ caller[c] \in Caller
  BY <1>1, SomeGate DEF Mutex, Gates, OneGate
<1>3. r \in Caller /\ r.at = "check" /\ r.gate = g
  BY <1>2, Checks
<1>4. caller' = [caller EXCEPT ![c] = r]
  BY DEF GoTo, Set
<1> HIDE DEF r
<1>5. caller'[c] = r /\ \A d \in Callers \ {c} : caller'[d] = caller[d]
  BY <1>4 DEF Mutex, Gates
<1>6. Gates'
  BY <1>2, <1>3, <1>4 DEF Mutex, Gates
<1>7. OneGate'
  BY <1>2, <1>3, <1>5 DEF Mutex, OneGate
<1>8. HoldersHold'
  <2> SUFFICES ASSUME NEW d \in Callers, caller'[d].at \in Holding
               PROVE holder'[caller'[d].gate] = d
    BY DEF HoldersHold
  <2>1. CASE d = c
    BY <2>1, <1>2, <1>3, <1>5 DEF Mutex, Gates
  <2>2. CASE d # c
    <3>1. caller'[d] = caller[d]
      BY <2>2, <1>5
    <3>2. holder[caller[d].gate] = d /\ caller[d].gate \in GateIds /\ d # None
      BY <3>1, CallersAssumption DEF Mutex, HoldersHold, OneGate, Inside, Callers
    <3>3. caller[d].gate # g
      BY <3>2
    <3> QED BY <3>1, <3>2, <3>3 DEF Mutex, Gates
  <2> QED BY <2>1, <2>2
<1>9. QueuesWait'
  <2> SUFFICES ASSUME NEW h \in GateIds, NEW i \in 1..Len(queue[h])
               PROVE  /\ caller'[queue[h][i]].at = "waiting" /\ caller'[queue[h][i]].gate = h
                      /\ \A j \in 1..Len(queue[h]) : queue[h][i] = queue[h][j] => i = j
    BY DEF QueuesWait
  <2>1. caller[queue[h][i]].at = "waiting" /\ queue[h][i] \in Callers
    BY DEF Mutex, Gates, QueuesWait
  <2>2. queue[h][i] # c
    BY <2>1, <1>1
  <2> QED BY <2>1, <2>2, <1>5 DEF Mutex, QueuesWait
<1> QED BY <1>6, <1>7, <1>8, <1>9 DEF Mutex

(* Or it is waited for.                                                    *)
LEMMA Waits ==
  ASSUME Mutex, NEW c \in Callers, caller[c].at = "enqueue",
         queue' = [queue EXCEPT ![caller[c].gate] = Append(@, c)],
         GoTo(c, "waiting"), UNCHANGED <<gates, holder>>
  PROVE  Mutex'
<1> DEFINE g == caller[c].gate
           r == [caller[c] EXCEPT !.at = "waiting"]
<1>1. caller[c].at \in Inside
  BY DEF Inside
<1>2. g \in GateIds /\ g = gates /\ caller[c] \in Caller /\ queue[g] \in Seq(Callers)
  BY <1>1, SomeGate DEF Mutex, Gates, OneGate
<1>3. r \in Caller /\ r.at = "waiting" /\ r.gate = g /\ r.at \notin Holding
  BY <1>2 DEF Caller, Inside, Holding
<1>4. caller' = [caller EXCEPT ![c] = r]
  BY DEF GoTo, Set
<1> HIDE DEF r
<1>5. caller'[c] = r /\ \A d \in Callers \ {c} : caller'[d] = caller[d]
  BY <1>4 DEF Mutex, Gates
<1>6. Gates'
  BY <1>2, <1>3, <1>4 DEF Mutex, Gates
<1>7. OneGate'
  BY <1>2, <1>3, <1>5 DEF Mutex, OneGate
<1>8. HoldersHold'
  BY <1>3, <1>5 DEF Mutex, HoldersHold
<1>9. ASSUME NEW h \in GateIds, NEW i \in 1..Len(queue[h])
      PROVE  /\ queue[h][i] \in Callers /\ queue[h][i] # c
             /\ caller'[queue[h][i]].at = "waiting" /\ caller'[queue[h][i]].gate = h
  <2>1. caller[queue[h][i]].at = "waiting" /\ queue[h][i] \in Callers
    BY DEF Mutex, Gates, QueuesWait
  <2>2. queue[h][i] # c
    BY <2>1
  <2> QED BY <2>1, <2>2, <1>5 DEF Mutex, QueuesWait
<1>10. QueuesWait'
  <2> SUFFICES ASSUME NEW h \in GateIds, NEW i \in 1..Len(queue'[h])
               PROVE  /\ caller'[queue'[h][i]].at = "waiting" /\ caller'[queue'[h][i]].gate = h
                      /\ \A j \in 1..Len(queue'[h]) : queue'[h][i] = queue'[h][j] => i = j
    BY DEF QueuesWait
  <2>1. CASE h # g
    <3>1. queue'[h] = queue[h]
      BY <2>1 DEF Mutex, Gates
    <3>2. i \in 1..Len(queue[h])
      BY <3>1
    <3>3. \A j \in 1..Len(queue[h]) : queue[h][i] = queue[h][j] => i = j
      BY <3>2 DEF Mutex, QueuesWait
    <3> QED BY <3>1, <3>2, <3>3, <1>9
  <2>2. CASE h = g
    <3> DEFINE w == queue[g]
    <3>1. /\ queue'[h] = Append(w, c) /\ Len(Append(w, c)) = Len(w) + 1
          /\ Append(w, c)[Len(w) + 1] = c
          /\ \A j \in 1..Len(w) : Append(w, c)[j] = w[j]
          /\ Len(w) \in Nat
      BY <2>2, <1>2 DEF Mutex, Gates
    <3>2. CASE i = Len(w) + 1
      <4>1. queue'[h][i] = c
        BY <3>1, <3>2
      <4>2. \A j \in 1..Len(queue'[h]) : queue'[h][j] = c => j = i
        BY <3>1, <3>2, <1>9, <1>2
      <4> QED BY <4>1, <4>2, <2>2, <1>3, <1>5
    <3>3. CASE i # Len(w) + 1
      <4>1. i \in 1..Len(w) /\ queue'[h][i] = w[i]
        BY <3>1, <3>3
      <4>2. w[i] # c /\ caller'[w[i]].at = "waiting" /\ caller'[w[i]].gate = g
        BY <4>1, <1>2, <1>9
      <4>3. ASSUME NEW j \in 1..Len(queue'[h]), queue'[h][i] = queue'[h][j] PROVE i = j
        <5>1. j # Len(w) + 1
          BY <3>1, <4>1, <4>2, <4>3
        <5>2. j \in 1..Len(w) /\ w[j] = w[i]
          BY <3>1, <4>1, <4>3, <5>1
        <5> QED BY <4>1, <5>2, <1>2 DEF Mutex, QueuesWait
      <4> QED BY <4>1, <4>2, <4>3, <2>2
    <3> QED BY <3>2, <3>3
  <2> QED BY <2>1, <2>2
<1> QED BY <1>6, <1>7, <1>8, <1>10 DEF Mutex

(* Or the caller leaves the queue.                                         *)
LEMMA Leaves ==
  ASSUME Mutex, NEW c \in Callers, caller[c].at = "waiting", LeaveQueue(c),
         caller' = [caller EXCEPT ![c] = Idle], UNCHANGED <<gates, holder>>
  PROVE  Mutex'
<1> DEFINE g == caller[c].gate
           w == queue[g]
<1>1. caller[c].at \in Inside
  BY DEF Inside
<1>2. g \in GateIds /\ w \in Seq(Callers) /\ Len(w) \in Nat
  BY <1>1 DEF Mutex, Gates, OneGate
<1>3. caller'[c] = Idle /\ \A d \in Callers \ {c} : caller'[d] = caller[d]
  BY DEF Mutex, Gates
<1>4. Idle \in Caller /\ Idle.at \notin Inside /\ Idle.at \notin Holding /\ Idle.gate = 0
  BY IdleIsCaller DEF Inside, Holding
<1>5. PICK k \in 1..Len(w) :
        /\ w[k] = c
        /\ queue' = [queue EXCEPT ![g] = [j \in 1..(Len(w) - 1) |-> IF j < k THEN w[j] ELSE w[j + 1]]]
  BY DEF LeaveQueue
<1> DEFINE u == [j \in 1..(Len(w) - 1) |-> IF j < k THEN w[j] ELSE w[j + 1]]
<1>6. u \in Seq(Callers) /\ Len(u) = Len(w) - 1
  BY <1>2
<1>7. queue' = [queue EXCEPT ![g] = u]
  BY <1>5
<1>8. ASSUME NEW j \in 1..Len(u)
      PROVE  \E m \in 1..Len(w) : m # k /\ u[j] = w[m] /\ m = IF j < k THEN j ELSE j + 1
  <2> DEFINE m == IF j < k THEN j ELSE j + 1
  <2>1. j \in 1..(Len(w) - 1) /\ k \in Nat /\ j \in Nat
    BY <1>2, <1>6
  <2>2. m \in 1..Len(w) /\ m # k
    BY <1>2, <2>1
  <2>3. u[j] = w[m]
    BY <2>1
  <2> QED BY <2>2, <2>3
<1> HIDE DEF u
<1>9. Gates'
  BY <1>2, <1>4, <1>6, <1>7 DEF Mutex, Gates
<1>10. OneGate'
  BY <1>3, <1>4 DEF Mutex, OneGate
<1>11. HoldersHold'
  BY <1>3, <1>4 DEF Mutex, HoldersHold
<1>12. QueuesWait'
  <2> SUFFICES ASSUME NEW h \in GateIds, NEW i \in 1..Len(queue'[h])
               PROVE  /\ caller'[queue'[h][i]].at = "waiting" /\ caller'[queue'[h][i]].gate = h
                      /\ \A j \in 1..Len(queue'[h]) : queue'[h][i] = queue'[h][j] => i = j
    BY DEF QueuesWait
  <2>1. CASE h # g
    <3>1. queue'[h] = queue[h]
      BY <2>1, <1>7 DEF Mutex, Gates
    <3>2. /\ queue[h][i] \in Callers
          /\ caller[queue[h][i]].at = "waiting" /\ caller[queue[h][i]].gate = h
          /\ \A j \in 1..Len(queue[h]) : queue[h][i] = queue[h][j] => i = j
      BY <3>1 DEF Mutex, Gates, QueuesWait
    <3>3. queue[h][i] # c
      BY <3>2, <2>1
    <3> QED BY <3>1, <3>2, <3>3, <1>3
  <2>2. CASE h = g
    <3>1. queue'[h] = u
      BY <2>2, <1>7, <1>2 DEF Mutex, Gates
    <3>2. PICK m \in 1..Len(w) : m # k /\ u[i] = w[m] /\ m = IF i < k THEN i ELSE i + 1
      BY <3>1, <1>8
    <3>3. /\ w[m] \in Callers /\ caller[w[m]].at = "waiting" /\ caller[w[m]].gate = g
          /\ \A j \in 1..Len(w) : w[m] = w[j] => m = j
      BY <1>2 DEF Mutex, QueuesWait
    <3>4. w[m] # c
      BY <3>2, <3>3, <1>5
    <3>5. ASSUME NEW j \in 1..Len(queue'[h]), queue'[h][i] = queue'[h][j] PROVE i = j
      <4>1. PICK n \in 1..Len(w) : n # k /\ u[j] = w[n] /\ n = IF j < k THEN j ELSE j + 1
        BY <3>1, <1>8
      <4>2. m = n
        BY <3>1, <3>2, <3>3, <3>5, <4>1
      <4>3. i \in Nat /\ j \in Nat /\ k \in Nat
        BY <3>1, <1>6, <1>2
      <4> QED BY <4>1, <4>2, <4>3, <3>2
    <3> QED BY <3>1, <3>2, <3>3, <3>4, <3>5, <2>2, <1>3
  <2> QED BY <2>1, <2>2
<1> QED BY <1>9, <1>10, <1>11, <1>12 DEF Mutex

(* Everything a caller does before it sends the token, and its report.     *)
LEMMA QuietCallerStep ==
  ASSUME IInv, NEW c \in Callers,
         \/ TryLock(c) \/ ObserveFailures(c) \/ Enqueue(c) \/ ReportFailure(c)
         \/ GiveUp(c) \/ MissingRefreshToken(c)
         \/ At(c, "waiting") /\ LeaveQueue(c) /\ Set(c, Idle)
              /\ UNCHANGED <<account, gates, holder, records, tries, history>>
  PROVE  IInv'
<1> USE DEF IInv, account, mutexes, records, history
<1>1. caller[c] \in Caller
  BY DEF Mutex, Gates
<1>2. ASSUME NEW l \in {"observe", "check", "waiting"}, GoTo(c, l)
      PROVE  \E r \in Caller : /\ caller' = [caller EXCEPT ![c] = r] /\ r.at = l
                               /\ r.gate = caller[c].gate /\ r.observed = caller[c].observed
  <2> DEFINE r == [caller[c] EXCEPT !.at = l]
  <2>1. r \in Caller /\ r.at = l /\ r.gate = caller[c].gate /\ r.observed = caller[c].observed
    BY <1>1 DEF Caller, Inside, Holding
  <2> QED BY <1>2, <2>1 DEF GoTo, Set
<1>3. CASE TryLock(c)
  <2>1. caller[c].at = "try" /\ Begun(c) /\ ~Retrying(c)
    BY <1>3 DEF TryLock, At, Begun, Retrying
  <2>2. UNCHANGED <<account, gates, queue, failed_attempts, consumed, lost, spent>>
    BY <1>3 DEF TryLock
  <2>3. PICK l \in {"observe", "check"} :
          /\ GoTo(c, l)
          /\ l = "check" => holder[caller[c].gate] = None
               /\ holder' = [holder EXCEPT ![caller[c].gate] = c]
          /\ l = "observe" => holder' = holder
    BY <1>3 DEF TryLock
  <2>4. PICK r \in Caller : /\ caller' = [caller EXCEPT ![c] = r] /\ r.at = l
                            /\ r.gate = caller[c].gate /\ r.observed = caller[c].observed
    BY <2>3, <1>2
  <2>5. TokensSound'
    BY <2>1, <2>2, <2>4, QuietSet
  <2>6. CASE l = "check"
    BY <2>1, <2>2, <2>3, <2>5, <2>6, Takes
  <2>7. CASE l = "observe"
    <3>1. r.at \notin Holding /\ caller[c].at \in Inside /\ caller[c].at # "waiting"
      BY <2>1, <2>4, <2>7 DEF Inside, Holding
    <3> QED BY <3>1, <2>2, <2>3, <2>4, <2>5, <2>7, Moves
  <2> QED BY <2>6, <2>7
<1>4. CASE ObserveFailures(c)
  <2> DEFINE r == [caller[c] EXCEPT !.at = "enqueue", !.waited = AttemptsOf(caller[c].observed)]
  <2>1. caller[c].at = "observe" /\ Begun(c) /\ ~Retrying(c) /\ caller[c].at \in Inside
    BY <1>4 DEF ObserveFailures, At, Begun, Retrying, Inside
  <2>2. AttemptsOf(caller[c].observed) \in Nat
    BY DEF TokensSound, Account, AttemptsOf
  <2>3. /\ r \in Caller /\ r.at = "enqueue" /\ r.gate = caller[c].gate
        /\ r.observed = caller[c].observed
        /\ r.at \notin Holding
    BY <1>1, <2>2 DEF Caller, Inside, Holding
  <2>4. /\ caller' = [caller EXCEPT ![c] = r]
        /\ UNCHANGED <<account, mutexes, failed_attempts, consumed, lost, spent>>
    BY <1>4 DEF ObserveFailures, Set
  <2> HIDE DEF r
  <2>5. TokensSound'
    BY <2>1, <2>3, <2>4, QuietSet
  <2>6. Mutex'
    BY <2>1, <2>3, <2>4, Moves
  <2> QED BY <2>5, <2>6
<1>5. CASE Enqueue(c)
  <2>1. caller[c].at = "enqueue" /\ Begun(c) /\ ~Retrying(c)
    BY <1>5 DEF Enqueue, At, Begun, Retrying
  <2>2. UNCHANGED <<account, gates, failed_attempts, consumed, lost, spent>>
    BY <1>5 DEF Enqueue
  <2>3. PICK l \in {"check", "waiting"} :
          /\ GoTo(c, l)
          /\ l = "check" => /\ holder[caller[c].gate] = None
                            /\ holder' = [holder EXCEPT ![caller[c].gate] = c] /\ queue' = queue
          /\ l = "waiting" => /\ queue' = [queue EXCEPT ![caller[c].gate] = Append(@, c)]
                              /\ holder' = holder
    BY <1>5 DEF Enqueue
  <2>4. PICK r \in Caller : /\ caller' = [caller EXCEPT ![c] = r] /\ r.at = l
                            /\ r.gate = caller[c].gate /\ r.observed = caller[c].observed
    BY <2>3, <1>2
  <2>5. TokensSound'
    BY <2>1, <2>2, <2>4, QuietSet
  <2>6. CASE l = "check"
    BY <2>1, <2>2, <2>3, <2>5, <2>6, Takes
  <2>7. CASE l = "waiting"
    BY <2>1, <2>2, <2>3, <2>5, <2>7, Waits
  <2> QED BY <2>6, <2>7
<1>6. CASE ReportFailure(c)
  <2>1. caller[c].at = "report" /\ ~Retrying(c) /\ caller[c].at # "waiting"
    BY <1>6 DEF ReportFailure, At, Retrying
  <2>2. /\ caller' = [caller EXCEPT ![c] = Idle]
        /\ UNCHANGED <<account, mutexes, failed_attempts, consumed, lost, spent>>
    BY <1>6 DEF ReportFailure, Set
  <2>3. /\ Idle.at \notin Inside /\ Idle.at \notin Holding
        /\ Idle.at \notin {"exchange", "publishing", "failing"}
    BY IdleIsCaller DEF Inside, Holding
  <2>4. TokensSound'
    BY <2>1, <2>2, <2>3, IdleIsCaller, QuietSet
  <2>5. Mutex'
    BY <2>1, <2>2, <2>3, IdleIsCaller, Moves
  <2> QED BY <2>4, <2>5
<1>7. CASE GiveUp(c) \/ MissingRefreshToken(c)
  <2>1. At(c, "check") /\ caller[c].at \in Holding
    BY <1>7 DEF GiveUp, MissingRefreshToken, At, Holding
  <2>2. PICK l \in {"idle", "report"} : Unlock(c,
          [Idle EXCEPT !.at = l, !.observed = caller[c].observed])
    BY <1>7 DEF GiveUp, MissingRefreshToken
  <2>3. UNCHANGED <<account, gates, failed_attempts, consumed, lost, spent>>
    BY <1>7 DEF GiveUp, MissingRefreshToken
  <2> DEFINE r == [Idle EXCEPT !.at = l, !.observed = caller[c].observed]
  <2>4. /\ r \in Caller /\ r.at = l /\ r.observed = caller[c].observed /\ r.gate = 0
        /\ r.at \in Outside
    BY <1>1 DEF Idle, Caller, Inside, Outside, Holding
  <2>5. Unlock(c, r)
    BY <2>2
  <2> HIDE DEF r
  <2>6. /\ Mutex' /\ caller'[c] = r
        /\ \A d \in Callers \ {c} :
              \/ caller'[d] = caller[d]
              \/ caller[d].at = "waiting" /\ caller'[d] = [caller[d] EXCEPT !.at = "check"]
    BY <2>1, <2>3, <2>4, <2>5, Unlocks
  <2> QED BY <2>1, <2>3, <2>4, <2>6, QuietUnlock
<1>8. CASE /\ At(c, "waiting") /\ LeaveQueue(c) /\ Set(c, Idle)
           /\ UNCHANGED <<account, gates, holder, records, tries, history>>
  <2>1. caller[c].at = "waiting" /\ ~Retrying(c) /\ caller' = [caller EXCEPT ![c] = Idle]
    BY <1>8 DEF At, Retrying, Set
  <2>2. /\ UNCHANGED <<account, failed_attempts, consumed, lost, spent>>
        /\ UNCHANGED <<gates, holder>> /\ LeaveQueue(c)
    BY <1>8
  <2>3. Mutex'
    BY <2>1, <2>2, Leaves
  <2>4. TokensSound'
    BY <2>1, <2>2, IdleIsCaller, QuietSet
  <2> QED BY <2>3, <2>4
<1> QED BY <1>3, <1>4, <1>5, <1>6, <1>7, <1>8

-----------------------------------------------------------------------------
(* Past the gate.                                                          *)

(* The holder of the gate goes on.                                         *)
LEMMA Walks ==
  ASSUME Mutex, NEW c \in Callers, caller[c].at \in Holding,
         NEW l \in {"exchange", "publishing", "failing"}, GoTo(c, l), UNCHANGED mutexes
  PROVE  /\ Mutex' /\ caller'[c].at = l /\ caller'[c].observed = caller[c].observed
         /\ caller'[c].waited = caller[c].waited
         /\ \A d \in Callers \ {c} : caller'[d] = caller[d] /\ caller[d].at \notin Holding
<1> DEFINE r == [caller[c] EXCEPT !.at = l]
<1>1. caller[c] \in Caller /\ caller[c].at \in Inside /\ caller[c].at # "waiting"
  BY DEF Mutex, Gates, Inside, Holding
<1>2. r \in Caller /\ r.at = l /\ r.gate = caller[c].gate /\ r.observed = caller[c].observed
      /\ r.waited = caller[c].waited
  BY <1>1 DEF Caller, Inside, Holding
<1>3. caller' = [caller EXCEPT ![c] = r]
  BY DEF GoTo, Set
<1> HIDE DEF r
<1>4. Mutex'
  BY <1>1, <1>2, <1>3, Moves DEF mutexes
<1>5. caller'[c] = r /\ \A d \in Callers \ {c} : caller'[d] = caller[d]
  BY <1>3 DEF Mutex, Gates
<1> QED BY <1>2, <1>4, <1>5, OneHolder

(* What does not depend on where the holder is.                            *)
LEMMA WalkKeeps ==
  ASSUME TokensSound, NEW c \in Callers, Begun(c), UNCHANGED <<account, failed_attempts>>,
         consumed' \subseteq consumed \union {caller[c].observed}, caller[c].observed \in Nat,
         caller'[c].observed = caller[c].observed,
         \A d \in Callers \ {c} : caller'[d] = caller[d]
  PROVE  Account' /\ DueIsAlive' /\ ObservedPast' /\ ObservedKnown'
<1> USE DEF account
<1>1. \A d \in Callers : caller'[d].observed = caller[d].observed
  OBVIOUS
<1>2. Account' /\ DueIsAlive'
  BY DEF TokensSound, Account, DueIsAlive
<1>3. ObservedPast'
  BY <1>1 DEF TokensSound, ObservedPast
<1>4. ObservedKnown'
  BY <1>1 DEF TokensSound, ObservedKnown, Begun
<1> QED BY <1>2, <1>3, <1>4

(* A caller past the gate that found its token current sends it.           *)
LEMMA SendStep == ASSUME IInv, NEW c \in Callers, SendRefreshToken(c) PROVE IInv'
<1> USE DEF IInv, account, records, history
<1> DEFINE v == caller[c].observed
<1>1. caller[c].at = "check" /\ caller[c].at \in Holding /\ Begun(c) /\ ~Retrying(c)
  BY DEF SendRefreshToken, At, Holding, Begun, Retrying
<1>2. /\ GoTo(c, "exchange") /\ UNCHANGED mutexes
      /\ UNCHANGED <<account, failed_attempts, consumed, lost>>
  BY DEF SendRefreshToken
<1>3. /\ Mutex' /\ caller'[c].at = "exchange" /\ caller'[c].observed = v
      /\ caller'[c].waited = caller[c].waited
      /\ \A d \in Callers \ {c} : caller'[d] = caller[d] /\ caller[d].at \notin Holding
  BY <1>1, <1>2, Walks
<1>4. v \in Nat /\ caller[c].waited \in Nat \union {None} /\ v # 0 /\ token_version = v
  <2>1. v # 0
    BY <1>1 DEF TokensSound, ObservedKnown
  <2>2. token_version = v
    BY DEF SendRefreshToken, MayExchange
  <2> QED BY <2>1, <2>2 DEF Mutex, Gates, Caller
<1>5. Account' /\ DueIsAlive' /\ ObservedPast' /\ ObservedKnown'
  BY <1>1, <1>2, <1>3, <1>4, WalkKeeps
<1>6. ASSUME NEW d \in Callers, NEW l \in {"exchange", "publishing", "failing"}, caller[d].at = l
      PROVE  FALSE
  <2>1. caller[d].at \in Holding
    BY <1>6 DEF Holding
  <2> QED BY <1>1, <1>3, <1>6, <2>1
<1>7. TakenIsReplaced'
  <2> SUFFICES ASSUME NEW w \in consumed \ lost PROVE w < token_version
    BY <1>2 DEF TakenIsReplaced
  <2> QED BY <1>4, <1>6 DEF TokensSound, TakenIsReplaced, At
<1>8. TokensAreUsedOnce'
  <2> SUFFICES ASSUME NEW d \in Callers, caller'[d].at = "exchange",
                      caller'[d].observed \in consumed,
                      caller'[d].observed \notin lost
               PROVE  FALSE
    BY <1>2 DEF TokensAreUsedOnce, At
  <2>1. d = c
    BY <1>3, <1>6
  <2>2. v \in consumed \ lost
    BY <2>1, <1>3
  <2>3. v < token_version
    BY <2>2, <1>4, <1>6 DEF TokensSound, TakenIsReplaced, At
  <2> QED BY <2>3, <1>4
<1>9. SpentIsSpent'
  <2> SUFFICES ASSUME NEW s \in spent'
               PROVE  /\ s \in Nat \X Nat
                      /\ token_version # 0 => s[1] <= token_version
                      /\ \A d \in Callers : Retrying(d)' => s[1] <= caller'[d].observed
                      /\ \/ token_version = 0 \/ s[1] < token_version
                         \/ AttemptsOf(s[1]) > s[2] + 1
                         \/ AttemptsOf(s[1]) = s[2] + 1 /\ \E d \in Callers : Retrying(d)'
                              /\ Failure(d)' = s
    BY <1>2 DEF SpentIsSpent, AttemptsOf
  <2>1. ASSUME NEW d \in Callers, Retrying(d)' PROVE d = c
    BY <1>3, <1>6, <2>1 DEF Retrying
  <2>2. CASE s \in spent
    <3>1. s \in Nat \X Nat /\ s[1] <= token_version
      BY <2>2, <1>4 DEF TokensSound, SpentIsSpent
    <3>2. \/ token_version = 0 \/ s[1] < token_version \/ AttemptsOf(s[1]) > s[2] + 1
      BY <2>2, <1>6 DEF TokensSound, SpentIsSpent, Retrying
    <3>3. \A d \in Callers : Retrying(d)' => s[1] <= caller'[d].observed
      BY <2>1, <3>1, <1>3, <1>4
    <3> QED BY <3>1, <3>2, <3>3
  <2>3. CASE s \notin spent
    <3>1. caller[c].waited # None /\ s = <<v, caller[c].waited>>
      BY <2>3 DEF SendRefreshToken, Failure
    <3>2. AttemptsOf(v) = caller[c].waited + 1
      BY <3>1 DEF SendRefreshToken, MayExchange, WaiterMayRetry
    <3>3. s \in Nat \X Nat /\ s[1] = v /\ s[2] = caller[c].waited
      BY <3>1, <1>4
    <3>4. s[1] <= token_version /\ \A d \in Callers : Retrying(d)' => s[1] <= caller'[d].observed
      BY <2>1, <3>3, <1>3, <1>4
    <3>5. Retrying(c)' /\ Failure(c)' = s
      BY <3>1, <1>3 DEF Retrying, Failure
    <3> QED BY <3>2, <3>3, <3>4, <3>5
  <2> QED BY <2>2, <2>3
<1> QED BY <1>3, <1>5, <1>7, <1>8, <1>9 DEF TokensSound

(* The answer of the identity provider.                                    *)
LEMMA ExchangeStep ==
  ASSUME IInv, NEW c \in Callers,
         \/ ExchangeSucceeds(c) \/ ExchangeRejected(c)
         \/ \E taken \in BOOLEAN : ExchangeFails(c, taken)
  PROVE  IInv'
<1> USE DEF IInv, account, records, history
<1> DEFINE v == caller[c].observed
<1>1. caller[c].at = "exchange" /\ caller[c].at \in Holding /\ Begun(c) /\ Retrying(c)
  BY DEF ExchangeSucceeds, ExchangeRejected, ExchangeFails, At, Holding, Begun, Retrying
<1>2. PICK l \in {"publishing", "failing"} :
        /\ GoTo(c, l) /\ UNCHANGED mutexes /\ UNCHANGED <<account, failed_attempts, spent>>
        /\ \/ l = "publishing" /\ consumed' = consumed \union {v} /\ lost' = lost
           \/ consumed' = consumed /\ lost' = lost
           \/ consumed' = consumed \union {v} /\ lost' = lost \union {v}
  BY DEF ExchangeSucceeds, ExchangeRejected, ExchangeFails
<1>3. /\ Mutex' /\ caller'[c].at = l /\ caller'[c].observed = v
      /\ caller'[c].waited = caller[c].waited
      /\ \A d \in Callers \ {c} : caller'[d] = caller[d] /\ caller[d].at \notin Holding
  BY <1>1, <1>2, Walks
<1>4. v \in Nat
  BY DEF Mutex, Gates, Caller
<1>5. Account' /\ DueIsAlive' /\ ObservedPast' /\ ObservedKnown'
  BY <1>1, <1>2, <1>3, <1>4, WalkKeeps
<1>6. ASSUME NEW d \in Callers, d # c, NEW k \in {"exchange", "publishing", "failing"}
      PROVE  caller[d].at # k /\ caller'[d].at # k
  <2>1. k \in Holding
    BY DEF Holding
  <2> QED BY <1>3, <1>6, <2>1
<1>7. TakenIsReplaced'
  <2> SUFFICES ASSUME NEW w \in consumed' \ lost', token_version # 0
               PROVE  \/ w < token_version
                      \/ \E d \in Callers : caller'[d].at = "publishing"
                           /\ caller'[d].observed = w
    BY <1>2 DEF TakenIsReplaced, At
  <2>1. CASE w \in consumed \ lost
    BY <2>1, <1>1, <1>6 DEF TokensSound, TakenIsReplaced, At
  <2>2. CASE w \notin consumed \ lost
    <3>1. w = v /\ l = "publishing"
      BY <2>2, <1>2
    <3> QED BY <3>1, <1>3
  <2> QED BY <2>1, <2>2
<1>8. TokensAreUsedOnce'
  BY <1>3, <1>6 DEF TokensAreUsedOnce, At
<1>9. SpentIsSpent'
  <2>1. Retrying(c)' /\ Failure(c)' = Failure(c)
    BY <1>3 DEF Retrying, Failure
  <2>2. \A d \in Callers : Retrying(d) \/ Retrying(d)' => d = c
    BY <1>6 DEF Retrying
  <2> SUFFICES ASSUME NEW s \in spent
               PROVE  /\ s \in Nat \X Nat
                      /\ token_version # 0 => s[1] <= token_version
                      /\ \A d \in Callers : Retrying(d)' => s[1] <= caller'[d].observed
                      /\ \/ token_version = 0 \/ s[1] < token_version
                         \/ AttemptsOf(s[1]) > s[2] + 1
                         \/ AttemptsOf(s[1]) = s[2] + 1 /\ \E d \in Callers : Retrying(d)'
                              /\ Failure(d)' = s
    BY <1>2 DEF SpentIsSpent, AttemptsOf
  <2>3. /\ s \in Nat \X Nat
        /\ token_version # 0 => s[1] <= token_version
        /\ s[1] <= v
        /\ \/ token_version = 0 \/ s[1] < token_version
           \/ AttemptsOf(s[1]) > s[2] + 1
           \/ AttemptsOf(s[1]) = s[2] + 1 /\ \E d \in Callers : Retrying(d) /\ Failure(d) = s
    BY <1>1 DEF TokensSound, SpentIsSpent
  <2> QED BY <2>1, <2>2, <2>3, <1>3
<1> QED BY <1>3, <1>5, <1>7, <1>8, <1>9 DEF TokensSound

(* The record a holder leaves behind when it reports or records.           *)
LEMMA LeftBehind ==
  ASSUME Mutex, NEW c \in Callers, NEW l \in {"idle", "report", "recording"}
  PROVE  LET r == [Idle EXCEPT !.at = l, !.observed = caller[c].observed] IN
         r \in Caller /\ r.at = l /\ r.observed = caller[c].observed /\ r.gate = 0
<1>1. caller[c].observed \in Nat
  BY DEF Mutex, Gates, Caller
<1>2. l \in Outside
  BY DEF Outside
<1> QED BY <1>1, <1>2 DEF Idle, Caller

(* When the holder leaves, nobody is past the check.                       *)
LEMMA Departs ==
  ASSUME IInv, NEW c \in Callers, Retrying(c), NEW l \in {"idle", "report", "recording"},
         NEW o \in {0, caller[c].observed}, l = "idle" \/ o = caller[c].observed,
         NEW r \in Caller, r.at = l, r.observed = o, r.gate = 0,
         Unlock(c, r), UNCHANGED gates
  PROVE  /\ Mutex' /\ ObservedKnown'
         /\ \A d \in Callers : /\ caller'[d].observed \in {0, caller[d].observed}
                               /\ ~Retrying(d)' /\ (Retrying(d) => d = c)
<1> USE DEF IInv
<1>1. caller[c] \in Caller /\ caller[c].at \in Holding /\ Begun(c)
  BY DEF Mutex, Gates, Retrying, Holding, Begun
<1>2. r \in Caller /\ r.at = l /\ r.observed = o /\ r.gate = 0 /\ r.at \in Outside
  BY DEF Outside
<1>3. Unlock(c, r)
  OBVIOUS
<1>4. /\ Mutex' /\ caller'[c] = r
      /\ \A d \in Callers \ {c} :
            \/ caller'[d] = caller[d]
            \/ caller[d].at = "waiting" /\ caller'[d] = [caller[d] EXCEPT !.at = "check"]
  BY <1>1, <1>2, <1>3, Unlocks
<1>5. ASSUME NEW d \in Callers, d # c
      PROVE  /\ caller'[d].observed = caller[d].observed /\ (Begun(d)' => Begun(d))
             /\ ~Retrying(d) /\ ~Retrying(d)'
  <2>1. caller[d] \in Caller
    BY DEF Mutex, Gates
  <2>2. ~Retrying(d)
    <3>1. Retrying(d) => caller[d].at \in Holding
      BY DEF Retrying, Holding
    <3> QED BY <3>1, <1>1, <1>5, OneHolder
  <2>3. CASE caller'[d] = caller[d]
    BY <2>2, <2>3 DEF Begun, Retrying
  <2>4. CASE caller[d].at = "waiting" /\ caller'[d] = [caller[d] EXCEPT !.at = "check"]
    <3>1. caller'[d].at = "check" /\ caller'[d].observed = caller[d].observed
      BY <2>1, <2>4, Checks
    <3> QED BY <2>2, <2>4, <3>1 DEF Begun, Retrying
  <2> QED BY <1>4, <1>5, <2>3, <2>4
<1>6. ~Retrying(c)' /\ caller'[c].observed = o /\ caller'[c].at = l
  BY <1>2, <1>4 DEF Retrying
<1>7. ObservedKnown'
  <2> SUFFICES ASSUME NEW d \in Callers, Begun(d)' PROVE caller'[d].observed # 0
    BY DEF ObservedKnown
  <2>1. CASE d = c
    <3>1. o = caller[c].observed
      BY <2>1, <1>6 DEF Begun
    <3>2. caller[c].observed # 0
      BY <1>1 DEF TokensSound, ObservedKnown
    <3> QED BY <2>1, <3>1, <3>2, <1>6
  <2>2. CASE d # c
    BY <2>2, <1>5 DEF TokensSound, ObservedKnown
  <2> QED BY <2>1, <2>2
<1> QED BY <1>4, <1>5, <1>6, <1>7

(* What the tokens need when nobody is past the check.                     *)
LEMMA Departed ==
  ASSUME ObservedKnown', Account', DueIsAlive', token_version' # 0 => token_version # 0,
         token_version \in Nat, token_version' \in Nat,
         token_version # 0 /\ token_version' # 0 => token_version <= token_version',
         ObservedPast, \A d \in Callers : caller[d].observed \in Nat,
         \A d \in Callers : caller'[d].observed \in {0, caller[d].observed} /\ ~Retrying(d)',
         \A w \in consumed' \ lost' : token_version' # 0 => w < token_version',
         \A s \in spent' :
           /\ s \in Nat \X Nat
           /\ token_version' # 0 => s[1] <= token_version'
           /\ token_version' = 0 \/ s[1] < token_version' \/ AttemptsOf(s[1])' > s[2] + 1
  PROVE  TokensSound'
<1>1. ObservedPast'
  <2> SUFFICES ASSUME token_version' # 0, NEW d \in Callers
               PROVE caller'[d].observed <= token_version'
    BY DEF ObservedPast
  <2>1. caller[d].observed <= token_version /\ caller[d].observed \in Nat
    BY DEF ObservedPast
  <2>2. caller[d].observed <= token_version'
    BY <2>1
  <2>3. CASE caller'[d].observed = 0
    BY <2>3
  <2>4. CASE caller'[d].observed = caller[d].observed
    BY <2>2, <2>4
  <2> QED BY <2>3, <2>4
<1>2. TakenIsReplaced'
  BY DEF TakenIsReplaced
<1>3. TokensAreUsedOnce'
  BY DEF TokensAreUsedOnce, Retrying, At
<1>4. SpentIsSpent'
  <2> SUFFICES ASSUME NEW s \in spent'
               PROVE  /\ s \in Nat \X Nat
                      /\ token_version' # 0 => s[1] <= token_version'
                      /\ \A d \in Callers : Retrying(d)' => s[1] <= caller'[d].observed
                      /\ token_version' = 0 \/ s[1] < token_version'
                           \/ AttemptsOf(s[1])' > s[2] + 1
    BY DEF SpentIsSpent
  <2> QED OBVIOUS
<1> QED BY <1>1, <1>2, <1>3, <1>4 DEF TokensSound

(* Facts about the one that leaves.                                        *)
LEMMA Leaving ==
  ASSUME IInv, NEW c \in Callers, Retrying(c), \A d \in Callers : Retrying(d) => d = c
  PROVE  LET v == caller[c].observed IN
         /\ v \in Nat /\ v # 0 /\ token_version \in Nat
         /\ \A d \in Callers : caller[d].observed \in Nat
         /\ token_version = 0 \/ v <= token_version
         /\ \A w \in consumed \ lost : token_version # 0 /\ (At(c, "publishing") => w # v) =>
              w < token_version
         /\ \A s \in spent : /\ s \in Nat \X Nat /\ s[1] <= v
                             /\ \/ token_version = 0 \/ s[1] < token_version
                                \/ AttemptsOf(s[1]) > s[2] + 1
                                \/ AttemptsOf(s[1]) = s[2] + 1 /\ Failure(c) = s
<1> USE DEF IInv
<1> DEFINE v == caller[c].observed
<1>1. \A d \in Callers : caller[d].observed \in Nat
  BY DEF Mutex, Gates, Caller
<1>2. v # 0
  <2>1. Begun(c)
    BY DEF Begun, Retrying
  <2> QED BY <2>1 DEF TokensSound, ObservedKnown
<1>3. token_version \in Nat
  BY DEF TokensSound, Account
<1>4. token_version = 0 \/ v <= token_version
  BY DEF TokensSound, ObservedPast
<1>5. ASSUME NEW w \in consumed \ lost, token_version # 0, At(c, "publishing") => w # v
      PROVE  w < token_version
  <2>1. ASSUME NEW d \in Callers, At(d, "publishing"), caller[d].observed = w PROVE FALSE
    BY <1>5, <2>1 DEF Retrying, At
  <2> QED BY <1>5, <2>1 DEF TokensSound, TakenIsReplaced
<1>6. ASSUME NEW s \in spent
      PROVE  /\ s \in Nat \X Nat /\ s[1] <= v
             /\ \/ token_version = 0 \/ s[1] < token_version
                \/ AttemptsOf(s[1]) > s[2] + 1
                \/ AttemptsOf(s[1]) = s[2] + 1 /\ Failure(c) = s
  BY DEF TokensSound, SpentIsSpent
<1> QED BY <1>1, <1>2, <1>3, <1>4, <1>5, <1>6

(* The exchange failed: one more failure is on record.                     *)
LEMMA FailStep == ASSUME IInv, NEW c \in Callers, RecordFailedAttempt(c) PROVE IInv'
<1> USE DEF account, records, history
<1> DEFINE v == caller[c].observed
<1>1. Retrying(c) /\ ~At(c, "publishing")
  BY DEF RecordFailedAttempt, At, Retrying
<1>2. /\ Unlock(c, [Idle EXCEPT !.at = "report", !.observed = v]) /\ UNCHANGED gates
      /\ failed_attempts' = [version |-> v, attempts |-> AttemptsOf(v) + 1]
      /\ UNCHANGED <<account, consumed, lost, spent>>
  BY DEF RecordFailedAttempt
<1>3. /\ Mutex' /\ ObservedKnown'
      /\ \A d \in Callers : /\ caller'[d].observed \in {0, caller[d].observed}
                            /\ ~Retrying(d)' /\ (Retrying(d) => d = c)
  <2> DEFINE r == [Idle EXCEPT !.at = "report", !.observed = v]
  <2>1. r \in Caller /\ r.at = "report" /\ r.observed = v /\ r.gate = 0
    BY LeftBehind DEF IInv
  <2>2. Unlock(c, r)
    BY <1>2
  <2> HIDE DEF r
  <2> QED BY <1>1, <1>2, <2>1, <2>2, Departs
<1>4. /\ v \in Nat /\ v # 0 /\ token_version \in Nat
      /\ \A d \in Callers : caller[d].observed \in Nat
      /\ token_version = 0 \/ v <= token_version
      /\ \A w \in consumed \ lost : token_version # 0 /\ (At(c, "publishing") => w # v) =>
           w < token_version
      /\ \A s \in spent : /\ s \in Nat \X Nat /\ s[1] <= v
                          /\ \/ token_version = 0 \/ s[1] < token_version
                             \/ AttemptsOf(s[1]) > s[2] + 1
                             \/ AttemptsOf(s[1]) = s[2] + 1 /\ Failure(c) = s
  BY <1>1, <1>3, Leaving
<1>5. AttemptsOf(v) \in Nat /\ ObservedPast
  BY DEF IInv, TokensSound, Account, AttemptsOf
<1>6. Account' /\ DueIsAlive'
  <2>1. Account'
    BY <1>2, <1>4, <1>5 DEF IInv, TokensSound, Account
  <2>2. DueIsAlive'
    BY <1>2 DEF IInv, TokensSound, DueIsAlive
  <2> QED BY <2>1, <2>2
<1>7. \A w \in consumed' \ lost' : token_version' # 0 => w < token_version'
  BY <1>1, <1>2, <1>4
<1>8. ASSUME NEW s \in spent'
      PROVE  /\ s \in Nat \X Nat
             /\ token_version' # 0 => s[1] <= token_version'
             /\ token_version' = 0 \/ s[1] < token_version' \/ AttemptsOf(s[1])' > s[2] + 1
  <2>1. s \in spent /\ token_version' = token_version
    BY <1>2
  <2>2. /\ s \in Nat \X Nat /\ s[1] \in Nat /\ s[2] \in Nat /\ s[1] <= v
        /\ \/ token_version = 0 \/ s[1] < token_version
           \/ AttemptsOf(s[1]) > s[2] + 1
           \/ AttemptsOf(s[1]) = s[2] + 1
    BY <2>1, <1>4
  <2>3. token_version' # 0 => s[1] <= token_version'
    BY <2>1, <2>2, <1>4
  <2>4. CASE s[1] = v
    <3>1. AttemptsOf(s[1])' = AttemptsOf(v) + 1
      BY <1>2, <2>4 DEF AttemptsOf
    <3>2. AttemptsOf(s[1])' > s[2] + 1 \/ token_version = 0 \/ s[1] < token_version
      BY <3>1, <2>2, <2>4, <1>5
    <3> QED BY <3>2, <2>1, <2>2, <2>3
  <2>5. CASE s[1] # v
    <3>1. token_version = 0 \/ s[1] < token_version
      BY <2>2, <2>5, <1>4
    <3> QED BY <3>1, <2>1, <2>2, <2>3
  <2> QED BY <2>4, <2>5
<1>9. TokensSound'
  BY <1>2, <1>3, <1>4, <1>5, <1>6, <1>7, <1>8, Departed
<1> QED BY <1>3, <1>9 DEF IInv

(* The answer is published, or found on top of a newer token.              *)
LEMMA PublishStep == ASSUME IInv, NEW c \in Callers, PublishRefresh(c) PROVE IInv'
<1> USE DEF account, records, history
<1> DEFINE v == caller[c].observed
<1>1. Retrying(c)
  BY DEF PublishRefresh, At, Retrying
<1>2. PICK l \in {"idle", "report", "recording"} : Unlock(c,
        [Idle EXCEPT !.at = l, !.observed = v])
  <2>1. Unlock(c, [Idle EXCEPT !.observed = v,
                  !.at = IF caller[c].gone THEN "idle"
                         ELSE IF token_version' > v THEN "recording"
                         ELSE IF c = Scanner THEN "idle" ELSE "report"])
    BY DEF PublishRefresh
  <2> DEFINE l == IF caller[c].gone THEN "idle"
                  ELSE IF token_version' > v THEN "recording"
                  ELSE IF c = Scanner THEN "idle" ELSE "report"
  <2>2. l \in {"idle", "report", "recording"}
    OBVIOUS
  <2>3. Unlock(c, [Idle EXCEPT !.observed = v, !.at = l])
    BY <2>1
  <2> HIDE DEF l
  <2>4. [Idle EXCEPT !.observed = v, !.at = l] = [Idle EXCEPT !.at = l, !.observed = v]
    BY DEF Idle
  <2> QED BY <2>2, <2>3, <2>4
<1>3. /\ UNCHANGED gates /\ UNCHANGED <<failed_attempts, consumed, lost, spent>>
      /\ token_version' = IF token_version = v THEN v + 1 ELSE token_version
      /\ due' = IF token_version = v THEN FALSE ELSE due
  BY DEF PublishRefresh
<1>4. /\ Mutex' /\ ObservedKnown'
      /\ \A d \in Callers : /\ caller'[d].observed \in {0, caller[d].observed}
                            /\ ~Retrying(d)' /\ (Retrying(d) => d = c)
  <2> DEFINE r == [Idle EXCEPT !.at = l, !.observed = v]
  <2>1. r \in Caller /\ r.at = l /\ r.observed = v /\ r.gate = 0
    BY <1>2, LeftBehind DEF IInv
  <2>2. Unlock(c, r)
    BY <1>2
  <2> HIDE DEF r
  <2> QED BY <1>1, <1>2, <1>3, <2>1, <2>2, Departs
<1>5. /\ v \in Nat /\ v # 0 /\ token_version \in Nat
      /\ \A d \in Callers : caller[d].observed \in Nat
      /\ token_version = 0 \/ v <= token_version
      /\ \A w \in consumed \ lost : token_version # 0 /\ (At(c, "publishing") => w # v) =>
           w < token_version
      /\ \A s \in spent : s \in Nat \X Nat /\ s[1] <= v
  BY <1>1, <1>4, Leaving
<1>6. /\ token_version' \in Nat /\ token_version <= token_version'
      /\ token_version' # 0 => token_version # 0 /\ v < token_version'
      /\ token_version' = 0 => token_version = 0 /\ token_version # v
  BY <1>3, <1>5
<1>7. Account' /\ DueIsAlive'
  <2>1. Account'
    BY <1>3, <1>6 DEF IInv, TokensSound, Account
  <2>2. DueIsAlive'
    BY <1>3, <1>6 DEF IInv, TokensSound, DueIsAlive
  <2> QED BY <2>1, <2>2
<1>8. ASSUME NEW w \in consumed' \ lost', token_version' # 0 PROVE w < token_version'
  <2>1. w \in consumed \ lost /\ w \in Nat
    BY <1>3 DEF IInv, TokensSound, Account
  <2>2. CASE w = v
    BY <2>2, <1>6, <1>8
  <2>3. CASE w # v
    BY <2>1, <2>3, <1>5, <1>6, <1>8
  <2> QED BY <2>2, <2>3
<1>9. ASSUME NEW s \in spent'
      PROVE  /\ s \in Nat \X Nat
             /\ token_version' # 0 => s[1] <= token_version'
             /\ token_version' = 0 \/ s[1] < token_version' \/ AttemptsOf(s[1])' > s[2] + 1
  <2>1. s \in Nat \X Nat /\ s[1] \in Nat /\ s[1] <= v
    BY <1>3, <1>5
  <2>2. token_version' # 0 => s[1] < token_version' /\ s[1] <= token_version'
    BY <2>1, <1>5, <1>6
  <2> QED BY <2>1, <2>2
<1>10. ObservedPast
  BY DEF IInv, TokensSound
<1>11. TokensSound'
  BY <1>4, <1>5, <1>6, <1>7, <1>8, <1>9, <1>10, Departed
<1> QED BY <1>4, <1>11 DEF IInv

(* The answer is lost: its publication fails, or the caller leaves.        *)
LEMMA LostStep ==
  ASSUME IInv, NEW c \in Callers, Retrying(c), NEW l \in {"idle", "report"},
         NEW o \in {0, caller[c].observed}, l = "idle" \/ o = caller[c].observed,
         NEW r \in Caller, r.at = l, r.observed = o, r.gate = 0,
         Unlock(c, r), UNCHANGED gates,
         UNCHANGED <<account, failed_attempts>>, spent' = spent \ {Failure(c)},
         consumed' \subseteq consumed \union {caller[c].observed}, lost \subseteq lost',
         caller[c].observed \in consumed' => caller[c].observed \in lost' \/ ~At(c, "publishing"),
         consumed' # consumed => caller[c].observed \in lost'
  PROVE  IInv'
<1> USE DEF account
<1> DEFINE v == caller[c].observed
<1>1. /\ Mutex' /\ ObservedKnown'
      /\ \A d \in Callers : /\ caller'[d].observed \in {0, caller[d].observed}
                            /\ ~Retrying(d)' /\ (Retrying(d) => d = c)
  BY Departs
<1>2. /\ v \in Nat /\ v # 0 /\ token_version \in Nat
      /\ \A d \in Callers : caller[d].observed \in Nat
      /\ token_version = 0 \/ v <= token_version
      /\ \A w \in consumed \ lost : token_version # 0 /\ (At(c, "publishing") => w # v) =>
           w < token_version
      /\ \A s \in spent : /\ s \in Nat \X Nat /\ s[1] <= v
                          /\ \/ token_version = 0 \/ s[1] < token_version
                             \/ AttemptsOf(s[1]) > s[2] + 1
                             \/ AttemptsOf(s[1]) = s[2] + 1 /\ Failure(c) = s
  BY <1>1, Leaving
<1>3. Account' /\ DueIsAlive' /\ ObservedPast
  <2>1. Account'
    BY <1>2 DEF IInv, TokensSound, Account
  <2> QED BY <2>1 DEF IInv, TokensSound, DueIsAlive
<1>4. ASSUME NEW w \in consumed' \ lost', token_version' # 0 PROVE w < token_version'
  <2>1. w \in consumed \ lost
    OBVIOUS
  <2>2. At(c, "publishing") => w # v
    OBVIOUS
  <2> QED BY <2>1, <2>2, <1>2, <1>4
<1>5. ASSUME NEW s \in spent'
      PROVE  /\ s \in Nat \X Nat
             /\ token_version' # 0 => s[1] <= token_version'
             /\ token_version' = 0 \/ s[1] < token_version' \/ AttemptsOf(s[1])' > s[2] + 1
  <2>1. /\ s \in spent /\ s # Failure(c) /\ AttemptsOf(s[1])' = AttemptsOf(s[1])
        /\ token_version' = token_version
    BY DEF AttemptsOf
  <2>2. /\ s \in Nat \X Nat /\ s[1] \in Nat /\ s[1] <= v
        /\ token_version = 0 \/ s[1] < token_version \/ AttemptsOf(s[1]) > s[2] + 1
    BY <2>1, <1>2
  <2>3. token_version # 0 => s[1] <= token_version
    BY <2>2, <1>2
  <2> QED BY <2>1, <2>2, <2>3
<1>6. token_version' = token_version /\ token_version' \in Nat /\ token_version <= token_version'
  BY <1>2
<1>7. TokensSound'
  BY <1>1, <1>2, <1>3, <1>4, <1>5, <1>6, Departed
<1> QED BY <1>1, <1>7 DEF IInv

(* The published token clears the count of failures.                       *)
LEMMA RecordSuccessStep == ASSUME IInv, NEW c \in Callers, RecordSuccess(c) PROVE IInv'
<1> USE DEF IInv, account, mutexes, records, history
<1>1. caller[c].at = "recording" /\ ~Retrying(c) /\ caller[c].at # "waiting"
  BY DEF RecordSuccess, At, Retrying
<1>2. /\ caller' = [caller EXCEPT ![c] = Idle]
      /\ UNCHANGED <<account, gates, holder, queue, consumed, lost>>
      /\ failed_attempts' = NoAttempts /\ spent' = {}
  BY DEF RecordSuccess, Set
<1>3. /\ Idle \in Caller /\ Idle.at \notin Inside /\ Idle.at \notin Holding /\ Idle.at = "idle"
      /\ Idle.observed = 0
      /\ Idle.gate = 0
  BY IdleIsCaller DEF Inside, Holding
<1>4. Mutex'
  BY <1>1, <1>2, <1>3, Moves
<1>5. caller'[c] = Idle /\ \A d \in Callers \ {c} : caller'[d] = caller[d]
  BY <1>2 DEF Mutex, Gates
<1>6. Account' /\ DueIsAlive'
  BY <1>2 DEF TokensSound, Account, DueIsAlive, NoAttempts
<1>7. ObservedPast'
  <2> SUFFICES ASSUME token_version # 0, NEW d \in Callers
               PROVE  caller'[d].observed <= token_version
    BY <1>2 DEF ObservedPast
  <2>1. token_version \in Nat /\ caller[d].observed <= token_version
    BY DEF TokensSound, Account, ObservedPast
  <2>2. caller'[d].observed \in {0, caller[d].observed}
    BY <1>3, <1>5
  <2> QED BY <2>1, <2>2
<1>8. ObservedKnown'
  <2>1. \A d \in Callers : Begun(d)' => Begun(d) /\ caller'[d] = caller[d]
    BY <1>3, <1>5 DEF Begun
  <2> QED BY <2>1 DEF TokensSound, ObservedKnown
<1>9. ASSUME NEW d \in Callers, NEW l \in {"exchange", "publishing"}, At(d, l) \/ At(d, l)'
      PROVE  At(d, l) /\ At(d, l)' /\ caller'[d].observed = caller[d].observed
  BY <1>1, <1>3, <1>5, <1>9 DEF At
<1>10. TakenIsReplaced'
  BY <1>2, <1>9 DEF TokensSound, TakenIsReplaced
<1>11. TokensAreUsedOnce'
  <2> SUFFICES ASSUME NEW d \in Callers, At(d, "exchange")', caller'[d].observed \in consumed
               PROVE  caller'[d].observed \in lost
    BY <1>2 DEF TokensAreUsedOnce
  <2> QED BY <1>9 DEF TokensSound, TokensAreUsedOnce
<1>12. SpentIsSpent'
  BY <1>2 DEF SpentIsSpent
<1> QED BY <1>4, <1>6, <1>7, <1>8, <1>10, <1>11, <1>12 DEF TokensSound

(* A publication whose caller is gone.                                     *)
LEMMA GoneStep ==
  ASSUME IInv, NEW c \in Callers, At(c, "publishing"), Set(c, [caller[c] EXCEPT !.gone = TRUE]),
         UNCHANGED <<account, mutexes, records, tries, history>>
  PROVE  IInv'
<1> USE DEF IInv, account, mutexes, records, history
<1> DEFINE r == [caller[c] EXCEPT !.gone = TRUE]
<1>1. caller[c] \in Caller /\ caller[c].at = "publishing" /\ caller[c].at \in Inside
  BY DEF Mutex, Gates, At, Inside, Holding
<1>2. /\ r \in Caller /\ r.at = caller[c].at /\ r.observed = caller[c].observed
      /\ r.waited = caller[c].waited /\ r.gate = caller[c].gate
  BY <1>1 DEF Caller
<1>3. caller' = [caller EXCEPT ![c] = r]
  BY DEF Set
<1> HIDE DEF r
<1>4. Mutex'
  BY <1>1, <1>2, <1>3, Moves
<1>5. caller'[c] = r /\ \A d \in Callers \ {c} : caller'[d] = caller[d]
  BY <1>3 DEF Mutex, Gates
<1>6. \A d \in Callers : Same(d)
  BY <1>2, <1>5 DEF Same
<1>7. /\ \A d \in Callers : caller'[d].observed \in {0, caller[d].observed}
      /\ \A d \in Callers : Begun(d)' => Begun(d) /\ caller'[d].observed = caller[d].observed
  BY <1>6 DEF Same, Begun
<1>8. TokensSound'
  BY <1>6, <1>7, QuietStep
<1> QED BY <1>4, <1>8

(* The refreshed token cannot be published.                                *)
LEMMA PublishFailsStep == ASSUME IInv, NEW c \in Callers, PublishFails(c) PROVE IInv'
<1> USE DEF records, history
<1>1. Retrying(c)
  BY DEF PublishFails, At, Retrying
<1>2. PICK l \in {"idle", "report"} : Unlock(c,
        [Idle EXCEPT !.at = l, !.observed = caller[c].observed])
  BY DEF PublishFails
<1>3. /\ UNCHANGED gates /\ UNCHANGED <<account, failed_attempts, consumed>>
      /\ spent' = spent \ {Failure(c)}
      /\ lost' = lost \union {caller[c].observed}
  BY DEF PublishFails
<1> DEFINE r == [Idle EXCEPT !.at = l, !.observed = caller[c].observed]
<1>4. r \in Caller /\ r.at = l /\ r.observed = caller[c].observed /\ r.gate = 0
  BY LeftBehind DEF IInv
<1>5. Unlock(c, r)
  BY <1>2
<1> HIDE DEF r
<1> QED BY <1>1, <1>3, <1>4, <1>5, LostStep

(* The request behind a caller is dropped, wherever the caller is.         *)
LEMMA CancelStep == ASSUME IInv, NEW c \in Callers, Cancel(c) PROVE IInv'
<1>1. CASE At(c, "waiting")
  <2>1. /\ LeaveQueue(c) /\ Set(c, Idle)
        /\ UNCHANGED <<account, gates, holder, records, tries, history>>
    BY <1>1 DEF Cancel, At
  <2> QED BY <1>1, <2>1, QuietCallerStep
<1>2. CASE At(c, "exchange")
  <2>1. /\ Unlock(c, Idle) /\ UNCHANGED gates /\ UNCHANGED <<account, failed_attempts>>
        /\ spent' = spent \ {Failure(c)}
        /\ \/ consumed' = consumed /\ lost' = lost
           \/ /\ consumed' = consumed \union {caller[c].observed}
              /\ lost' = lost \union {caller[c].observed}
    BY <1>2 DEF Cancel, At, records
  <2>2. Retrying(c) /\ ~At(c, "publishing")
    BY <1>2 DEF Retrying, At
  <2> QED BY <2>1, <2>2, IdleIsCaller, LostStep
<1>3. CASE At(c, "publishing")
  <2>1. /\ Set(c, [caller[c] EXCEPT !.gone = TRUE])
        /\ UNCHANGED <<account, mutexes, records, tries, history>>
    BY <1>3 DEF Cancel, At
  <2> QED BY <1>3, <2>1, GoneStep
<1> QED BY <1>1, <1>2, <1>3 DEF Cancel

(* Every step preserves the invariant.                                     *)
LEMMA NextIInv == IInv /\ [Next]_vars => IInv'
<1> SUFFICES ASSUME IInv, [Next]_vars PROVE IInv'
  OBVIOUS
<1>1. CASE Expire \/ Reauthorize \/ DeleteAccount
  BY <1>1, AccountStep
<1>2. CASE ScanDueAccounts \/ \E c \in Callers : SendAttempt(c)
  BY <1>2, BeginStep
<1>3. CASE RetainActiveRefreshState
  BY <1>3, RetainStep
<1>4. ASSUME NEW c \in Callers, Act(c) PROVE IInv'
  <2>1. CASE \/ TryLock(c) \/ ObserveFailures(c) \/ Enqueue(c) \/ ReportFailure(c)
             \/ GiveUp(c) \/ MissingRefreshToken(c)
    BY <2>1, QuietCallerStep
  <2>2. CASE ExchangeSucceeds(c) \/ ExchangeRejected(c)
               \/ \E taken \in BOOLEAN : ExchangeFails(c, taken)
    BY <2>2, ExchangeStep
  <2> QED BY <1>4, <2>1, <2>2, GateStep, SendStep, FailStep, PublishStep, PublishFailsStep,
             RecordSuccessStep DEF Act
<1>5. ASSUME NEW c \in Callers, Cancel(c) PROVE IInv'
  BY <1>5, CancelStep
<1>6. CASE UNCHANGED vars
  <2>1. UNCHANGED <<account, mutexes, failed_attempts, caller, consumed, lost, spent>>
    BY <1>6 DEF vars, records, history
  <2>2. Mutex'
    BY <2>1 DEF IInv, mutexes, Mutex, Gates, OneGate, HoldersHold, QueuesWait
  <2>3. TokensSound'
    BY <2>1, QuietStep DEF IInv, Same, Begun
  <2> QED BY <2>2, <2>3 DEF IInv
<1> QED BY <1>1, <1>2, <1>3, <1>4, <1>5, <1>6 DEF Next

(* However callers, the scanning worker, cancellations, failures, deletions *)
(* and reauthorizations interleave, a refresh token the provider has taken *)
(* is sent again only when its answer was lost (refresh_account's check    *)
(* under the gate): for any number of callers.                             *)
THEOREM RefreshTokensAreUsedOnce == Spec => []TokensAreUsedOnce
<1>1. IInv => TokensAreUsedOnce
  BY DEF IInv, TokensSound
<1> QED BY InitIInv, NextIInv, <1>1, PTL DEF Spec

(* Of those who waited for a failed refresh one tries again                *)
(* (waiter_may_retry): a failure that has let one through lets no other    *)
(* through until it is lost or the count is cleared.                       *)
THEOREM FailuresDoNotFanOut == Spec => [][OneRetryPerFailure]_vars
<1>1. ASSUME IInv, [Next]_vars, NEW c \in Callers, SendRefreshToken(c)
      PROVE Failure(c) \notin spent
  <2> SUFFICES ASSUME Failure(c) \in spent PROVE FALSE
    OBVIOUS
  <2> DEFINE v == caller[c].observed
  <2>1. caller[c].at = "check" /\ caller[c].at \in Holding /\ Begun(c)
    BY <1>1 DEF SendRefreshToken, At, Holding, Begun
  <2>2. token_version = v /\ (caller[c].waited = None \/ AttemptsOf(v) = caller[c].waited + 1)
    BY <1>1 DEF SendRefreshToken, MayExchange, WaiterMayRetry
  <2>3. v # 0 /\ v \in Nat
    BY <1>1, <2>1 DEF IInv, TokensSound, ObservedKnown, Mutex, Gates, Caller
  <2>4. <<v, caller[c].waited>> \in spent
    BY DEF Failure
  <2>5. /\ <<v, caller[c].waited>> \in Nat \X Nat
        /\ \/ v < token_version
           \/ AttemptsOf(v) > caller[c].waited + 1
           \/ \E d \in Callers : Retrying(d)
    BY <1>1, <2>2, <2>3, <2>4 DEF IInv, TokensSound, SpentIsSpent
  <2>6. caller[c].waited \in Nat
    BY <2>5
  <2>7. ASSUME NEW d \in Callers, Retrying(d) PROVE FALSE
    <3>1. caller[d].at \in Holding /\ caller[d].at # "check"
      BY <2>7 DEF Retrying, Holding
    <3>2. IInv
      BY <1>1
    <3> QED BY <3>1, <3>2, <2>1, OneHolder DEF IInv
  <2>8. caller[c].waited # None
    BY <2>6, CallersAssumption
  <2> QED BY <2>2, <2>3, <2>5, <2>6, <2>7, <2>8
<1>2. IInv /\ [Next]_vars => OneRetryPerFailure
  BY <1>1 DEF OneRetryPerFailure
<1> QED BY InitIInv, NextIInv, <1>2, PTL DEF Spec

-----------------------------------------------------------------------------
(* The scan.                                                               *)

(* The worker that refreshes tokens before they expire.                    *)
ScanTypes ==
  /\ revision \in Nat /\ scan_seen \in Nat /\ started_at \in Nat /\ published \in Nat
  /\ scan_seen <= revision /\ started_at <= revision /\ published <= revision
  /\ external \subseteq Nat /\ \A r \in external : r <= revision

(* While it scans, only its own revisions lie between the snapshot it      *)
(* scans and the last it published; while it sleeps, between the snapshot  *)
(* and the revision it has seen.                                           *)
OwnBetween(latest) == \A r \in external : r > started_at => r > latest
ScanInv ==
  /\ ScanTypes
  /\ scan_worker = "scanning" /\ ~interleaved => OwnBetween(published)
  /\ scan_worker = "asleep" => OwnBetween(scan_seen)

LEMMA ScanStep == ScanInv /\ [Scan!Next]_(Scan!vars) => ScanInv'
<1> SUFFICES ASSUME ScanInv, [Scan!Next]_(Scan!vars) PROVE ScanInv'
  OBVIOUS
<1> USE DEF ScanInv, ScanTypes, OwnBetween
<1>1. CASE Scan!PublishElsewhere
  BY <1>1 DEF Scan!PublishElsewhere, Scan!scan
<1>2. CASE Scan!StartScan
  BY <1>2 DEF Scan!StartScan
<1>3. CASE Scan!PublishPreparedRefreshes
  <2>1. CASE revision' = revision + 1 /\ Scan!RecordPublication(revision + 1)
    <3>1. /\ revision' = revision + 1 /\ published' = revision + 1
          /\ scan_worker = "scanning"
          /\ UNCHANGED <<external, scan_worker, started_at, scan_seen>>
      BY <1>3, <2>1 DEF Scan!PublishPreparedRefreshes, Scan!RecordPublication
    <3>2. ~interleaved' => ~interleaved /\ published' = published + 1
      BY <3>1, <2>1 DEF Scan!RecordPublication
    <3>3. ~interleaved' => published = revision /\ OwnBetween(published)
      BY <3>1, <3>2
    <3>4. ~interleaved' => \A r \in external : ~(r > started_at)
      BY <3>3
    <3> QED BY <3>1, <3>4
  <2>2. CASE UNCHANGED <<revision, due_accounts, published, interleaved>>
    BY <1>3, <2>2 DEF Scan!PublishPreparedRefreshes
  <2> QED BY <1>3, <2>1, <2>2 DEF Scan!PublishPreparedRefreshes
<1>4. CASE Scan!EndScan
  <2>1. /\ scan_seen' = revision /\ scan_worker = "scanning"
        /\ UNCHANGED <<revision, external, started_at, published, interleaved>>
    BY <1>4 DEF Scan!EndScan, Scan!scan
  <2>2. scan_worker' # "scanning"
    BY <1>4 DEF Scan!EndScan
  <2>3. scan_worker' = "asleep" => ~interleaved /\ ~(revision > published)
    BY <1>4 DEF Scan!EndScan, Scan!RequiresImmediateRescan
  <2>4. scan_worker' = "asleep" => published = revision /\ OwnBetween(published)
    BY <2>1, <2>3
  <2> QED BY <2>1, <2>2, <2>4
<1>5. CASE Scan!WakeByTimer \/ Scan!WakeByRevision
  <2>1. scan_worker' = "start" /\ scan_seen' \in {scan_seen, revision}
    BY <1>5 DEF Scan!WakeByTimer, Scan!WakeByRevision
  <2>2. UNCHANGED <<revision, external, started_at, published>>
    BY <1>5 DEF Scan!WakeByTimer, Scan!WakeByRevision, Scan!scan
  <2> QED BY <2>1, <2>2
<1>6. CASE Scan!Expire \/ (\E a \in Accounts : Scan!PrepareRefresh(a) \/ Scan!Prepared(a))
             \/ UNCHANGED Scan!vars
  BY <1>6 DEF Scan!Expire, Scan!PrepareRefresh, Scan!Prepared, Scan!vars, Scan!scan
<1> QED BY <1>1, <1>2, <1>3, <1>4, <1>5, <1>6 DEF Scan!Next, Scan!Work

(* The worker never sleeps on a revision that somebody else published      *)
(* since the snapshot it scanned, for any number of accounts and           *)
(* revisions (ScanPublications::record and requires_immediate_rescan).     *)
THEOREM ScansAreComplete == Scan!Spec => []Scan!SleepsInformed
<1>1. Scan!Init => ScanInv
  BY DEF Scan!Init, ScanInv, ScanTypes, OwnBetween
<1>2. ScanInv => Scan!SleepsInformed
  BY DEF ScanInv, ScanTypes, OwnBetween, Scan!SleepsInformed
<1> QED BY <1>1, <1>2, ScanStep, PTL DEF Scan!Spec

-----------------------------------------------------------------------------
(* Logins.  A session is in the store, lent to one caller, or gone; what   *)
(* may be polled waits for its interval, in the store and in the hands of  *)
(* its caller.                                                             *)

(* What the store and the callers hold.                                    *)
Session == [kind : {"absent", "code", "ready", "polling"}, expires : Int, generation : Int,
            next : Int, interval : Int]
LoginCaller == [pc : {"idle", "pacing", "gated", "sent", "clocked", "deferring"},
  id : LoginSessions \cup {None},
           at : Int, generation : Int, session : Session, flow : {"code", "start", "device"}]
LoginTypes ==
  /\ login_now \in Nat /\ generation \in Int /\ issued \subseteq LoginSessions
  /\ sessions \in [LoginSessions -> Session] /\ client \in [LoginClients -> LoginCaller]
  /\ last_start \in Int /\ next_start = last_start + Spacing
  /\ ended \in [LoginSessions -> Int]

(* A session that may be polled waits its interval after the last poll, or *)
(* for the last second of its life.                                        *)
Paceable(x) == x.interval >= Login!Minimum(PollInterval, Ttl) /\ x.expires <= login_now + Ttl
Timely(x, end) == Paceable(x) /\ x.next >= Login!EarliestPoll(end, x.expires)
SessionOK(s) ==
  /\ s \notin issued => sessions[s] = Login!Absent /\ ended[s] = -PollInterval
  /\ sessions[s].kind = "ready" => Timely(sessions[s], ended[s])

(* A loan: its session is marked as lent, or gone for good.                *)
Loan(c) == client[c].flow = "device" /\ client[c].pc \in {"pacing", "gated", "sent", "deferring"}
CallerOK(c) ==
  /\ client[c].pc = "clocked" => client[c].id \in issued /\ client[c].at <= login_now
  /\ client[c].pc = "deferring" => Loan(c)
  /\ Loan(c) =>
       /\ client[c].id \in issued
       /\ Login!Lent(client[c].id, client[c].generation) \/ sessions[client[c].id] = Login!Absent
       /\ client[c].session.kind = "ready" /\ Paceable(client[c].session)
       /\ client[c].pc = "deferring" => Timely(client[c].session, ended[client[c].id])
LoginInv ==
  /\ LoginTypes
  /\ \A s \in LoginSessions : SessionOK(s)
  /\ \A c \in LoginClients : CallerOK(c)
  /\ \A c, d \in LoginClients : c # d /\ Loan(c) /\ Loan(d) => client[c].id # client[d].id

Frame(c) == client' \in [LoginClients -> LoginCaller] /\ \A d \in LoginClients : d # c =>
  client'[d] = client[d]

LEMMA Records == Login!Absent \in Session /\ Login!Absent.kind = "absent"
  /\ Login!Idle \in LoginCaller
                 /\ Login!Idle.pc = "idle" /\ Login!Idle.flow = "code"
<1>1. Login!Absent \in Session /\ Login!Absent.kind = "absent"
  BY DEF Login!Absent, Session
<1> HIDE DEF Login!Absent
<1>2. Login!Idle \in LoginCaller /\ Login!Idle.pc = "idle" /\ Login!Idle.flow = "code"
  BY <1>1 DEF Login!Idle, LoginCaller
<1> QED BY <1>1, <1>2

(* Dropping the part of a second loses less than a second.                 *)
LEMMA Truncation ==
  ASSUME Login!LoginAssumption, NEW n \in Int
  PROVE  /\ Login!WholeSeconds(n) \in Int
         /\ n - PerSecond + 1 <= Login!WholeSeconds(n) /\ Login!WholeSeconds(n) <= n
<1>1. n % PerSecond \in 0 .. PerSecond - 1
  BY DEF Login!LoginAssumption
<1> QED BY <1>1 DEF Login!WholeSeconds, Login!LoginAssumption

LEMMA Deferred ==
  ASSUME Login!LoginAssumption, login_now \in Int, NEW x \in Session, Paceable(x),
         NEW slow \in BOOLEAN
  PROVE  LET y == Login!Defer(x, login_now, slow)
         IN  y \in Session /\ y.kind = x.kind /\ y.expires = x.expires /\ Timely(y, login_now)
<1> DEFINE extra    == IF slow THEN SlowDown ELSE 0
           interval == Login!Minimum(x.interval + extra, Ttl)
           whole    == Login!WholeSeconds(x.expires - login_now)
           next     == login_now + Login!Minimum(interval, Login!Maximum(whole, PerSecond))
           y        == [x EXCEPT !.interval = interval, !.next = next]
<1>1. Login!Defer(x, login_now, slow) = y
  BY DEF Login!Defer
<1>2. x.interval \in Int /\ x.expires \in Int
  BY DEF Session
<1>3. extra \in Nat
  BY DEF Login!LoginAssumption
<1> HIDE DEF extra
<1>4. interval \in Int /\ interval >= Login!Minimum(PollInterval, Ttl)
  BY <1>2, <1>3 DEF Paceable, Login!Minimum, Login!LoginAssumption
<1> HIDE DEF interval
<1>5. next \in Int /\ next >= Login!EarliestPoll(login_now, x.expires)
  <2>1. x.expires - login_now \in Int /\ x.expires - login_now <= Ttl
    BY <1>2 DEF Paceable, Login!LoginAssumption
  <2>2. /\ whole \in Int /\ whole <= Ttl
        /\ x.expires - login_now - PerSecond + 1 <= whole
    BY <2>1, Truncation DEF Login!LoginAssumption
  <2> HIDE DEF whole
  <2> QED BY <1>2, <1>4, <2>2 DEF Login!EarliestPoll, Login!Minimum, Login!Maximum,
             Login!LoginAssumption
<1> HIDE DEF next
<1>6. /\ y \in Session /\ y.kind = x.kind /\ y.expires = x.expires /\ y.interval = interval
      /\ y.next = next
  BY <1>4, <1>5 DEF Session
<1> HIDE DEF y
<1> QED BY <1>1, <1>4, <1>5, <1>6 DEF Timely, Paceable

(* A step that gives no loan and, except for new sessions, adds nothing to *)
(* the store.                                                              *)
LEMMA NothingLent ==
  ASSUME LoginInv, NEW c \in LoginClients, Frame(c),
         client'[c].pc # "deferring",
         client'[c].pc = "clocked" => client'[c].id \in issued /\ client'[c].at <= login_now,
         Loan(c)' =>
           /\ Loan(c) /\ client'[c].id = client[c].id /\ client'[c].session = client[c].session
           /\ client'[c].generation = client[c].generation,
         sessions' \in [LoginSessions -> Session], issued \subseteq issued',
           issued' \subseteq LoginSessions,
         \A s \in LoginSessions :
           \/ sessions'[s] \in {sessions[s], Login!Absent} /\ (s \in issued \/ s \notin issued')
           \/ s \in issued' \ issued
                /\ (sessions'[s].kind = "ready" => Timely(sessions'[s], ended[s])),
         UNCHANGED <<login_now, generation, ended>>, last_start' \in Int,
           next_start' = last_start' + Spacing
  PROVE  LoginInv' /\ Login!SessionsStayGone
<1>1. LoginTypes'
  BY DEF LoginInv, LoginTypes, Frame
<1>2. ASSUME NEW s \in LoginSessions
      PROVE SessionOK(s)' /\ (Login!Live(s)' /\ s \in issued => Login!Live(s))
  <2>1. CASE sessions'[s] \in {sessions[s], Login!Absent} /\ (s \in issued \/ s \notin issued')
    BY <2>1, Records DEF SessionOK, Timely, Paceable, Login!Live, LoginInv
  <2>2. CASE /\ s \in issued' \ issued
             /\ (sessions'[s].kind = "ready" => Timely(sessions'[s], ended[s]))
    BY <2>2 DEF SessionOK, Timely, Paceable, Login!Live, LoginInv
  <2> QED BY <2>1, <2>2
<1>3. ASSUME NEW d \in LoginClients, Loan(d)'
      PROVE  /\ Loan(d) /\ client'[d].id = client[d].id /\ client'[d].session = client[d].session
             /\ client'[d].generation = client[d].generation
             /\ client'[d].pc = "deferring" => client[d].pc = "deferring"
  <2>1. CASE d = c
    BY <1>3, <2>1
  <2>2. CASE d # c
    BY <1>3, <2>2 DEF Frame, Loan
  <2> QED BY <2>1, <2>2
<1>4. ASSUME NEW d \in LoginClients PROVE CallerOK(d)'
  <2>1. client'[d].pc = "clocked" => client'[d].id \in issued' /\ client'[d].at <= login_now'
    BY DEF Frame, LoginInv, CallerOK
  <2>2. client'[d].pc = "deferring" => Loan(d)'
    BY DEF Frame, LoginInv, CallerOK, Loan
  <2>3. ASSUME Loan(d)'
        PROVE  /\ client'[d].id \in issued'
               /\ Login!Lent(client[d].id, client[d].generation)'
                    \/ sessions'[client'[d].id] = Login!Absent
               /\ client'[d].session.kind = "ready" /\ Paceable(client[d].session)'
               /\ client'[d].pc = "deferring" => Timely(client[d].session, ended[client[d].id])'
    <3>1. CallerOK(d) /\ Loan(d)
      BY <1>3, <2>3 DEF LoginInv
    <3>2. client[d].id \in issued /\ client[d].id \in LoginSessions
      BY <3>1 DEF CallerOK, LoginInv, LoginTypes
    <3>3. sessions'[client[d].id] \in {sessions[client[d].id], Login!Absent}
      BY <3>2
    <3>4. Login!Lent(client[d].id, client[d].generation)'
            \/ sessions'[client'[d].id] = Login!Absent
      BY <1>3, <2>3, <3>1, <3>3 DEF CallerOK, Login!Lent
    <3> QED BY <1>3, <2>3, <3>1, <3>2, <3>4 DEF CallerOK, Paceable, Timely
  <2> QED BY <2>1, <2>2, <2>3 DEF CallerOK
<1>5. \A d, e \in LoginClients : d # e /\ Loan(d)' /\ Loan(e)' => client'[d].id # client'[e].id
  BY <1>3 DEF LoginInv
<1> QED BY <1>1, <1>2, <1>4, <1>5 DEF LoginInv, Login!SessionsStayGone

(* The end of a loan, and a poll that goes on: no other caller and no      *)
(* other session is touched.                                               *)
LEMMA LoanMoves ==
  ASSUME LoginInv, NEW c \in LoginClients, Loan(c), Frame(c), NEW id, id = client[c].id,
         sessions' \in [LoginSessions -> Session], ended' \in [LoginSessions -> Int],
         \A s \in LoginSessions : s # id => sessions'[s] = sessions[s] /\ ended'[s] = ended[s],
         \/ sessions'[id] \in {sessions[id], Login!Absent}
         \/ Login!Live(id) /\ sessions'[id].kind = "ready" /\ Timely(sessions'[id], ended'[id])
              /\ ~Loan(c)',
         client'[c].pc # "clocked",
         client'[c].pc = "deferring" => Loan(c)',
         Loan(c)' =>
           /\ client'[c].id = id /\ client'[c].generation = client[c].generation
           /\ client'[c].session.kind = "ready" /\ Timely(client'[c].session, ended'[id]),
         UNCHANGED <<login_now, generation, issued, last_start, next_start>>
  PROVE  LoginInv' /\ Login!SessionsStayGone
<1>1. LoginTypes'
  BY DEF LoginInv, LoginTypes, Frame
<1>2. id \in issued /\ id \in LoginSessions /\ sessions[id].kind # "ready" /\ CallerOK(c)
  <2>1. CallerOK(c)
    BY DEF LoginInv
  <2>2. Login!Lent(id, client[c].generation) \/ sessions[id] = Login!Absent
    BY <2>1 DEF CallerOK
  <2> QED BY <2>1, <2>2, Records DEF CallerOK, LoginInv, LoginTypes, Login!Lent
<1>3. ASSUME NEW s \in LoginSessions
      PROVE SessionOK(s)' /\ (Login!Live(s)' /\ s \in issued => Login!Live(s))
  <2>1. CASE s # id
    BY <2>1 DEF SessionOK, Timely, Paceable, Login!Live, LoginInv
  <2>2. CASE s = id
    BY <1>2, <2>2, Records DEF SessionOK, Timely, Paceable, Login!Live
  <2> QED BY <2>1, <2>2
<1>4. ASSUME NEW d \in LoginClients, d # c
      PROVE CallerOK(d)' /\ (Loan(d)' => Loan(d) /\ client'[d].id # id)
  <2>1. client'[d] = client[d] /\ CallerOK(d) /\ (Loan(d)' => Loan(d))
    BY <1>4 DEF Frame, LoginInv, Loan
  <2>2. Loan(d) => client[d].id # id /\ client[d].id \in LoginSessions
    BY <1>4, <2>1 DEF LoginInv, LoginTypes, CallerOK
  <2> QED BY <2>1, <2>2 DEF CallerOK, Loan, Login!Lent, Timely, Paceable
<1>5. CallerOK(c)'
  <2>1. ASSUME Loan(c)'
        PROVE Login!Lent(id, client[c].generation)' \/ sessions'[id] = Login!Absent
    BY <1>2, <2>1 DEF CallerOK, Login!Lent
  <2> QED BY <1>2, <2>1 DEF CallerOK, Timely, Paceable
<1>6. \A d \in LoginClients : CallerOK(d)'
  BY <1>4, <1>5
<1>7. \A d, e \in LoginClients : d # e /\ Loan(d)' /\ Loan(e)' => client'[d].id # client'[e].id
  <2> SUFFICES ASSUME NEW d \in LoginClients, NEW e \in LoginClients, d # e, Loan(d)', Loan(e)'
               PROVE  client'[d].id # client'[e].id
    OBVIOUS
  <2>1. CASE d = c
    BY <1>4, <2>1
  <2>2. CASE e = c
    BY <1>4, <2>2
  <2>3. CASE d # c /\ e # c
    <3>1. client'[d] = client[d] /\ client'[e] = client[e] /\ Loan(d) /\ Loan(e)
      BY <1>4, <2>3 DEF Frame
    <3> QED BY <3>1 DEF LoginInv
  <2> QED BY <2>1, <2>2, <2>3
<1> QED BY <1>1, <1>3, <1>6, <1>7 DEF LoginInv, Login!SessionsStayGone

(* A step in which nobody takes a loan and nobody sends.                   *)
LEMMA NobodyPolls ==
  ASSUME NEW c \in LoginClients, Frame(c),
         client[c].pc = "clocked" => ~Login!HoldsLease(c)',
         client'[c].pc = "sent" => client[c].pc = "sent"
  PROVE  Login!PollsPaced
<1>1. ASSUME NEW d \in LoginClients, Login!At(d, "clocked"), Login!HoldsLease(d)' PROVE FALSE
  BY <1>1 DEF Frame, Login!At, Login!HoldsLease
<1>2. ASSUME NEW d \in LoginClients, Login!At(d, "sent")', ~Login!At(d, "sent") PROVE FALSE
  BY <1>2 DEF Frame, Login!At
<1> QED BY <1>1, <1>2 DEF Login!PollsPaced

LEMMA InsertAdds ==
  ASSUME Login!LoginAssumption, LoginInv, NEW id \in LoginSessions, Login!Unused(id),
         NEW x \in Session, Login!Insert(id, x),
         x.kind = "ready" => Timely(x, ended[id])
  PROVE  /\ sessions' \in [LoginSessions -> Session]
         /\ \A s \in LoginSessions :
              \/ sessions'[s] \in {sessions[s], Login!Absent} /\ s # id
              \/ s = id /\ (sessions'[s].kind = "ready" => Timely(sessions'[s], ended[s]))
<1> DEFINE kept == Login!Unexpired(login_now)
<1>1. /\ kept \in [LoginSessions -> Session]
      /\ \A s \in LoginSessions : kept[s] \in {sessions[s], Login!Absent}
  BY Records DEF Login!Unexpired, LoginInv, LoginTypes
<1>2. sessions[id] = Login!Absent
  BY DEF Login!Unused, LoginInv, SessionOK
<1>3. sessions' = kept \/ sessions' = [kept EXCEPT ![id] = x]
  BY DEF Login!Insert
<1> HIDE DEF kept
<1>4. kept[id] = Login!Absent /\ Login!Absent.kind # "ready"
  BY <1>1, <1>2, Records
<1> QED BY <1>1, <1>3, <1>4

LEMMA LoginsStart ==
  ASSUME Login!LoginAssumption, LoginInv, NEW c \in LoginClients, NEW id \in LoginSessions,
         Login!StartCode(c, id) \/ Login!DeviceStarted(c, id)
  PROVE  LoginInv' /\ Login!SessionsStayGone /\ Login!PollsPaced
<1>1. /\ login_now \in Int /\ Ttl \in Int /\ PollInterval \in Int /\ Login!Unused(id)
      /\ ended[id] = -PollInterval
  BY DEF LoginInv, LoginTypes, Login!LoginAssumption, Login!StartCode, Login!DeviceStarted,
     SessionOK, Login!Unused
<1>2. PICK x \in Session : Login!Insert(id, x) /\ (x.kind = "ready" => Timely(x, ended[id]))
  <2>1. Login!PrepareCode \in Session /\ Login!PrepareCode.kind = "code"
    BY <1>1 DEF Login!PrepareCode, Session
  <2>2. CASE Login!StartCode(c, id)
    BY <2>1, <2>2 DEF Login!StartCode
  <2>3. CASE Login!DeviceStarted(c, id)
    <3> DEFINE x == Login!PrepareDevice(PollInterval)
    <3>1. Login!Minimum(PollInterval, Ttl) \in Int
      BY <1>1 DEF Login!Minimum
    <3>2. /\ x \in Session /\ x.expires = login_now + Ttl /\ x.next = login_now
          /\ x.interval = Login!Minimum(PollInterval, Ttl)
      BY <1>1, <3>1 DEF Login!PrepareDevice, Session
    <3> HIDE DEF x
    <3>3. ended[id] + PollInterval = 0
      BY <1>1
    <3>4. login_now >= Login!EarliestPoll(ended[id], login_now + Ttl)
      <4>1. login_now >= 0 /\ PerSecond \in Int /\ PollInterval >= PerSecond
        BY DEF LoginInv, LoginTypes, Login!LoginAssumption
      <4> QED BY <1>1, <3>3, <4>1 DEF Login!EarliestPoll, Login!Minimum, Login!Maximum
    <3>5. Timely(x, ended[id])
      BY <1>1, <3>1, <3>2, <3>4 DEF Timely, Paceable
    <3>6. Login!Insert(id, x)
      BY <2>3 DEF Login!DeviceStarted, x
    <3> QED BY <3>2, <3>5, <3>6
  <2> QED BY <2>2, <2>3
<1>3. /\ sessions' \in [LoginSessions -> Session]
      /\ \A s \in LoginSessions :
           \/ sessions'[s] \in {sessions[s], Login!Absent} /\ s # id
           \/ s = id /\ (sessions'[s].kind = "ready" => Timely(sessions'[s], ended[s]))
  BY <1>1, <1>2, InsertAdds
<1>4. /\ issued' = issued \cup {id} /\ id \notin issued
      /\ UNCHANGED <<login_now, generation, ended, last_start, next_start>>
  BY DEF Login!StartCode, Login!DeviceStarted, Login!Unused
<1>5. Frame(c) /\ client'[c] \in {client[c], Login!Idle} /\ client[c].pc \in {"idle", "sent"}
      /\ (client'[c] = client[c] => client[c].pc = "idle")
  <2>1. CASE Login!StartCode(c, id)
    BY <2>1 DEF Login!StartCode, Frame, LoginInv, LoginTypes, Login!At
  <2>2. CASE Login!DeviceStarted(c, id)
    <3>1. client' = [client EXCEPT ![c] = Login!Idle] /\ client[c].pc = "sent"
      BY <2>2 DEF Login!DeviceStarted, Login!Return, Login!At
    <3>2. client'[c] = Login!Idle /\ Frame(c)
      BY <3>1, Records DEF Frame, LoginInv, LoginTypes
    <3>3. Login!Idle.pc # client[c].pc
      BY <3>1, Records
    <3> QED BY <3>1, <3>2, <3>3
  <2> QED BY <2>1, <2>2
<1>6. client'[c].pc = "idle"
  BY <1>5, Records
<1>7. \A s \in LoginSessions :
        \/ sessions'[s] \in {sessions[s], Login!Absent} /\ (s \in issued \/ s \notin issued')
        \/ s \in issued' \ issued
             /\ (sessions'[s].kind = "ready" => Timely(sessions'[s], ended[s]))
  BY <1>3, <1>4
<1>8. LoginInv' /\ Login!SessionsStayGone
  <2>1. issued \subseteq issued' /\ issued' \subseteq LoginSessions
    BY <1>4 DEF LoginInv, LoginTypes
  <2>2. last_start' \in Int /\ next_start' = last_start' + Spacing
    BY <1>4 DEF LoginInv, LoginTypes
  <2>3. ~Loan(c)'
    BY <1>6 DEF Loan
  <2> QED BY <1>3, <1>4, <1>5, <1>6, <1>7, <2>1, <2>2, <2>3, NothingLent
<1>9. Login!PollsPaced
  BY <1>5, <1>6, NobodyPolls DEF Login!HoldsLease
<1> QED BY <1>8, <1>9

LEMMA ClientMoves ==
  ASSUME LoginInv, NEW c \in LoginClients,
         \/ Login!StartDevice(c) \/ Login!TakeGate(c) \/ Login!Send(c)
              \/ Login!ExchangeAnswered(c)
         \/ \E id \in LoginSessions : Login!ReadClock(c, id)
              \/ \E valid \in BOOLEAN : Login!Exchange(c, id, valid)
  PROVE  /\ Frame(c)
         /\ client'[c].pc # "deferring"
         /\ client'[c].pc = "clocked" => client'[c].id \in issued /\ client'[c].at <= login_now
         /\ Loan(c)' =>
              /\ Loan(c) /\ client'[c].id = client[c].id /\ client'[c].session = client[c].session
              /\ client'[c].generation = client[c].generation
         /\ client[c].pc # "clocked"
         /\ client'[c].pc = "sent" => Login!Send(c)
<1>0. client \in [LoginClients -> LoginCaller] /\ client[c] \in LoginCaller /\ login_now \in Nat
        /\ issued \subseteq LoginSessions
  BY DEF LoginInv, LoginTypes
<1>1. CASE Login!StartDevice(c)
  <2>1. client' = [client EXCEPT ![c].pc = "pacing", ![c].flow = "start"] /\ client[c].pc = "idle"
    BY <1>1 DEF Login!StartDevice, Login!At
  <2>2. Frame(c) /\ client'[c].pc = "pacing" /\ client'[c].flow = "start"
    BY <1>0, <2>1 DEF Frame, LoginCaller
  <2> QED BY <2>1, <2>2 DEF Loan
<1>2. CASE Login!TakeGate(c) \/ Login!Send(c)
  <2>1. PICK p \in {"gated", "sent"} : client' = [client EXCEPT ![c].pc = p]
          /\ (p = "sent" => Login!Send(c))
    BY <1>2 DEF Login!TakeGate, Login!Send, Login!Goto
  <2>2. client[c].pc \in {"pacing", "gated"}
    BY <1>2 DEF Login!TakeGate, Login!Send, Login!At
  <2>3. /\ Frame(c) /\ client'[c].pc = p /\ client'[c].flow = client[c].flow
        /\ client'[c].id = client[c].id
        /\ client'[c].session = client[c].session /\ client'[c].generation = client[c].generation
    BY <1>0, <2>1 DEF Frame, LoginCaller
  <2> QED BY <2>1, <2>2, <2>3 DEF Loan
<1>3. CASE Login!ExchangeAnswered(c)
  <2>1. client' = [client EXCEPT ![c] = Login!Idle] /\ client[c].pc = "sent"
    BY <1>3 DEF Login!ExchangeAnswered, Login!At, Login!Return
  <2>2. Frame(c) /\ client'[c] = Login!Idle
    BY <1>0, <2>1, Records DEF Frame
  <2> QED BY <2>1, <2>2, Records DEF Loan
<1>4. ASSUME NEW id \in LoginSessions, Login!ReadClock(c, id)
      PROVE /\ Frame(c) /\ client'[c].pc = "clocked"
             /\ client'[c].id \in issued /\ client'[c].at <= login_now /\ client[c].pc = "idle"
  <2>1. /\ client' = [client EXCEPT ![c].pc = "clocked", ![c].id = id, ![c].at = login_now]
        /\ client[c].pc = "idle"
        /\ id \in issued
    BY <1>4 DEF Login!ReadClock, Login!At
  <2> DEFINE r == [client[c] EXCEPT !.pc = "clocked", !.id = id, !.at = login_now]
  <2>2. client' = [client EXCEPT ![c] = r]
    BY <1>0, <2>1
  <2>3. login_now \in Int /\ id \in LoginSessions \cup {None}
    BY <1>0
  <2>4. r \in LoginCaller /\ r.pc = "clocked" /\ r.id = id /\ r.at = login_now
    BY <1>0, <2>3 DEF LoginCaller
  <2> HIDE DEF r
  <2>5. Frame(c) /\ client'[c] = r
    BY <1>0, <2>2, <2>4 DEF Frame
  <2> QED BY <1>0, <2>1, <2>4, <2>5
<1>5. ASSUME NEW id \in LoginSessions, NEW valid \in BOOLEAN, Login!Exchange(c, id, valid)
      PROVE  /\ Frame(c) /\ client[c].pc = "idle"
             /\ (client'[c].pc = "pacing" /\ client'[c].flow = "code") \/ client'[c] = client[c]
  <2>1. client[c].pc = "idle"
    BY <1>5 DEF Login!Exchange, Login!At
  <2>2. CASE client' = client
    BY <1>0, <2>1, <2>2 DEF Frame
  <2>3. CASE client' = [client EXCEPT ![c].pc = "pacing", ![c].flow = "code", ![c].id = id]
    BY <1>0, <2>1, <2>3 DEF Frame, LoginCaller
  <2> QED BY <1>5, <2>2, <2>3 DEF Login!Exchange
<1> QED BY <1>1, <1>2, <1>3, <1>4, <1>5 DEF Loan

LEMMA SessionsShrink ==
  ASSUME LoginInv, NEW c \in LoginClients,
         \/ Login!StartDevice(c) \/ Login!TakeGate(c) \/ Login!Send(c)
              \/ Login!ExchangeAnswered(c)
         \/ \E id \in LoginSessions : Login!ReadClock(c, id)
              \/ \E valid \in BOOLEAN : Login!Exchange(c, id, valid)
  PROVE  /\ sessions' \in [LoginSessions -> Session]
         /\ \A s \in LoginSessions : sessions'[s] \in {sessions[s], Login!Absent}
         /\ UNCHANGED <<login_now, generation, issued, ended>>
         /\ last_start' \in Int /\ next_start' = last_start' + Spacing
<1>0. /\ sessions \in [LoginSessions -> Session] /\ login_now \in Nat /\ last_start \in Int
      /\ next_start = last_start + Spacing
  BY DEF LoginInv, LoginTypes
<1>1. CASE Login!StartDevice(c) \/ Login!TakeGate(c) \/ Login!ExchangeAnswered(c)
             \/ \E id \in LoginSessions : Login!ReadClock(c, id)
  BY <1>0, <1>1 DEF Login!StartDevice, Login!TakeGate, Login!ExchangeAnswered, Login!ReadClock
<1>2. CASE Login!Send(c)
  BY <1>0, <1>2 DEF Login!Send
<1>3. ASSUME NEW id \in LoginSessions, NEW valid \in BOOLEAN, Login!Exchange(c, id, valid)
      PROVE  /\ sessions' \in [LoginSessions -> Session]
             /\ \A s \in LoginSessions : sessions'[s] \in {sessions[s], Login!Absent}
             /\ UNCHANGED <<login_now, generation, issued, ended, last_start, next_start>>
  <2>1. sessions' = sessions \/ sessions' = [sessions EXCEPT ![id] = Login!Absent]
    BY <1>3 DEF Login!Exchange, Login!TakeCode
  <2>2. UNCHANGED <<login_now, generation, issued, ended, last_start, next_start>>
    BY <1>3 DEF Login!Exchange
  <2> QED BY <1>0, <2>1, <2>2, Records
<1> QED BY <1>0, <1>1, <1>2, <1>3

LEMMA PlainSteps ==
  ASSUME LoginInv, NEW c \in LoginClients,
         \/ Login!StartDevice(c) \/ Login!TakeGate(c) \/ Login!Send(c)
              \/ Login!ExchangeAnswered(c)
         \/ \E id \in LoginSessions : Login!ReadClock(c, id)
              \/ \E valid \in BOOLEAN : Login!Exchange(c, id, valid)
  PROVE  LoginInv' /\ Login!SessionsStayGone /\ Login!PollsPaced
<1>1. /\ Frame(c)
      /\ client'[c].pc # "deferring"
      /\ client'[c].pc = "clocked" => client'[c].id \in issued /\ client'[c].at <= login_now
      /\ Loan(c)' =>
           /\ Loan(c) /\ client'[c].id = client[c].id /\ client'[c].session = client[c].session
           /\ client'[c].generation = client[c].generation
      /\ client[c].pc # "clocked"
      /\ client'[c].pc = "sent" => Login!Send(c)
  BY ClientMoves
<1>2. /\ sessions' \in [LoginSessions -> Session]
      /\ \A s \in LoginSessions : sessions'[s] \in {sessions[s], Login!Absent}
      /\ UNCHANGED <<login_now, generation, issued, ended>>
      /\ last_start' \in Int /\ next_start' = last_start' + Spacing
  BY SessionsShrink
<1>3. LoginInv' /\ Login!SessionsStayGone
  <2>1. /\ issued \subseteq issued' /\ issued' \subseteq LoginSessions
        /\ \A s \in LoginSessions :
             sessions'[s] \in {sessions[s], Login!Absent} /\ (s \in issued \/ s \notin issued')
    BY <1>2 DEF LoginInv, LoginTypes
  <2> QED BY <1>1, <1>2, <2>1, NothingLent
<1>4. Login!PollsPaced
  <2>1. CASE client'[c].pc # "sent"
    BY <1>1, <2>1, NobodyPolls
  <2>2. CASE client'[c].pc = "sent"
    <3>1. next_start <= login_now /\ next_start = last_start + Spacing
      BY <1>1, <2>2 DEF Login!Send, LoginInv, LoginTypes
    <3>2. ASSUME NEW d \in LoginClients, Login!At(d, "clocked"), Login!HoldsLease(d)' PROVE FALSE
      BY <1>1, <3>2 DEF Frame, Login!At, Login!HoldsLease
    <3>3. last_start + Spacing <= login_now
      BY <3>1
    <3>4. login_now >= last_start + Spacing
      BY <3>3
    <3> QED BY <3>2, <3>4 DEF Login!PollsPaced
  <2> QED BY <2>1, <2>2
<1> QED BY <1>3, <1>4

(* A poll that is refused, and one that takes the loan of its session.     *)
LEMMA PollsRefused ==
  ASSUME LoginInv, NEW c \in LoginClients, Login!AcquirePoll(c),
         ~Login!PollDue(client[c].id, client[c].at)
  PROVE  LoginInv' /\ Login!SessionsStayGone /\ Login!PollsPaced
<1> DEFINE id == client[c].id
<1>1. /\ client' = [client EXCEPT ![c] = Login!Idle] /\ client[c].pc = "clocked"
      /\ sessions' = sessions \/ sessions' = [sessions EXCEPT ![id] = Login!Absent]
      /\ UNCHANGED <<login_now, generation, issued, next_start, last_start, ended>>
  BY DEF Login!AcquirePoll, Login!At, Login!RefusePoll, Login!Return
<1>2. /\ client \in [LoginClients -> LoginCaller] /\ sessions \in [LoginSessions -> Session]
      /\ issued \subseteq LoginSessions /\ last_start \in Int /\ next_start = last_start + Spacing
  BY DEF LoginInv, LoginTypes
<1>3. Frame(c) /\ client'[c] = Login!Idle
  BY <1>1, <1>2, Records DEF Frame
<1>4. client'[c].pc = "idle" /\ ~Loan(c)' /\ ~Login!HoldsLease(c)'
  BY <1>3, Records DEF Loan, Login!HoldsLease
<1>5. /\ sessions' \in [LoginSessions -> Session]
      /\ \A s \in LoginSessions : sessions'[s] \in {sessions[s], Login!Absent}
  BY <1>1, <1>2, Records
<1>6. LoginInv' /\ Login!SessionsStayGone
  <2>1. /\ issued \subseteq issued' /\ issued' \subseteq LoginSessions
        /\ \A s \in LoginSessions :
             sessions'[s] \in {sessions[s], Login!Absent} /\ (s \in issued \/ s \notin issued')
    BY <1>1, <1>2, <1>5
  <2>2. last_start' \in Int /\ next_start' = last_start' + Spacing
    BY <1>1, <1>2
  <2> QED BY <1>1, <1>3, <1>4, <1>5, <2>1, <2>2, NothingLent
<1>7. Login!PollsPaced
  BY <1>3, <1>4, NobodyPolls
<1> QED BY <1>6, <1>7

LEMMA PollsLent ==
  ASSUME Login!LoginAssumption, LoginInv, NEW c \in LoginClients, Login!AcquirePoll(c),
         Login!PollDue(client[c].id, client[c].at)
  PROVE  LoginInv' /\ Login!SessionsStayGone /\ Login!PollsPaced
<1> DEFINE id == client[c].id
           r  == [client[c] EXCEPT !.pc = "pacing", !.flow = "device",
                                   !.generation = generation + 1, !.session = sessions[id]]
           y  == [sessions[id] EXCEPT !.kind = "polling", !.generation = generation + 1]
<1>1. /\ client \in [LoginClients -> LoginCaller] /\ sessions \in [LoginSessions -> Session]
      /\ login_now \in Nat
      /\ generation \in Int /\ issued \subseteq LoginSessions /\ ended \in [LoginSessions -> Int]
      /\ \A s \in LoginSessions : SessionOK(s)
      /\ CallerOK(c)
  BY DEF LoginInv, LoginTypes
<1>2. /\ id \in issued /\ id \in LoginSessions /\ client[c].at <= login_now
      /\ client[c].pc = "clocked"
  BY <1>1 DEF Login!AcquirePoll, Login!At, CallerOK
<1>3. /\ sessions[id].kind = "ready" /\ sessions[id].next <= client[c].at
      /\ client[c] \in LoginCaller /\ sessions[id] \in Session
  BY <1>1, <1>2 DEF Login!PollDue
<1>4. Timely(sessions[id], ended[id])
  BY <1>1, <1>2, <1>3 DEF SessionOK
<1>5. /\ client' = [client EXCEPT ![c].pc = "pacing", ![c].flow = "device",
                                  ![c].generation = generation + 1, ![c].session = sessions[id]]
      /\ sessions' = [sessions EXCEPT ![id].kind = "polling", ![id].generation = generation + 1]
      /\ generation' = generation + 1
      /\ UNCHANGED <<login_now, issued, next_start, last_start, ended>>
  BY DEF Login!AcquirePoll, Login!LendPoll
<1>6. client' = [client EXCEPT ![c] = r] /\ sessions' = [sessions EXCEPT ![id] = y]
  BY <1>1, <1>2, <1>5
<1>7. generation + 1 \in Int
  BY <1>1
<1>8. r \in LoginCaller /\ r.pc = "pacing" /\ r.flow = "device" /\ r.generation = generation + 1
      /\ r.id = id /\ r.session = sessions[id]
  BY <1>3, <1>7 DEF LoginCaller
<1>9. y \in Session /\ y.kind = "polling" /\ y.generation = generation + 1
  BY <1>3, <1>7 DEF Session
<1> HIDE DEF r, y
<1>10. /\ client' \in [LoginClients -> LoginCaller] /\ client'[c] = r
       /\ \A d \in LoginClients : d # c => client'[d] = client[d]
  BY <1>1, <1>6, <1>8
<1>11. sessions' \in [LoginSessions -> Session] /\ sessions'[id] = y
       /\ \A s \in LoginSessions : s # id => sessions'[s] = sessions[s]
  BY <1>1, <1>2, <1>6, <1>9
<1> HIDE DEF id
<1>12. ASSUME NEW d \in LoginClients, d # c, Loan(d)
       PROVE client[d].id # id /\ client[d].id \in LoginSessions
  <2>1. CallerOK(d)
    BY DEF LoginInv
  <2>2. sessions[client[d].id].kind # "ready" /\ client[d].id \in issued
    BY <1>12, <2>1, Records DEF CallerOK, Login!Lent
  <2> QED BY <1>1, <1>3, <2>2
<1>13. LoginTypes'
  BY <1>5, <1>7, <1>10, <1>11 DEF LoginInv, LoginTypes
<1>14. ASSUME NEW s \in LoginSessions PROVE SessionOK(s)' /\ (Login!Live(s)' => Login!Live(s))
  <2>1. CASE s # id
    BY <1>1, <1>5, <1>11, <2>1 DEF SessionOK, Timely, Paceable, Login!Live
  <2>2. CASE s = id
    BY <1>2, <1>3, <1>5, <1>9, <1>11, <2>2, Records DEF SessionOK, Login!Live, id
  <2> QED BY <2>1, <2>2
<1>15. ASSUME NEW d \in LoginClients PROVE CallerOK(d)'
  <2>1. CASE d # c
    <3>1. client'[d] = client[d] /\ CallerOK(d) /\ (Loan(d)' <=> Loan(d))
      BY <1>10, <2>1 DEF LoginInv, Loan
    <3>2. Loan(d) => sessions'[client[d].id] = sessions[client[d].id]
      BY <1>11, <1>12, <2>1
    <3>3. login_now' = login_now /\ issued' = issued /\ ended' = ended
      BY <1>5
    <3> QED BY <3>1, <3>2, <3>3 DEF CallerOK, Loan, Login!Lent, Timely, Paceable
  <2>2. CASE d = c
    <3>1. client'[c].id \in issued'
      <4>1. issued' = issued
        BY <1>5
      <4>2. client'[c].id = id
        BY <1>8, <1>10
      <4> QED BY <1>2, <4>1, <4>2
    <3>2. Paceable(sessions[id]) /\ login_now' = login_now
      BY <1>4, <1>5 DEF Timely
    <3>3. Paceable(client[c].session)'
      BY <1>8, <1>10, <3>2 DEF Paceable
    <3>4. Login!Lent(client[c].id, client[c].generation)'
      BY <1>5, <1>7, <1>8, <1>9, <1>10, <1>11 DEF Login!Lent
    <3> QED BY <1>3, <1>8, <1>10, <2>2, <3>1, <3>3, <3>4 DEF CallerOK, Loan, id
  <2> QED BY <2>1, <2>2
<1>16. \A d, e \in LoginClients : d # e /\ Loan(d)' /\ Loan(e)' => client'[d].id # client'[e].id
  <2>1. \A d \in LoginClients : d # c /\ Loan(d)' =>
          Loan(d) /\ client'[d] = client[d] /\ client[d].id # id
    BY <1>10, <1>12 DEF Loan
  <2>2. client'[c].id = id
    BY <1>8, <1>10
  <2> QED BY <2>1, <2>2 DEF LoginInv
<1>17. Login!PollsPaced
  <2>1. ASSUME NEW d \in LoginClients, Login!At(d, "clocked"), Login!HoldsLease(d)' PROVE d = c
    BY <1>10, <2>1 DEF Login!At, Login!HoldsLease
  <2>2. ASSUME NEW d \in LoginClients, Login!At(d, "sent")', ~Login!At(d, "sent") PROVE FALSE
    BY <1>8, <1>10, <2>2 DEF Login!At
  <2>3. \A d \in LoginClients \ {c} : Login!HoldsLease(d) => client[d].id # client[c].id
    BY <1>12 DEF Login!HoldsLease, Loan, id
  <2>4. login_now >= Login!EarliestPoll(ended[client[c].id], client'[c].session.expires)
    <3>1. /\ sessions[id].next \in Int /\ client[c].at \in Int /\ sessions[id].expires \in Int
          /\ ended[id] \in Int
      BY <1>1, <1>2, <1>3 DEF Session, LoginCaller, id
    <3>2. Login!EarliestPoll(ended[id], sessions[id].expires) \in Int
      BY <3>1 DEF Login!EarliestPoll, Login!Minimum, Login!Maximum, Login!LoginAssumption
    <3>3. login_now >= Login!EarliestPoll(ended[id], sessions[id].expires)
      BY <1>1, <1>2, <1>3, <1>4, <3>1, <3>2 DEF Timely, id
    <3> QED BY <1>8, <1>10, <3>3 DEF id
  <2> QED BY <2>1, <2>2, <2>3, <2>4 DEF Login!PollsPaced
<1> QED BY <1>13, <1>14, <1>15, <1>16, <1>17 DEF LoginInv, Login!SessionsStayGone

(* The lease that a poll gives back, or keeps while its session is         *)
(* deferred.                                                               *)
LEMMA PollsDeferred ==
  ASSUME Login!LoginAssumption, LoginInv, NEW c \in LoginClients, NEW slow \in BOOLEAN,
         Login!PollPending(c, slow)
  PROVE  LoginInv' /\ Login!SessionsStayGone /\ Login!PollsPaced
<1> DEFINE id == client[c].id
           y  == Login!Defer(client[c].session, login_now, slow)
           r  == [client[c] EXCEPT !.pc = "deferring", !.session = y, !.at = login_now]
<1>1. /\ client \in [LoginClients -> LoginCaller] /\ client[c] \in LoginCaller
      /\ login_now \in Int
      /\ sessions \in [LoginSessions -> Session] /\ ended \in [LoginSessions -> Int]
      /\ issued \subseteq LoginSessions
      /\ CallerOK(c)
  BY DEF LoginInv, LoginTypes
<1>2. client[c].pc = "sent" /\ client[c].flow = "device" /\ Loan(c)
  BY DEF Login!PollPending, Login!Polling, Login!At, Loan
<1>3. id \in LoginSessions /\ client[c].session \in Session /\ client[c].session.kind = "ready"
      /\ Paceable(client[c].session)
  BY <1>1, <1>2 DEF CallerOK, LoginCaller
<1>4. y \in Session /\ y.kind = "ready" /\ Timely(y, login_now)
  BY <1>1, <1>3, Deferred
<1>5. /\ client' = [client EXCEPT ![c].pc = "deferring", ![c].session = y, ![c].at = login_now]
      /\ ended' = [ended EXCEPT ![id] = login_now]
      /\ UNCHANGED <<login_now, sessions, generation, issued, next_start, last_start>>
  BY DEF Login!PollPending
<1> HIDE DEF y
<1>6. client' = [client EXCEPT ![c] = r]
  BY <1>1, <1>5
<1>7. r \in LoginCaller /\ r.pc = "deferring" /\ r.id = id /\ r.session = y /\ r.flow = "device"
      /\ r.generation = client[c].generation
  BY <1>1, <1>2, <1>4 DEF LoginCaller
<1> HIDE DEF r
<1>8. Frame(c) /\ client'[c] = r
  BY <1>1, <1>6, <1>7 DEF Frame
<1>9. /\ ended' \in [LoginSessions -> Int] /\ ended'[id] = login_now
      /\ \A s \in LoginSessions : s # id => ended'[s] = ended[s]
  BY <1>1, <1>3, <1>5
<1>10. Loan(c)' /\ client'[c].pc # "clocked" /\ client'[c].id = id
       /\ client'[c].generation = client[c].generation /\ client'[c].session = y
  BY <1>7, <1>8 DEF Loan
<1> HIDE DEF id
<1>11. LoginInv' /\ Login!SessionsStayGone
  <2>1. Timely(y, ended'[id])
    BY <1>4, <1>9
  <2>2. id = client[c].id /\ sessions' = sessions
    BY <1>5 DEF id
  <2>3. client'[c].session.kind = "ready" /\ Timely(client'[c].session, ended'[id])
    BY <1>4, <1>10, <2>1
  <2>4. sessions' \in [LoginSessions -> Session] /\ sessions'[id] \in {sessions[id], Login!Absent}
        /\ \A s \in LoginSessions : s # id => sessions'[s] = sessions[s] /\ ended'[s] = ended[s]
    BY <1>1, <1>9, <2>2
  <2>5. UNCHANGED <<login_now, generation, issued, last_start, next_start>>
    BY <1>5
  <2> QED BY <1>2, <1>8, <1>9, <1>10, <2>2, <2>3, <2>4, <2>5, LoanMoves
<1>12. Login!PollsPaced
  BY <1>2, <1>7, <1>8, NobodyPolls
<1> QED BY <1>11, <1>12

LEMMA LeasesEnd ==
  ASSUME Login!LoginAssumption, LoginInv, NEW c \in LoginClients, Login!RestoreLease(c)
           \/ Login!PollEnds(c) \/ Login!Abandon(c), Loan(c)
  PROVE  LoginInv' /\ Login!SessionsStayGone /\ Login!PollsPaced
<1> DEFINE id == client[c].id
           g  == client[c].generation
           z  == IF client[c].pc = "deferring" THEN client[c].session
                                               ELSE Login!Defer(client[c].session, login_now,
                                                 FALSE)
<1>1. /\ client \in [LoginClients -> LoginCaller] /\ client[c] \in LoginCaller
      /\ login_now \in Int
      /\ sessions \in [LoginSessions -> Session] /\ ended \in [LoginSessions -> Int]
      /\ issued \subseteq LoginSessions
      /\ CallerOK(c)
  BY DEF LoginInv, LoginTypes
<1>2. id \in LoginSessions /\ client[c].session \in Session /\ client[c].session.kind = "ready"
      /\ Paceable(client[c].session)
  BY <1>1 DEF CallerOK, LoginCaller
<1>3. /\ client' = [client EXCEPT ![c] = Login!Idle] /\ client[c].pc # "clocked"
      /\ UNCHANGED <<login_now, generation, issued, next_start, last_start>>
  BY DEF Login!RestoreLease, Login!PollEnds, Login!Abandon, Login!Polling, Login!At,
     Login!Return
<1>4. \/ ended' = ended /\ client[c].pc = "deferring"
      \/ ended' = ended
           /\ (sessions' = sessions \/ sessions' = [sessions EXCEPT ![id] = Login!Absent])
      \/ ended' = [ended EXCEPT ![id] = login_now] /\ client[c].pc # "deferring"
  BY DEF Login!RestoreLease, Login!PollEnds, Login!Abandon, Login!Polling, Login!At,
     Login!FinishPoll, Login!HoldsLease, Loan
<1>5. \/ sessions' = sessions \/ sessions' = [sessions EXCEPT ![id] = Login!Absent]
      \/ Login!Lent(id, g) /\ sessions' = [sessions EXCEPT ![id] = z]
  <2>1. CASE Login!RestoreLease(c)
    BY <2>1 DEF Login!RestoreLease, Login!At, Login!FinishPoll, Login!RestorePoll
  <2>2. CASE Login!PollEnds(c)
    BY <2>2 DEF Login!PollEnds, Login!FinishPoll
  <2>3. CASE Login!Abandon(c)
    <3>1. client[c].pc # "deferring" /\ Login!DropLease(c)
      BY <2>3 DEF Login!Abandon
    <3> QED BY <3>1 DEF Login!DropLease, Login!FinishPoll, Login!RestorePoll
  <2> QED BY <2>1, <2>2, <2>3
<1>6. /\ ended' \in [LoginSessions -> Int]
      /\ \A s \in LoginSessions : s # id => ended'[s] = ended[s]
  BY <1>1, <1>2, <1>4
<1>7. z \in Session /\ z.kind = "ready"
      /\ \/ sessions' = sessions \/ sessions' = [sessions EXCEPT ![id] = Login!Absent]
         \/ Timely(z, ended'[id])
  <2>1. CASE client[c].pc = "deferring"
    <3>1. Timely(client[c].session, ended[id])
      BY <1>1, <2>1 DEF CallerOK
    <3> QED BY <1>2, <1>4, <2>1, <3>1
  <2>2. CASE client[c].pc # "deferring"
    <3>1. z \in Session /\ z.kind = "ready" /\ Timely(z, login_now)
      BY <1>1, <1>2, <2>2, Deferred
    <3>2. \/ sessions' = sessions \/ sessions' = [sessions EXCEPT ![id] = Login!Absent]
          \/ ended'[id] = login_now
      BY <1>1, <1>2, <1>4, <2>2
    <3> QED BY <3>1, <3>2
  <2> QED BY <2>1, <2>2
<1> HIDE DEF z
<1>8. Frame(c) /\ client'[c] = Login!Idle
  BY <1>1, <1>3, Records DEF Frame
<1>9. client'[c].pc = "idle" /\ ~Loan(c)'
  BY <1>8, Records DEF Loan
<1>10. /\ sessions' \in [LoginSessions -> Session]
       /\ \A s \in LoginSessions : s # id => sessions'[s] = sessions[s]
       /\ \/ sessions'[id] \in {sessions[id], Login!Absent}
          \/ Login!Lent(id, g) /\ sessions'[id] = z /\ Timely(z, ended'[id])
  BY <1>1, <1>2, <1>5, <1>7, Records
<1>11. \/ sessions'[id] \in {sessions[id], Login!Absent}
       \/ Login!Live(id) /\ sessions'[id].kind = "ready" /\ Timely(sessions'[id], ended'[id])
            /\ ~Loan(c)'
  BY <1>7, <1>9, <1>10, Records DEF Login!Lent, Login!Live
<1>12. LoginInv' /\ Login!SessionsStayGone
  <2>1. PICK i : i = id
    OBVIOUS
  <2> HIDE DEF id
  <2>2. i = client[c].id
    BY <2>1 DEF id
  <2>3. \/ sessions'[i] \in {sessions[i], Login!Absent}
        \/ Login!Live(i) /\ sessions'[i].kind = "ready" /\ Timely(sessions'[i], ended'[i])
             /\ ~Loan(c)'
    BY <1>11, <2>1
  <2>4. \A s \in LoginSessions : s # i => sessions'[s] = sessions[s] /\ ended'[s] = ended[s]
    BY <1>6, <1>10, <2>1
  <2> QED BY <1>3, <1>6, <1>8, <1>9, <1>10, <2>2, <2>3, <2>4, LoanMoves
<1>13. Login!PollsPaced
  BY <1>3, <1>8, <1>9, NobodyPolls
<1> QED BY <1>12, <1>13

LEMMA CallersLeave ==
  ASSUME LoginInv, NEW c \in LoginClients, Login!RestoreLease(c) \/ Login!PollEnds(c)
           \/ Login!Abandon(c), ~Loan(c)
  PROVE  LoginInv' /\ Login!SessionsStayGone /\ Login!PollsPaced
<1>1. /\ client \in [LoginClients -> LoginCaller] /\ sessions \in [LoginSessions -> Session]
      /\ issued \subseteq LoginSessions /\ last_start \in Int /\ next_start = last_start + Spacing
      /\ CallerOK(c)
  BY DEF LoginInv, LoginTypes
<1>2. Login!Abandon(c) /\ ~Login!HoldsLease(c)
  <2>1. ~Login!RestoreLease(c)
    BY <1>1 DEF Login!RestoreLease, Login!At, CallerOK
  <2>2. ~Login!PollEnds(c)
    BY DEF Login!PollEnds, Login!Polling, Login!At, Loan
  <2> QED BY <2>1, <2>2 DEF Login!HoldsLease, Loan
<1>3. /\ client' = [client EXCEPT ![c] = Login!Idle] /\ client[c].pc # "clocked"
      /\ UNCHANGED <<login_now, sessions, generation, issued, next_start, last_start, ended>>
  BY <1>2 DEF Login!Abandon, Login!Return, Login!DropLease
<1>4. Frame(c) /\ client'[c] = Login!Idle
  BY <1>1, <1>3, Records DEF Frame
<1>5. client'[c].pc = "idle" /\ ~Loan(c)'
  BY <1>4, Records DEF Loan
<1>6. LoginInv' /\ Login!SessionsStayGone
  <2>1. /\ issued \subseteq issued' /\ issued' \subseteq LoginSessions
        /\ sessions' \in [LoginSessions -> Session]
        /\ \A s \in LoginSessions :
             sessions'[s] \in {sessions[s], Login!Absent} /\ (s \in issued \/ s \notin issued')
    BY <1>1, <1>3
  <2>2. last_start' \in Int /\ next_start' = last_start' + Spacing
    BY <1>1, <1>3
  <2> QED BY <1>3, <1>4, <1>5, <2>1, <2>2, NothingLent
<1>7. Login!PollsPaced
  BY <1>3, <1>4, <1>5, NobodyPolls
<1> QED BY <1>6, <1>7

LEMMA TimePasses ==
  ASSUME Login!LoginAssumption, LoginInv, Login!Tick \/ UNCHANGED Login!vars
  PROVE  LoginInv' /\ Login!SessionsStayGone /\ Login!PollsPaced
<1>1. /\ login_now' \in Nat /\ login_now \in Nat /\ login_now <= login_now'
      /\ UNCHANGED <<sessions, generation, issued, client, next_start, last_start, ended>>
  BY DEF Login!Tick, Login!vars, LoginInv, LoginTypes
<1>2. \A x \in Session : Paceable(x) =>
        x.interval >= Login!Minimum(PollInterval, Ttl) /\ x.expires <= login_now' + Ttl
  BY <1>1 DEF Paceable, Session, Login!LoginAssumption
<1>3. LoginTypes'
  BY <1>1 DEF LoginInv, LoginTypes
<1>4. ASSUME NEW s \in LoginSessions PROVE SessionOK(s)'
  <2>1. SessionOK(s) /\ sessions[s] \in Session
    BY DEF LoginInv, LoginTypes
  <2>2. sessions[s].kind = "ready" => Timely(sessions[s], ended[s])'
    BY <1>1, <1>2, <2>1 DEF SessionOK, Timely, Paceable
  <2> QED BY <1>1, <2>1, <2>2 DEF SessionOK
<1>5. ASSUME NEW c \in LoginClients
      PROVE CallerOK(c)' /\ (Loan(c)' <=> Loan(c)) /\ client'[c] = client[c]
  <2>1. CallerOK(c) /\ client[c].session \in Session /\ client[c].at \in Int
    BY DEF LoginInv, LoginTypes, LoginCaller
  <2>2. client'[c] = client[c] /\ (Loan(c)' <=> Loan(c))
        /\ (Login!Lent(client[c].id, client[c].generation)' <=>
             Login!Lent(client[c].id, client[c].generation))
    BY <1>1 DEF Loan, Login!Lent
  <2>3. client[c].at <= login_now => client'[c].at <= login_now'
    BY <1>1, <2>1
  <2>4. Paceable(client[c].session) => Paceable(client[c].session)'
    BY <1>1, <1>2, <2>1 DEF Paceable
  <2>5. Timely(client[c].session, ended[client[c].id]) =>
          Timely(client[c].session, ended[client[c].id])'
    BY <1>1, <2>4 DEF Timely
  <2> QED BY <1>1, <2>1, <2>2, <2>3, <2>4, <2>5 DEF CallerOK
<1>6. LoginInv'
  BY <1>3, <1>4, <1>5 DEF LoginInv
<1> QED BY <1>1, <1>6 DEF Login!SessionsStayGone, Login!PollsPaced, Login!Live, Login!At,
           Login!HoldsLease

LEMMA LoginStart ==
  ASSUME Login!LoginAssumption, Login!Init
  PROVE  LoginInv
<1>1. login_now = 0 /\ generation = 0 /\ issued = {} /\ last_start = -Spacing /\ next_start = 0
  BY DEF Login!Init
<1>2. last_start \in Int /\ next_start = last_start + Spacing /\ -PollInterval \in Int
  BY <1>1 DEF Login!LoginAssumption
<1>3. /\ sessions \in [LoginSessions -> Session] /\ client \in [LoginClients -> LoginCaller]
      /\ ended \in [LoginSessions -> Int]
      /\ \A s \in LoginSessions : sessions[s] = Login!Absent /\ ended[s] = -PollInterval
      /\ \A c \in LoginClients : client[c] = Login!Idle
  BY <1>2, Records DEF Login!Init
<1>4. \A s \in LoginSessions : SessionOK(s)
  BY <1>3, Records DEF SessionOK
<1>5. \A c \in LoginClients : CallerOK(c) /\ ~Loan(c)
  BY <1>3, Records DEF CallerOK, Loan
<1> QED BY <1>1, <1>2, <1>3, <1>4, <1>5 DEF LoginInv, LoginTypes

LEMMA LoginStep ==
  ASSUME Login!LoginAssumption, LoginInv, [Login!Next]_(Login!vars)
  PROVE  LoginInv' /\ Login!SessionsStayGone /\ Login!PollsPaced
<1>1. CASE Login!Tick \/ UNCHANGED Login!vars
  BY <1>1, TimePasses
<1>2. ASSUME NEW c \in LoginClients,
             \/ Login!StartDevice(c) \/ Login!TakeGate(c) \/ Login!Send(c)
                  \/ Login!ExchangeAnswered(c)
             \/ \E id \in LoginSessions : Login!ReadClock(c, id)
                  \/ \E valid \in BOOLEAN : Login!Exchange(c, id, valid)
      PROVE  LoginInv' /\ Login!SessionsStayGone /\ Login!PollsPaced
  BY <1>2, PlainSteps
<1>3. ASSUME NEW c \in LoginClients, NEW id \in LoginSessions, Login!StartCode(c, id)
               \/ Login!DeviceStarted(c, id)
      PROVE  LoginInv' /\ Login!SessionsStayGone /\ Login!PollsPaced
  BY <1>3, LoginsStart
<1>4. ASSUME NEW c \in LoginClients, Login!AcquirePoll(c)
      PROVE  LoginInv' /\ Login!SessionsStayGone /\ Login!PollsPaced
  BY <1>4, PollsRefused, PollsLent
<1>5. ASSUME NEW c \in LoginClients, NEW slow \in BOOLEAN, Login!PollPending(c, slow)
      PROVE  LoginInv' /\ Login!SessionsStayGone /\ Login!PollsPaced
  BY <1>5, PollsDeferred
<1>6. ASSUME NEW c \in LoginClients, Login!RestoreLease(c) \/ Login!PollEnds(c)
               \/ Login!Abandon(c)
      PROVE  LoginInv' /\ Login!SessionsStayGone /\ Login!PollsPaced
  BY <1>6, LeasesEnd, CallersLeave
<1> QED BY <1>1, <1>2, <1>3, <1>4, <1>5, <1>6 DEF Login!Next

(* A session that has left the store never comes back, a session is polled *)
(* by one caller at a time and not before its interval has passed (only in *)
(* its last second may one poll come earlier), and requests to the control *)
(* plane are spaced, for any number of callers that poll, are cut off and  *)
(* come back (acquire_poll, restore_poll, finish_poll, defer with its      *)
(* whole seconds, DevicePollLease::drop, the pacer).                       *)
THEOREM LoginsArePaced == ASSUME Login!LoginAssumption
                          PROVE Login!Spec
                                  => [][Login!SessionsStayGone /\ Login!PollsPaced]_(Login!vars)
<1>1. Login!Init => LoginInv
  BY LoginStart
<1>2. LoginInv /\ [Login!Next]_(Login!vars) => LoginInv'
  BY LoginStep
<1>3. LoginInv /\ [Login!Next]_(Login!vars) =>
        [Login!SessionsStayGone /\ Login!PollsPaced]_(Login!vars)
  BY LoginStep
<1> QED BY <1>1, <1>2, <1>3, PTL DEF Login!Spec

-----------------------------------------------------------------------------
(* Accounts.                                                               *)

(* The tokens of accounts and of those who publish them.                   *)
AnyToken == [stable : Identities \cup {None}, access : Secrets \cup {None},
  id : IdTokens \cup {None}]
AccountsTyped ==
  /\ accounts \in [Ids -> [state : {"unborn", "published", "deleted"}, token : AnyToken,
                           version : Nat, models : SUBSET Models]]
  /\ login \in [token : AnyToken, models : SUBSET Models]
  /\ renewal \in [of : Ids \cup {None}, version : Nat, token : AnyToken]

Match(t, u) == Accounting!StableMatches(t, u) \/ Accounting!ExactTokenMatches(t, u)

LEMMA TokensAreTokens ==
  /\ Accounting!Tokens \subseteq AnyToken /\ Accounting!NoToken \in AnyToken
  /\ \A t, u \in AnyToken : Accounting!MergeMissingIdentity(t, u) \in AnyToken
<1>1. Accounting!Tokens \subseteq AnyToken
  BY DEF Accounting!Tokens, AnyToken
<1>2. Accounting!NoToken \in AnyToken
  BY DEF Accounting!NoToken, AnyToken
<1>3. ASSUME NEW t \in AnyToken, NEW u \in AnyToken
      PROVE Accounting!MergeMissingIdentity(t, u) \in AnyToken
  BY DEF Accounting!MergeMissingIdentity, AnyToken
<1> QED BY <1>1, <1>2, <1>3

LEMMA MatchesAre ==
  ASSUME NEW t \in AnyToken, NEW u \in AnyToken
  PROVE  Match(t, u) <=>
           \/ t.stable # None /\ t.stable = u.stable
           \/ t.access = u.access
           \/ t.id # None /\ t.id = u.id
<1>1. Accounting!ExactTokenMatches(t, u) <=> t.access = u.access \/ (t.id # None /\ t.id = u.id)
  <2>1. ASSUME t.access = u.access PROVE Accounting!ExactTokenMatches(t, u)
    <3>1. <<"access", t.access>> \in Accounting!SecretsOf(t) \cap Accounting!SecretsOf(u)
      BY <2>1 DEF Accounting!SecretsOf
    <3> QED BY <3>1 DEF Accounting!ExactTokenMatches
  <2>2. ASSUME t.id # None, t.id = u.id PROVE Accounting!ExactTokenMatches(t, u)
    <3>1. <<"id", t.id>> \in Accounting!SecretsOf(t) \cap Accounting!SecretsOf(u)
      BY <2>2 DEF Accounting!SecretsOf
    <3> QED BY <3>1 DEF Accounting!ExactTokenMatches
  <2>3. ASSUME Accounting!ExactTokenMatches(t, u)
        PROVE t.access = u.access \/ (t.id # None /\ t.id = u.id)
    <3>1. PICK s : s \in Accounting!SecretsOf(t) /\ s \in Accounting!SecretsOf(u)
      BY <2>3 DEF Accounting!ExactTokenMatches
    <3>2. s = <<"access", t.access>> \/ (t.id # None /\ s = <<"id", t.id>>)
      BY <3>1 DEF Accounting!SecretsOf
    <3>3. s = <<"access", u.access>> \/ (u.id # None /\ s = <<"id", u.id>>)
      BY <3>1 DEF Accounting!SecretsOf
    <3> QED BY <3>2, <3>3
  <2> QED BY <2>1, <2>2, <2>3
<1> QED BY <1>1 DEF Match, Accounting!StableMatches

(* Counting is the same in the component's module and here.                *)
LEMMA AccountingCounts ==
  ASSUME NEW S
  PROVE  /\ Accounting!Cardinality(S) = Cardinality(S)
         /\ Accounting!IsFiniteSet(S) <=> IsFiniteSet(S)
BY DEF Accounting!Cardinality, Cardinality, Accounting!IsFiniteSet, IsFiniteSet

LEMMA SomeToCount ==
  ASSUME NEW S, Accounting!IsFiniteSet(S), S # {}
  PROVE  Accounting!Cardinality(S) \in Nat /\ Accounting!Cardinality(S) # 0
<1>1. IsFiniteSet(S) /\ Accounting!Cardinality(S) = Cardinality(S)
  BY AccountingCounts
<1>2. Cardinality(S) \in Nat /\ Cardinality(S) # 0
  BY <1>1, FS_CardinalityType, FS_EmptySet
<1> QED BY <1>1, <1>2

LEMMA AtMostOneOf ==
  ASSUME NEW S, Accounting!IsFiniteSet(S), NEW x \in S, NEW y \in S,
         ~(Accounting!Cardinality(S) > 1)
  PROVE  x = y
<1>1. Accounting!Cardinality(S) \in Nat /\ Accounting!Cardinality(S) # 0
  BY SomeToCount
<1>2. Accounting!Cardinality(S) = 1
  BY <1>1
<1>3. IsFiniteSet(S) /\ Cardinality(S) = 1
  BY <1>2, AccountingCounts
<1>4. \E z : S = {z}
  BY <1>3, FS_Singleton
<1> QED BY <1>4

LEMMA PublishedIsFinite ==
  ASSUME Accounting!AccountsAssumption
  PROVE  \A S : S \subseteq Accounting!Published => Accounting!IsFiniteSet(S)
<1>1. IsFiniteSet(Ids) /\ Accounting!Published \subseteq Ids
  BY AccountingCounts DEF Accounting!AccountsAssumption, Accounting!Published
<1>2. ASSUME NEW S, S \subseteq Accounting!Published PROVE Accounting!IsFiniteSet(S)
  <2>1. IsFiniteSet(S)
    BY <1>1, <1>2, FS_Subset
  <2> QED BY <2>1, AccountingCounts
<1> QED BY <1>2

(* Twins are made only where an account gets a token that matches.         *)
LEMMA TwinsOf ==
  ASSUME AccountsTyped, AccountsTyped', NEW id \in Ids,
         \A j \in Ids \ {id} : accounts'[j] = accounts[j],
         \A j \in Accounting!Published \ {id} :
            Match(accounts'[id].token, accounts[j].token) =>
              id \in Accounting!Published /\ Match(accounts[id].token, accounts[j].token)
  PROVE  \A i, j \in Ids : Accounting!Twins(i, j)' => Accounting!Twins(i, j)
<1> SUFFICES ASSUME NEW i \in Ids, NEW j \in Ids, Accounting!Twins(i, j)'
             PROVE Accounting!Twins(i, j)
  OBVIOUS
<1>1. /\ \A k \in Ids : accounts[k].token \in AnyToken /\ accounts'[k].token \in AnyToken
  BY DEF AccountsTyped
<1>2. \A t, u \in AnyToken : Match(t, u) => Match(u, t)
  BY MatchesAre
<1>3. i # j /\ Match(accounts'[i].token, accounts'[j].token)
      /\ accounts'[i].state = "published" /\ accounts'[j].state = "published"
  BY DEF Accounting!Twins, Match, Accounting!StableMatches, Accounting!ExactTokenMatches,
     Accounting!SecretsOf, Accounting!Published
<1>4. Accounting!Twins(i, j) <=>
        /\ i # j /\ i \in Accounting!Published /\ j \in Accounting!Published
        /\ Match(accounts[i].token, accounts[j].token)
  BY DEF Accounting!Twins, Match
<1>5. \A k \in Ids : k # id => (k \in Accounting!Published <=> accounts'[k].state = "published")
  BY DEF Accounting!Published
<1>6. CASE i = id
  <2>1. j \in Accounting!Published \ {id} /\ accounts'[j] = accounts[j]
    BY <1>3, <1>5, <1>6
  <2> QED BY <1>3, <1>4, <1>6, <2>1
<1>7. CASE j = id
  <2>1. i \in Accounting!Published \ {id} /\ accounts'[i] = accounts[i]
    BY <1>3, <1>5, <1>7
  <2>2. Match(accounts'[id].token, accounts[i].token)
    BY <1>1, <1>2, <1>3, <1>7, <2>1
  <2>3. id \in Accounting!Published /\ Match(accounts[id].token, accounts[i].token)
    BY <2>1, <2>2
  <2> QED BY <1>1, <1>2, <1>3, <1>4, <1>7, <2>1, <2>3
<1>8. CASE i # id /\ j # id
  BY <1>3, <1>4, <1>5, <1>8
<1> QED BY <1>6, <1>7, <1>8

AnyAccount == [state : {"unborn", "published", "deleted"}, token : AnyToken,
               version : Nat, models : SUBSET Models]

LEMMA SomeAccounts ==
  /\ Accounting!Unborn \in AnyAccount /\ Accounting!Unborn.state = "unborn"
  /\ Accounting!Deleted \in AnyAccount /\ Accounting!Deleted.state = "deleted"
  /\ \A t \in AnyToken, m \in SUBSET Models : Accounting!NewAccount(t, m) \in AnyAccount
<1>1. Accounting!Unborn \in AnyAccount /\ Accounting!Unborn.state = "unborn"
  BY TokensAreTokens DEF Accounting!Unborn, AnyAccount
<1>2. Accounting!Deleted \in AnyAccount /\ Accounting!Deleted.state = "deleted"
  BY <1>1 DEF Accounting!Deleted, AnyAccount
<1>3. ASSUME NEW t \in AnyToken, NEW m \in SUBSET Models
      PROVE Accounting!NewAccount(t, m) \in AnyAccount
  BY DEF Accounting!NewAccount, AnyAccount
<1> QED BY <1>1, <1>2, <1>3

LEMMA OneAccountTyped ==
  ASSUME AccountsTyped, NEW id \in Ids, NEW a \in AnyAccount,
         accounts' = [accounts EXCEPT ![id] = a],
         login' \in [token : AnyToken, models : SUBSET Models],
         renewal' \in [of : Ids \cup {None}, version : Nat, token : AnyToken]
  PROVE  AccountsTyped' /\ accounts'[id] = a /\ \A j \in Ids \ {id} : accounts'[j] = accounts[j]
BY DEF AccountsTyped, AnyAccount

LEMMA CreateMakesNoTwin ==
  ASSUME Accounting!AccountsAssumption, AccountsTyped, NEW id \in Ids,
         accounts[id] = Accounting!Unborn, Accounting!CreateAccount(id),
         Accounting!ResolveLoginMatch(login.token).found = {},
         login' = [token |-> Accounting!NoToken, models |-> {}], UNCHANGED renewal
  PROVE  AccountsTyped' /\ \A i, j \in Ids : Accounting!Twins(i, j)' => Accounting!Twins(i, j)
<1> DEFINE a == Accounting!NewAccount(login.token, login.models)
<1>1. a \in AnyAccount /\ a.token = login.token
  BY SomeAccounts DEF Accounting!NewAccount, AccountsTyped
<1>2. accounts' = [accounts EXCEPT ![id] = a]
  BY DEF Accounting!CreateAccount
<1> HIDE DEF a
<1>3. /\ login' \in [token : AnyToken, models : SUBSET Models]
      /\ renewal' \in [of : Ids \cup {None}, version : Nat, token : AnyToken]
  BY TokensAreTokens DEF AccountsTyped
<1>4. AccountsTyped' /\ accounts'[id] = a /\ \A j \in Ids \ {id} : accounts'[j] = accounts[j]
  BY <1>1, <1>2, <1>3, OneAccountTyped
<1>5. ASSUME NEW j \in Accounting!Published PROVE ~Match(login.token, accounts[j].token)
  BY DEF Accounting!ResolveLoginMatch, Match
<1> QED BY <1>1, <1>4, <1>5, TwinsOf

LEMMA ReauthorizeMakesNoTwin ==
  ASSUME Accounting!AccountsAssumption, AccountsTyped, NEW id,
         id \in Accounting!ResolveLoginMatch(login.token).found,
         ~Accounting!ResolveLoginMatch(login.token).conflict, Accounting!Reauthorize(id),
         login' = [token |-> Accounting!NoToken, models |-> {}], UNCHANGED renewal
  PROVE  AccountsTyped' /\ \A i, j \in Ids : Accounting!Twins(i, j)' => Accounting!Twins(i, j)
<1> DEFINE stable == {i \in Accounting!Published : Accounting!StableMatches(login.token,
             accounts[i].token)}
           exact  == {i \in Accounting!Published : Accounting!ExactTokenMatches(login.token,
             accounts[i].token)}
           merged == Accounting!MergeMissingIdentity(login.token, accounts[id].token)
           a == [accounts[id] EXCEPT !.token = merged, !.version = @ + 1,
             !.models = @ \cap login.models]
<1>1. /\ ~(Accounting!Cardinality(stable) > 1) /\ ~(Accounting!Cardinality(exact) > 1)
      /\ Accounting!Cardinality(stable) = 1 /\ exact # {} => stable = exact
      /\ id \in IF stable # {} THEN stable ELSE exact
  BY DEF Accounting!ResolveLoginMatch
<1>2. /\ id \in Accounting!Published /\ id \in Ids /\ stable \subseteq Accounting!Published
      /\ exact \subseteq Accounting!Published
  BY <1>1 DEF Accounting!Published
<1>3. login.token \in AnyToken /\ accounts[id] \in AnyAccount /\ accounts[id].token \in AnyToken
  BY <1>2 DEF AccountsTyped, AnyAccount
<1>4. merged \in AnyToken
  BY <1>3, TokensAreTokens
<1>5. accounts' = [accounts EXCEPT ![id] = a]
  BY <1>2 DEF Accounting!Reauthorize, AccountsTyped, AnyAccount
<1> HIDE DEF merged
<1>6. a \in AnyAccount /\ a.token = merged
  <2>1. /\ accounts[id].version + 1 \in Nat
        /\ accounts[id].models \cap login.models \in SUBSET Models
    BY <1>3 DEF AnyAccount
  <2>2. ASSUME NEW v \in Nat, NEW m \in SUBSET Models
        PROVE  LET b == [accounts[id] EXCEPT !.token = merged, !.version = v, !.models = m]
               IN  b \in AnyAccount /\ b.token = merged
    BY <1>3, <1>4 DEF AnyAccount
  <2> QED BY <2>1, <2>2
<1> HIDE DEF a
<1>7. /\ login' \in [token : AnyToken, models : SUBSET Models]
      /\ renewal' \in [of : Ids \cup {None}, version : Nat, token : AnyToken]
  BY TokensAreTokens DEF AccountsTyped
<1>8. AccountsTyped' /\ accounts'[id] = a /\ \A j \in Ids \ {id} : accounts'[j] = accounts[j]
  BY <1>2, <1>5, <1>6, <1>7, OneAccountTyped
<1>9. Accounting!IsFiniteSet(stable) /\ Accounting!IsFiniteSet(exact)
  BY <1>2, PublishedIsFinite
<1>10. ASSUME NEW j \in Accounting!Published \ {id}, Match(merged, accounts[j].token)
       PROVE  Match(accounts[id].token, accounts[j].token)
  <2>1. accounts[j].token \in AnyToken
    BY DEF AccountsTyped, Accounting!Published
  <2>2. merged = [login.token EXCEPT
                    !.stable = IF login.token.stable = None THEN accounts[id].token.stable
                                                            ELSE login.token.stable,
                    !.id = IF login.token.id = None THEN accounts[id].token.id ELSE login.token.id]
    BY DEF merged, Accounting!MergeMissingIdentity
  <2>3. /\ merged.stable = IF login.token.stable = None THEN accounts[id].token.stable
                                                        ELSE login.token.stable
        /\ merged.id = IF login.token.id = None THEN accounts[id].token.id ELSE login.token.id
        /\ merged.access = login.token.access
    BY <1>3, <2>2 DEF AnyToken
  <2>4. j \notin exact
    <3> SUFFICES ASSUME j \in exact PROVE FALSE
      OBVIOUS
    <3> HIDE DEF stable, exact
    <3>1. CASE stable = {}
      <4>1. id \in exact
        BY <1>1, <3>1
      <4> QED BY <1>1, <1>9, <4>1, AtMostOneOf
    <3>2. CASE stable # {}
      <4>1. id \in stable
        BY <1>1, <3>2
      <4>2. Accounting!Cardinality(stable) \in Nat /\ Accounting!Cardinality(stable) # 0
        BY <1>9, <3>2, SomeToCount
      <4>3. Accounting!Cardinality(stable) = 1
        BY <1>1, <4>2
      <4>4. j \in stable
        BY <1>1, <4>3
      <4> QED BY <1>1, <1>9, <4>1, <4>4, AtMostOneOf
    <3> QED BY <3>1, <3>2
  <2>5. j \notin stable
    <3> SUFFICES ASSUME j \in stable PROVE FALSE
      OBVIOUS
    <3> HIDE DEF stable, exact
    <3>1. id \in stable
      BY <1>1
    <3> QED BY <1>1, <1>9, <3>1, AtMostOneOf
  <2>6. ~Match(login.token, accounts[j].token)
    BY <2>4, <2>5 DEF Match
  <2>7. /\ ~(login.token.stable # None /\ login.token.stable = accounts[j].token.stable)
        /\ login.token.access # accounts[j].token.access
        /\ ~(login.token.id # None /\ login.token.id = accounts[j].token.id)
    BY <1>3, <2>1, <2>6, MatchesAre
  <2>8. \/ merged.stable # None /\ merged.stable = accounts[j].token.stable
        \/ merged.access = accounts[j].token.access
        \/ merged.id # None /\ merged.id = accounts[j].token.id
    BY <1>4, <1>10, <2>1, MatchesAre
  <2>9. \/ accounts[id].token.stable # None
             /\ accounts[id].token.stable = accounts[j].token.stable
        \/ accounts[id].token.id # None /\ accounts[id].token.id = accounts[j].token.id
    BY <2>3, <2>7, <2>8
  <2> QED BY <1>3, <2>1, <2>9, MatchesAre
<1> QED BY <1>2, <1>6, <1>8, <1>10, TwinsOf

LEMMA ImportMakesNoTwin ==
  ASSUME AccountsTyped, NEW batch \in SUBSET Accounting!Tokens, Accounting!Import(batch)
  PROVE  AccountsTyped' /\ \A i, j \in Ids : Accounting!Twins(i, j)' => Accounting!Twins(i, j)
<1>1. PICK id \in [batch -> {i \in Ids : accounts[i] = Accounting!Unborn}] :
        /\ \A secret, other \in batch : secret # other => id[secret] # id[other]
        /\ accounts' = [i \in Ids |->
             IF \E secret \in batch : id[secret] = i
             THEN Accounting!NewAccount(CHOOSE secret \in batch : id[secret] = i, {})
             ELSE accounts[i]]
  BY DEF Accounting!Import
<1> DEFINE New(i) == \E secret \in batch : id[secret] = i
           Of(i) == CHOOSE secret \in batch : id[secret] = i
<1>2. ASSUME NEW i \in Ids, New(i)
      PROVE  /\ Of(i) \in batch /\ id[Of(i)] = i
             /\ accounts'[i] = Accounting!NewAccount(Of(i), {})
             /\ accounts'[i].token = Of(i) /\ Of(i) \in AnyToken /\ i \notin Accounting!Published
  <2>1. Of(i) \in batch /\ id[Of(i)] = i
    BY <1>2
  <2>2. accounts'[i] = Accounting!NewAccount(Of(i), {})
    BY <1>1, <1>2
  <2>3. accounts[i] = Accounting!Unborn
    BY <1>1, <2>1
  <2> HIDE DEF Of
  <2>4. accounts'[i].token = Of(i)
    BY <2>2 DEF Accounting!NewAccount
  <2> QED BY <2>1, <2>2, <2>3, <2>4, TokensAreTokens, SomeAccounts DEF Accounting!Published
<1>3. ASSUME NEW i \in Ids, ~New(i) PROVE accounts'[i] = accounts[i]
  BY <1>1, <1>3
<1>4. AccountsTyped'
  <2>1. ASSUME NEW i \in Ids PROVE accounts'[i] \in AnyAccount
    <3>1. CASE New(i)
      <4>1. accounts'[i] = Accounting!NewAccount(Of(i), {}) /\ Of(i) \in AnyToken
        BY <1>2, <3>1
      <4> HIDE DEF Of
      <4> QED BY <4>1, SomeAccounts
    <3>2. CASE ~New(i)
      BY <1>3, <3>2 DEF AccountsTyped, AnyAccount
    <3> QED BY <3>1, <3>2
  <2>2. accounts' \in [Ids -> AnyAccount]
    <3>1. accounts' = [i \in Ids |-> accounts'[i]]
      BY <1>1
    <3> QED BY <2>1, <3>1
  <2> QED BY <2>2 DEF AccountsTyped, AnyAccount, Accounting!Import
<1>5. ASSUME NEW t \in AnyToken, NEW u \in AnyToken, Match(t, u)
      PROVE Accounting!Keys(t) \cap Accounting!Keys(u) # {}
  <2>1. CASE Accounting!ExactTokenMatches(t, u)
    BY <2>1 DEF Accounting!ExactTokenMatches, Accounting!Keys
  <2>2. CASE Accounting!StableMatches(t, u)
    <3>1. /\ <<"stable", t.stable>> \in Accounting!Keys(t)
          /\ <<"stable", t.stable>> \in Accounting!Keys(u)
      BY <2>2 DEF Accounting!StableMatches, Accounting!Keys
    <3> QED BY <3>1
  <2> QED BY <1>5, <2>1, <2>2 DEF Match
<1>6. /\ \A secret \in batch, i \in Accounting!Published :
           Accounting!Keys(secret) \cap Accounting!Keys(accounts[i].token) = {}
      /\ \A secret, other \in batch : secret # other =>
           Accounting!Keys(secret) \cap Accounting!Keys(other) = {}
  BY DEF Accounting!Import, Accounting!ImportAdmitted
<1>7. ASSUME NEW i \in Ids, NEW j \in Ids, Accounting!Twins(i, j)' PROVE Accounting!Twins(i, j)
  <2>1. /\ i # j /\ Match(accounts'[i].token, accounts'[j].token)
        /\ accounts'[i].state = "published" /\ accounts'[j].state = "published"
    BY <1>7 DEF Accounting!Twins, Match, Accounting!StableMatches, Accounting!ExactTokenMatches,
       Accounting!SecretsOf, Accounting!Published
  <2>2. \A k \in Ids : accounts'[k].token \in AnyToken
    BY <1>4 DEF AccountsTyped
  <2>3. Accounting!Keys(accounts'[i].token) \cap Accounting!Keys(accounts'[j].token) # {}
    BY <1>5, <2>1, <2>2
  <2> HIDE DEF Of
  <2>4. CASE New(i) /\ New(j)
    <3>1. Of(i) # Of(j) /\ Of(i) \in batch /\ Of(j) \in batch
      BY <1>2, <2>1, <2>4
    <3> QED BY <1>2, <1>6, <2>3, <2>4, <3>1
  <2>5. CASE New(i) /\ ~New(j)
    <3>1. j \in Accounting!Published /\ accounts'[j] = accounts[j]
      BY <1>3, <2>1, <2>5 DEF Accounting!Published
    <3> QED BY <1>2, <1>6, <2>3, <2>5, <3>1
  <2>6. CASE ~New(i) /\ New(j)
    <3>1. i \in Accounting!Published /\ accounts'[i] = accounts[i]
      BY <1>3, <2>1, <2>6 DEF Accounting!Published
    <3> QED BY <1>2, <1>6, <2>3, <2>6, <3>1
  <2>7. CASE ~New(i) /\ ~New(j)
    <3>1. accounts'[i] = accounts[i] /\ accounts'[j] = accounts[j]
      BY <1>3, <2>7
    <3> QED BY <2>1, <3>1 DEF Accounting!Twins, Match, Accounting!Published
  <2> QED BY <2>4, <2>5, <2>6, <2>7
<1> QED BY <1>4, <1>7

LEMMA AccountsStep ==
  ASSUME Accounting!AccountsAssumption, AccountsTyped, [Accounting!Next]_(Accounting!vars)
  PROVE  AccountsTyped' /\ Accounting!NoNewTwins
<1>1. ASSUME UNCHANGED accounts,
             login' \in [token : AnyToken, models : SUBSET Models],
             renewal' \in [of : Ids \cup {None}, version : Nat, token : AnyToken]
      PROVE  AccountsTyped' /\ Accounting!NoNewTwins
  BY <1>1 DEF AccountsTyped, Accounting!NoNewTwins, Accounting!Twins, Accounting!Published
<1>2. /\ login \in [token : AnyToken, models : SUBSET Models]
      /\ renewal \in [of : Ids \cup {None}, version : Nat, token : AnyToken]
      /\ Accounting!NoRefresh \in [of : Ids \cup {None}, version : Nat, token : AnyToken]
      /\ [token |-> Accounting!NoToken, models |-> {}] \in [token : AnyToken,
           models : SUBSET Models]
  BY TokensAreTokens DEF AccountsTyped, Accounting!NoRefresh
<1>3. CASE Accounting!ActivateLogin
  <2> DEFINE match == Accounting!ResolveLoginMatch(login.token)
  <2>1. login' = [token |-> Accounting!NoToken, models |-> {}] /\ UNCHANGED renewal
    BY <1>3 DEF Accounting!ActivateLogin
  <2>2. CASE UNCHANGED accounts
    BY <1>1, <1>2, <2>1, <2>2
  <2>3. ASSUME ~match.conflict, NEW id \in match.found, Accounting!Reauthorize(id)
        PROVE AccountsTyped' /\ Accounting!NoNewTwins
    BY <2>1, <2>3, ReauthorizeMakesNoTwin DEF Accounting!NoNewTwins
  <2>4. ASSUME match.found = {}, NEW id \in Ids, accounts[id] = Accounting!Unborn,
               Accounting!CreateAccount(id)
        PROVE  AccountsTyped' /\ Accounting!NoNewTwins
    BY <2>1, <2>4, CreateMakesNoTwin DEF Accounting!NoNewTwins
  <2> QED BY <1>3, <2>2, <2>3, <2>4 DEF Accounting!ActivateLogin
<1>4. CASE Accounting!PublishRefresh
  <2>1. renewal # Accounting!NoRefresh /\ renewal' = Accounting!NoRefresh /\ UNCHANGED login
    BY <1>4 DEF Accounting!PublishRefresh
  <2>2. Accounting!NoNewTwins
    BY <2>1 DEF Accounting!NoNewTwins
  <2>3. AccountsTyped'
    <3>1. CASE UNCHANGED accounts
      BY <1>1, <1>2, <2>1, <3>1
    <3>2. CASE ~UNCHANGED accounts
      <4> DEFINE id == renewal.of
                 a  == [accounts[id] EXCEPT !.token = renewal.token, !.version = @ + 1]
      <4>1. id \in Accounting!Published /\ id \in Ids /\ accounts[id] \in AnyAccount
        BY <1>4, <3>2 DEF Accounting!PublishRefresh, Accounting!RefreshCurrent,
           Accounting!Published, AccountsTyped, AnyAccount
      <4>2. accounts' = [accounts EXCEPT ![id] = a]
        BY <1>4, <3>2, <4>1 DEF Accounting!PublishRefresh, AccountsTyped, AnyAccount
      <4>3. renewal.token \in AnyToken /\ accounts[id].version + 1 \in Nat
        BY <1>2, <4>1 DEF AnyAccount
      <4>4. a \in AnyAccount
        <5>1. ASSUME NEW v \in Nat
              PROVE [accounts[id] EXCEPT !.token = renewal.token, !.version = v] \in AnyAccount
          BY <4>1, <4>3 DEF AnyAccount
        <5> QED BY <4>3, <5>1
      <4> HIDE DEF a, id
      <4> QED BY <1>2, <2>1, <4>1, <4>2, <4>4, OneAccountTyped
    <3> QED BY <3>1, <3>2
  <2> QED BY <2>2, <2>3
<1>5. ASSUME NEW secret \in Accounting!Tokens, NEW models \in SUBSET Models,
             Accounting!LoginObtains(secret, models)
      PROVE  AccountsTyped' /\ Accounting!NoNewTwins
  BY <1>1, <1>2, <1>5, TokensAreTokens DEF Accounting!LoginObtains
<1>6. ASSUME NEW batch \in {{first, second} : first, second \in Accounting!Tokens},
             Accounting!Import(batch)
      PROVE  AccountsTyped' /\ Accounting!NoNewTwins
  <2>1. batch \in SUBSET Accounting!Tokens
    BY <1>6
  <2> QED BY <1>6, <2>1, ImportMakesNoTwin DEF Accounting!NoNewTwins
<1>7. ASSUME NEW id \in Ids, NEW a \in AnyAccount, accounts' = [accounts EXCEPT ![id] = a],
             UNCHANGED <<login, renewal>>,
             a.state = "published" => id \in Accounting!Published /\ a.token = accounts[id].token
      PROVE  AccountsTyped' /\ Accounting!NoNewTwins
  <2>1. AccountsTyped' /\ accounts'[id] = a /\ \A j \in Ids \ {id} : accounts'[j] = accounts[j]
    BY <1>2, <1>7, OneAccountTyped
  <2>2. ASSUME NEW i \in Ids, NEW j \in Ids, Accounting!Twins(i, j)' PROVE Accounting!Twins(i, j)
    <3>1. /\ i # j /\ Match(accounts'[i].token, accounts'[j].token)
          /\ accounts'[i].state = "published" /\ accounts'[j].state = "published"
      BY <2>2 DEF Accounting!Twins, Match, Accounting!StableMatches,
         Accounting!ExactTokenMatches, Accounting!SecretsOf, Accounting!Published
    <3>2. \A k \in Ids : accounts'[k].state = "published" =>
            k \in Accounting!Published /\ accounts'[k].token = accounts[k].token
      BY <1>7, <2>1 DEF Accounting!Published
    <3> QED BY <3>1, <3>2 DEF Accounting!Twins, Match
  <2> QED BY <2>1, <2>2 DEF Accounting!NoNewTwins
<1>8. ASSUME NEW id \in Ids, Accounting!Delete(id) PROVE AccountsTyped' /\ Accounting!NoNewTwins
  BY <1>7, <1>8, SomeAccounts DEF Accounting!Delete
<1>9. ASSUME NEW id \in Ids, NEW secret \in Accounting!Tokens,
             Accounting!RefreshObtains(id, secret) PROVE AccountsTyped' /\ Accounting!NoNewTwins
  <2>1. accounts[id].version \in Nat /\ accounts[id].token \in AnyToken /\ secret \in AnyToken
    BY TokensAreTokens DEF AccountsTyped
  <2>2. Accounting!MergeMissingIdentity(secret, accounts[id].token) \in AnyToken
    BY <2>1, TokensAreTokens
  <2> QED BY <1>1, <1>2, <1>9, <2>1, <2>2 DEF Accounting!RefreshObtains
<1>10. ASSUME NEW id \in Ids, NEW models \in SUBSET Models, Accounting!SetModels(id, models)
       PROVE  AccountsTyped' /\ Accounting!NoNewTwins
  <2> DEFINE a == [accounts[id] EXCEPT !.models = models]
  <2>1. accounts[id] \in AnyAccount /\ id \in Accounting!Published
    BY <1>10 DEF AccountsTyped, AnyAccount, Accounting!SetModels
  <2>2. a \in AnyAccount /\ a.token = accounts[id].token
    BY <2>1 DEF AnyAccount
  <2>3. accounts' = [accounts EXCEPT ![id] = a] /\ UNCHANGED <<login, renewal>>
    BY <1>10 DEF Accounting!SetModels
  <2> HIDE DEF a
  <2> QED BY <1>7, <2>1, <2>2, <2>3
<1>11. CASE UNCHANGED Accounting!vars
  BY <1>1, <1>2, <1>11 DEF Accounting!vars
<1> QED BY <1>3, <1>4, <1>5, <1>6, <1>8, <1>9, <1>10, <1>11 DEF Accounting!Next

(* However logins, imports and refreshes overlap, a login or an import     *)
(* never makes two accounts of one principal or of one secret, for any     *)
(* number of accounts, principals and secrets (resolve_login_match,        *)
(* validate_import_identities).                                            *)
THEOREM LoginsMakeNoTwins == ASSUME Accounting!AccountsAssumption
                             PROVE Accounting!Spec => [][Accounting!NoNewTwins]_(Accounting!vars)
<1>1. Accounting!Init => AccountsTyped
  <2> SUFFICES ASSUME Accounting!Init PROVE AccountsTyped
    OBVIOUS
  <2>1. Accounting!NoRefresh \in [of : Ids \cup {None}, version : Nat, token : AnyToken]
        /\ [token |-> Accounting!NoToken, models |-> {}] \in [token : AnyToken,
             models : SUBSET Models]
    BY TokensAreTokens DEF Accounting!NoRefresh
  <2> QED BY <2>1, SomeAccounts DEF Accounting!Init, AccountsTyped, AnyAccount
<1> QED BY <1>1, AccountsStep, PTL DEF Accounting!Spec

-----------------------------------------------------------------------------
(* Quotas.                                                                 *)

(* The operations, and the gate that one of them holds.                    *)
Operation ==
  [pc : {"idle", "waiting", "usage", "auth", "credits", "build", "consume", "reauth"},
   what : {None, "refresh", "reset"}, observed : Int, version : Int, second : BOOLEAN,
   count : Int \cup {None}, epoch : Int]
Active(c) == quota_op[c].pc \notin {"idle", "waiting"}

QuotaTypes ==
  /\ quota_op \in [QuotaClients -> Operation] /\ quota_queue \in Seq(QuotaClients)
  /\ completed \in Int /\ version \in Int /\ quota_credits \in Nat /\ resets \in Int
  /\ blind = FALSE

(* Only the holder of the gate is past waiting, and what it knows is still *)
(* so: the resets before it, the credits it counted, the version it used.  *)
QuotaActive(c) ==
  Active(c) =>
    /\ Quota!Holds(c)
    /\ quota_op[c].epoch = resets
    /\ quota_op[c].pc \in {"credits", "build"} => quota_op[c].count \in {None, quota_credits}
    /\ quota_op[c].pc \in {"consume", "reauth"} => quota_credits > 0
    /\ quota_op[c].pc \in {"auth", "reauth"} => quota_op[c].version \in rejected
QuotaLast == last # None /\ last.what = "refresh" => last.epoch = resets
QuotaInv ==
  /\ QuotaTypes
  /\ \A c \in QuotaClients : QuotaActive(c)
  /\ QuotaLast
  /\ authFailed \subseteq rejected

LEMMA OneActive ==
  ASSUME QuotaInv, NEW c \in QuotaClients, NEW d \in QuotaClients, Active(c) \/ Quota!Holds(c),
         Active(d)
  PROVE  c = d
BY DEF QuotaInv, QuotaActive, Quota!Holds

(* Leaving the gate at its head changes nobody else.                       *)
LEMMA HolderLeaves ==
  ASSUME QuotaInv, NEW c \in QuotaClients, Quota!Holds(c),
         quota_op' = [quota_op EXCEPT ![c] = Quota!Idle],
         NEW done \in Int, NEW result, Quota!Release(Tail(quota_queue), done, result),
         result # None /\ result.what = "refresh" => result.epoch = resets',
         resets' \in Int, quota_credits' \in Nat, version' \in Int, blind' = FALSE,
         authFailed' \subseteq rejected'
  PROVE  QuotaInv'
<1>1. Quota!Idle \in Operation /\ Quota!Idle.pc = "idle"
  BY DEF Quota!Idle, Operation
<1>2. quota_op' \in [QuotaClients -> Operation]
  BY <1>1 DEF QuotaInv, QuotaTypes
<1>3. quota_queue' \in Seq(QuotaClients) /\ completed' \in Int
  BY DEF QuotaInv, QuotaTypes, Quota!Holds, Quota!Release
<1>4. ASSUME NEW d \in QuotaClients PROVE ~Active(d)'
  <2>1. CASE d = c
    BY <1>1, <2>1 DEF Active, QuotaInv, QuotaTypes
  <2>2. CASE d # c
    BY <2>2, OneActive DEF Active, QuotaInv, QuotaTypes
  <2> QED BY <2>1, <2>2
<1>5. QuotaLast'
  BY DEF QuotaLast, Quota!Release
<1> QED BY <1>2, <1>3, <1>4, <1>5 DEF QuotaInv, QuotaTypes, QuotaActive

LEMMA FinishStep ==
  ASSUME QuotaInv, NEW c \in QuotaClients, Active(c), NEW ok \in BOOLEAN, Quota!Finish(c, ok),
         quota_credits' \in Nat, UNCHANGED version, blind' = FALSE,
           authFailed' \subseteq rejected'
  PROVE  QuotaInv'
<1> DEFINE result == [what |-> quota_op[c].what, ok |-> ok, epoch |-> quota_op[c].epoch]
<1>1. /\ Quota!Release(Tail(quota_queue), completed + 1, result)
      /\ quota_op' = [quota_op EXCEPT ![c] = Quota!Idle]
      /\ resets' = IF quota_op[c].what = "reset" THEN resets + 1 ELSE resets
  BY DEF Quota!Finish
<1>2. quota_op[c].epoch = resets /\ Quota!Holds(c)
  BY DEF QuotaInv, QuotaActive
<1>3. result.what = "refresh" => result.epoch = resets'
  BY <1>1, <1>2
<1>4. completed + 1 \in Int /\ resets' \in Int /\ version' \in Int
  BY <1>1 DEF QuotaInv, QuotaTypes
<1> HIDE DEF result
<1> QED BY <1>1, <1>2, <1>3, <1>4, HolderLeaves

(* The holder goes on, and what it knows is so.                            *)
LEMMA HolderGoesOn ==
  ASSUME QuotaInv, NEW c \in QuotaClients, Quota!Holds(c), NEW o \in Operation,
         quota_op' = [quota_op EXCEPT ![c] = o],
           UNCHANGED <<quota_queue, completed, last, resets, quota_credits, blind>>,
         version' \in Int, authFailed' \subseteq rejected',
         o.pc \notin {"idle", "waiting"} =>
           /\ o.epoch = resets
           /\ o.pc \in {"credits", "build"} => o.count \in {None, quota_credits}
           /\ o.pc \in {"consume", "reauth"} => quota_credits > 0
           /\ o.pc \in {"auth", "reauth"} => o.version \in rejected'
  PROVE  QuotaInv'
<1>1. quota_op' \in [QuotaClients -> Operation] /\ quota_op'[c] = o
  BY DEF QuotaInv, QuotaTypes
<1>2. ASSUME NEW d \in QuotaClients PROVE QuotaActive(d)'
  <2>1. CASE d = c
    BY <1>1, <2>1 DEF QuotaActive, Active, Quota!Holds
  <2>2. CASE d # c
    BY <2>2, OneActive DEF QuotaInv, QuotaTypes, QuotaActive, Active
  <2> QED BY <2>1, <2>2
<1>3. QuotaLast'
  BY DEF QuotaInv, QuotaLast
<1> QED BY <1>1, <1>2, <1>3 DEF QuotaInv, QuotaTypes

LEMMA CallStep ==
  ASSUME QuotaInv, NEW c \in QuotaClients, NEW what \in {"refresh", "reset"}, Quota!Call(c, what)
  PROVE  QuotaInv'
<1> DEFINE o == [Quota!Idle EXCEPT !.pc = "waiting", !.what = what, !.observed = completed]
<1>1. o \in Operation /\ o.pc = "waiting"
  <2>1. Quota!Idle \in Operation
    BY DEF Quota!Idle, Operation
  <2>2. completed \in Int
    BY DEF QuotaInv, QuotaTypes
  <2> QED BY <2>1, <2>2 DEF Operation
<1>2. quota_op' = [quota_op EXCEPT ![c] = o] /\ quota_queue' = Append(quota_queue, c)
      /\ UNCHANGED <<completed, last, version, authFailed, quota_credits, rejected, resets,
           blind>>
  BY DEF Quota!Call, Quota!account, Quota!provider
<1> HIDE DEF o
<1>3. /\ quota_op' \in [QuotaClients -> Operation] /\ quota_op'[c] = o
      /\ \A d \in QuotaClients : d # c => quota_op'[d] = quota_op[d]
  BY <1>1, <1>2 DEF QuotaInv, QuotaTypes
<1>4. quota_queue' \in Seq(QuotaClients) /\ \A d \in QuotaClients : Quota!Holds(d) =>
        Quota!Holds(d)'
  BY <1>2 DEF QuotaInv, QuotaTypes, Quota!Holds
<1>5. ASSUME NEW d \in QuotaClients PROVE QuotaActive(d)'
  <2>1. CASE d = c
    BY <1>1, <1>3, <2>1 DEF QuotaActive, Active
  <2>2. CASE d # c
    BY <1>2, <1>3, <1>4, <2>2 DEF QuotaInv, QuotaActive, Active
  <2> QED BY <2>1, <2>2
<1> QED BY <1>2, <1>3, <1>4, <1>5 DEF QuotaInv, QuotaTypes, QuotaLast

LEMMA QuotaCancelStep ==
  ASSUME QuotaInv, NEW c \in QuotaClients, Quota!Cancel(c)
  PROVE  QuotaInv'
<1> DEFINE Without(i) == [j \in 1..Len(quota_queue) - 1 |-> quota_queue[IF j < i THEN j ELSE j + 1]]
<1>1. PICK i \in 1..Len(quota_queue) : quota_queue[i] = c
        /\ Quota!Release(Without(i), completed, last)
  BY DEF Quota!Cancel
<1>2. Quota!Idle \in Operation /\ Quota!Idle.pc = "idle"
  BY DEF Quota!Idle, Operation
<1>3. quota_op' = [quota_op EXCEPT ![c] = Quota!Idle]
      /\ UNCHANGED <<version, authFailed, rejected, resets, blind>>
  BY DEF Quota!Cancel, Quota!account
<1>4. /\ quota_op' \in [QuotaClients -> Operation] /\ quota_op'[c] = Quota!Idle
      /\ \A d \in QuotaClients : d # c => quota_op'[d] = quota_op[d]
  BY <1>2, <1>3 DEF QuotaInv, QuotaTypes
<1>5. quota_queue \in Seq(QuotaClients) /\ Len(quota_queue) \in Nat
  BY DEF QuotaInv, QuotaTypes
<1>6. quota_queue' = Without(i) /\ completed' \in Int /\ (last' # None => last' = last)
  BY <1>1 DEF Quota!Release, QuotaInv, QuotaTypes
<1>7. Without(i) \in Seq(QuotaClients) /\ Len(Without(i)) = Len(quota_queue) - 1
  BY <1>5
<1>8. ASSUME NEW d \in QuotaClients, d # c, Quota!Holds(d) PROVE Quota!Holds(d)'
  <2>1. quota_queue[1] = d /\ i # 1
    BY <1>1, <1>5, <1>8 DEF Quota!Holds
  <2>2. Len(quota_queue) >= 2
    BY <1>5, <2>1
  <2>3. 1 \in 1..Len(quota_queue) - 1 /\ 1 < i
    BY <1>5, <2>1, <2>2
  <2>4. Without(i)[1] = d
    BY <2>1, <2>3
  <2> HIDE DEF Without
  <2>5. Without(i) # <<>> /\ Head(Without(i)) = Without(i)[1]
    BY <1>5, <1>7, <2>2
  <2> QED BY <1>6, <2>4, <2>5 DEF Quota!Holds
<1>9. quota_credits' \in Nat /\ (quota_op[c].pc # "consume" => quota_credits' = quota_credits)
  BY DEF Quota!Cancel, QuotaInv, QuotaTypes
<1>10. ASSUME NEW d \in QuotaClients PROVE QuotaActive(d)'
  <2>1. CASE d = c
    BY <1>2, <1>4, <2>1 DEF QuotaActive, Active
  <2>2. CASE d # c /\ ~Active(d)
    BY <1>4, <2>2 DEF QuotaActive, Active
  <2>3. CASE d # c /\ Active(d)
    <3>1. ~Active(c)
      BY <2>3, OneActive
    <3>2. quota_credits' = quota_credits
      BY <1>9, <3>1 DEF Active
    <3>3. Quota!Holds(d)'
      BY <1>8, <2>3 DEF QuotaInv, QuotaActive
    <3> QED BY <1>3, <1>4, <2>3, <3>2, <3>3 DEF QuotaInv, QuotaActive, Active
  <2> QED BY <2>1, <2>2, <2>3
<1> QED BY <1>3, <1>4, <1>6, <1>7, <1>9, <1>10 DEF QuotaInv, QuotaTypes, QuotaLast

LEMMA WaiterStep ==
  ASSUME QuotaInv, NEW c \in QuotaClients, Quota!Share(c) \/ Quota!Begin(c)
           \/ Quota!BeginMissing(c)
  PROVE  QuotaInv'
<1>1. CASE Quota!Share(c)
  <2>1. /\ Quota!Holds(c) /\ quota_op' = [quota_op EXCEPT ![c] = Quota!Idle]
        /\ Quota!Release(Tail(quota_queue), completed, last)
        /\ UNCHANGED <<version, authFailed, quota_credits, rejected, resets, blind>>
    BY <1>1 DEF Quota!Share, Quota!account, Quota!provider
  <2>2. last # None /\ last.what = "refresh" => last.epoch = resets'
    BY <2>1 DEF QuotaInv, QuotaLast
  <2>3. /\ completed \in Int /\ resets' \in Int /\ quota_credits' \in Nat /\ version' \in Int
        /\ blind' = FALSE
        /\ authFailed' \subseteq rejected'
    BY <2>1 DEF QuotaInv, QuotaTypes
  <2> QED BY <2>1, <2>2, <2>3, HolderLeaves
<1>2. CASE Quota!Begin(c)
  <2> DEFINE o == [quota_op[c] EXCEPT !.pc = "usage", !.version = version, !.epoch = resets]
  <2>1. o \in Operation /\ o.pc = "usage" /\ o.epoch = resets
    BY DEF Operation, QuotaInv, QuotaTypes
  <2>2. quota_op' = [quota_op EXCEPT ![c] = o] /\ Quota!Holds(c)
        /\ UNCHANGED <<quota_queue, completed, last, version, authFailed, quota_credits,
             rejected, resets, blind>>
    BY <1>2 DEF Quota!Begin, Quota!account, Quota!gate, Quota!provider, Quota!history, QuotaInv,
       QuotaTypes, Operation
  <2> HIDE DEF o
  <2>3. version' \in Int /\ authFailed' \subseteq rejected'
    BY <2>2 DEF QuotaInv, QuotaTypes
  <2> QED BY <2>1, <2>2, <2>3, HolderGoesOn
<1>3. CASE Quota!BeginMissing(c)
  <2> DEFINE result == [what |-> quota_op[c].what, ok |-> FALSE, epoch |-> resets]
  <2>1. /\ Quota!Holds(c) /\ quota_op' = [quota_op EXCEPT ![c] = Quota!Idle]
        /\ Quota!Release(Tail(quota_queue), completed + 1, result)
        /\ resets' = IF quota_op[c].what = "reset" THEN resets + 1 ELSE resets
        /\ UNCHANGED <<version, authFailed, quota_credits, rejected, blind>>
    BY <1>3 DEF Quota!BeginMissing, Quota!account, Quota!provider
  <2>2. result.what = "refresh" => result.epoch = resets'
    BY <2>1
  <2> HIDE DEF result
  <2>3. /\ completed + 1 \in Int /\ resets' \in Int /\ quota_credits' \in Nat /\ version' \in Int
        /\ blind' = FALSE
        /\ authFailed' \subseteq rejected'
    BY <2>1 DEF QuotaInv, QuotaTypes
  <2> QED BY <2>1, <2>2, <2>3, HolderLeaves
<1> QED BY <1>1, <1>2, <1>3

LEMMA RequestStep ==
  ASSUME QuotaInv, NEW c \in QuotaClients,
         \/ Quota!Unauthorized(c) \/ Quota!Refreshed(c) \/ Quota!RefreshRejected(c)
              \/ Quota!RefreshFailed(c) \/ Quota!RequestFails(c)
         \/ Quota!Answered(c) \/ Quota!CreditsRead(c)
  PROVE  QuotaInv'
<1> USE DEF QuotaActive
<1>0. /\ quota_op[c] \in Operation /\ quota_op \in [QuotaClients -> Operation]
      /\ version \in Int /\ quota_credits \in Nat
      /\ blind = FALSE /\ authFailed \subseteq rejected
  BY DEF QuotaInv, QuotaTypes
<1>1. Active(c) /\ Quota!Holds(c) /\ QuotaActive(c)
  BY DEF Quota!Unauthorized, Quota!Refreshed, Quota!RefreshRejected, Quota!RefreshFailed,
     Quota!RequestFails, Quota!Answered, Quota!CreditsRead, Active, QuotaInv
<1>2. CASE Quota!Unauthorized(c)
  <2>1. rejected' = rejected \cup {quota_op[c].version} /\ blind' = FALSE
    <3>1. quota_op[c].pc = "consume" => quota_credits # 0
      BY <1>0, <1>1
    <3>2. ~(quota_op[c].pc = "consume" /\ quota_credits = 0)
      BY <3>1
    <3>3. (blind \/ (quota_op[c].pc = "consume" /\ quota_credits = 0)) = FALSE
      BY <1>0, <3>2, Zenon
    <3> QED BY <1>2, <3>3, Zenon DEF Quota!Unauthorized
  <2>2. CASE quota_op[c].second
    <3>1. /\ Quota!Finish(c, FALSE) /\ UNCHANGED <<version, quota_credits>>
          /\ authFailed' = authFailed \cup {quota_op[c].version}
      BY <1>2, <2>2 DEF Quota!Unauthorized, Quota!Fail, Quota!account,
         Quota!MarkAuthenticationFailed
    <3>2. authFailed' \subseteq rejected'
      BY <1>0, <2>1, <3>1
    <3> QED BY <1>0, <1>1, <2>1, <3>1, <3>2, FinishStep
  <2>3. CASE ~quota_op[c].second
    <3> DEFINE o == [quota_op[c] EXCEPT !.pc = IF @ = "consume" THEN "reauth" ELSE "auth"]
    <3>1. /\ o \in Operation /\ o.epoch = resets /\ o.version \in rejected'
          /\ o.pc \in {"auth", "reauth"}
          /\ o.pc = "reauth" => quota_credits > 0
      BY <1>0, <1>1, <1>2, <2>1 DEF Operation, Quota!Unauthorized
    <3>2. /\ quota_op' = [quota_op EXCEPT ![c] = o]
          /\ UNCHANGED <<quota_queue, completed, last, resets, quota_credits, version,
               authFailed>>
      BY <1>0, <1>2, <2>3 DEF Quota!Unauthorized, Quota!account, Quota!gate, Operation
    <3> HIDE DEF o
    <3>3. version' \in Int /\ authFailed' \subseteq rejected' /\ UNCHANGED blind
      BY <1>0, <2>1, <3>2
    <3> QED BY <1>1, <3>1, <3>2, <3>3, HolderGoesOn
  <2> QED BY <2>2, <2>3
<1>3. CASE Quota!Refreshed(c)
  <2> DEFINE o == [quota_op[c] EXCEPT !.pc = Quota!Attempt(c), !.second = TRUE,
               !.version = version']
  <2>1. version' \in Int
    BY <1>0, <1>3 DEF Quota!Refreshed
  <2>2. /\ o \in Operation /\ o.epoch = resets /\ o.pc \in {"usage", "consume"}
        /\ o.pc = "consume" => quota_credits > 0
    BY <1>0, <1>1, <1>3, <2>1 DEF Operation, Quota!Refreshed, Quota!Attempt
  <2>3. /\ quota_op' = [quota_op EXCEPT ![c] = o]
        /\ UNCHANGED <<quota_queue, completed, last, resets, quota_credits, blind, authFailed,
             rejected>>
    BY <1>0, <1>3 DEF Quota!Refreshed, Quota!gate, Quota!provider, Quota!history, Operation
  <2> HIDE DEF o
  <2>4. authFailed' \subseteq rejected'
    BY <1>0, <2>3
  <2> QED BY <1>1, <2>1, <2>2, <2>3, <2>4, HolderGoesOn
<1>4. CASE Quota!RefreshRejected(c)
  <2>1. /\ Quota!Finish(c, FALSE) /\ UNCHANGED <<version, quota_credits, rejected, blind>>
        /\ authFailed' = authFailed \cup {quota_op[c].version}
    BY <1>4 DEF Quota!RefreshRejected, Quota!Fail, Quota!account, Quota!MarkAuthenticationFailed
  <2>2. quota_op[c].version \in rejected
    BY <1>1, <1>4 DEF Quota!RefreshRejected
  <2>3. authFailed' \subseteq rejected' /\ blind' = FALSE /\ quota_credits' \in Nat
    BY <1>0, <2>1, <2>2
  <2> QED BY <1>1, <2>1, <2>3, FinishStep
<1>5. CASE Quota!RefreshFailed(c) \/ Quota!RequestFails(c)
  <2>1. /\ Quota!Finish(c, FALSE)
        /\ UNCHANGED <<version, quota_credits, rejected, blind, authFailed>>
    BY <1>5 DEF Quota!RefreshFailed, Quota!RequestFails, Quota!Fail, Quota!account
  <2>3. authFailed' \subseteq rejected' /\ blind' = FALSE /\ quota_credits' \in Nat
    BY <1>0, <2>1
  <2> QED BY <1>1, <2>1, <2>3, FinishStep
<1>6. CASE Quota!Answered(c)
  <2>1. PICK count \in {None, quota_credits} : quota_op' = [quota_op EXCEPT ![c].pc = "credits",
          ![c].count = count]
    BY <1>6 DEF Quota!Answered
  <2> DEFINE o == [quota_op[c] EXCEPT !.pc = "credits", !.count = count]
  <2>2. /\ o \in Operation /\ o.epoch = resets /\ o.pc = "credits"
        /\ o.count \in {None, quota_credits}
    <3>1. quota_op[c].epoch = resets /\ count \in Int \cup {None}
      BY <1>0, <1>1, <2>1
    <3>2. o \in Operation
      BY <1>0, <3>1 DEF Operation
    <3>3. o.epoch = quota_op[c].epoch /\ o.pc = "credits" /\ o.count = count
      BY <1>0 DEF Operation
    <3> QED BY <3>1, <3>2, <3>3, <2>1
  <2>3. quota_op' = [quota_op EXCEPT ![c] = o]
    BY <1>0, <2>1 DEF Operation
  <2>4. UNCHANGED <<quota_queue, completed, last, resets, quota_credits, blind, version,
          authFailed, rejected>>
    BY <1>6 DEF Quota!Answered, Quota!account, Quota!gate, Quota!provider, Quota!history
  <2> HIDE DEF o
  <2>5. version' \in Int /\ authFailed' \subseteq rejected'
    BY <1>0, <2>4
  <2> QED BY <1>1, <2>2, <2>3, <2>4, <2>5, HolderGoesOn
<1>7. CASE Quota!CreditsRead(c)
  <2>1. PICK count \in {quota_op[c].count, quota_credits} :
               quota_op' = [quota_op EXCEPT ![c] = [quota_op[c] EXCEPT !.pc = "build", !.count = count]]
    BY <1>0, <1>7 DEF Quota!CreditsRead, Operation
  <2> DEFINE o == [quota_op[c] EXCEPT !.pc = "build", !.count = count]
  <2>2. count \in {None, quota_credits}
    BY <1>1, <1>7, <2>1 DEF Quota!CreditsRead
  <2>3. o \in Operation /\ o.epoch = resets /\ o.pc = "build" /\ o.count \in {None, quota_credits}
    <3>1. quota_op[c].epoch = resets /\ count \in Int \cup {None}
      BY <1>0, <1>1, <2>2
    <3>2. o \in Operation
      BY <1>0, <3>1 DEF Operation
    <3>3. o.epoch = quota_op[c].epoch /\ o.pc = "build" /\ o.count = count
      BY <1>0 DEF Operation
    <3> QED BY <3>1, <3>2, <3>3, <2>2
  <2>4. UNCHANGED <<quota_queue, completed, last, resets, quota_credits, blind, version,
          authFailed, rejected>>
    BY <1>7 DEF Quota!CreditsRead, Quota!account, Quota!gate, Quota!provider, Quota!history
  <2>5. quota_op' = [quota_op EXCEPT ![c] = o]
    BY <2>1
  <2> HIDE DEF o
  <2>6. version' \in Int /\ authFailed' \subseteq rejected'
    BY <1>0, <2>4
  <2> QED BY <1>1, <2>3, <2>4, <2>5, <2>6, HolderGoesOn
<1> QED BY <1>2, <1>3, <1>4, <1>5, <1>6, <1>7

LEMMA BuildStep ==
  ASSUME QuotaInv, NEW c \in QuotaClients, Quota!Build(c) \/ Quota!Consumed(c)
           \/ Quota!ConsumeFails(c)
  PROVE  QuotaInv'
<1> USE DEF QuotaActive
<1>0. /\ quota_op[c] \in Operation /\ quota_op \in [QuotaClients -> Operation]
      /\ version \in Int /\ quota_credits \in Nat
      /\ blind = FALSE /\ authFailed \subseteq rejected
  BY DEF QuotaInv, QuotaTypes
<1>1. Active(c) /\ Quota!Holds(c) /\ QuotaActive(c)
  BY DEF Quota!Build, Quota!Consumed, Quota!ConsumeFails, Active, QuotaInv
<1>2. CASE Quota!Build(c)
  <2>1. UNCHANGED <<version, authFailed, quota_credits, rejected, blind>>
    BY <1>2 DEF Quota!Build, Quota!account, Quota!provider
  <2>2. /\ authFailed' \subseteq rejected' /\ blind' = FALSE /\ quota_credits' \in Nat
        /\ version' \in Int
    BY <1>0, <2>1
  <2>3. CASE Quota!Finish(c, TRUE) \/ Quota!Finish(c, FALSE)
    BY <1>1, <2>1, <2>2, <2>3, FinishStep
  <2>4. CASE ~(Quota!Finish(c, TRUE) \/ Quota!Finish(c, FALSE))
    <3> DEFINE o == [quota_op[c] EXCEPT !.pc = "consume", !.version = version, !.second = FALSE]
    <3>1. quota_op[c].count # None /\ quota_op[c].count # 0 /\ quota_op[c].pc = "build"
      BY <1>2, <2>4 DEF Quota!Build
    <3>2. quota_credits > 0
      BY <1>0, <1>1, <3>1
    <3>3. o \in Operation /\ o.epoch = resets /\ o.pc = "consume"
      BY <1>0, <1>1 DEF Operation
    <3>4. /\ quota_op' = [quota_op EXCEPT ![c].pc = "consume", ![c].version = version,
               ![c].second = FALSE]
          /\ UNCHANGED <<Quota!gate, resets, reply>>
      BY <1>2, <2>4 DEF Quota!Build
    <3>5. /\ quota_op' = [quota_op EXCEPT ![c] = o]
          /\ UNCHANGED <<quota_queue, completed, last, resets>>
      BY <1>0, <3>4 DEF Quota!gate, Operation
    <3> HIDE DEF o
    <3> QED BY <1>1, <2>1, <2>2, <3>2, <3>3, <3>5, HolderGoesOn
  <2> QED BY <2>3, <2>4
<1>3. CASE Quota!Consumed(c) \/ Quota!ConsumeFails(c)
  <2>1. quota_op[c].pc = "consume" /\ quota_credits > 0
    BY <1>1, <1>3 DEF Quota!Consumed, Quota!ConsumeFails
  <2>2. /\ Quota!Finish(c, TRUE) \/ Quota!Finish(c, FALSE)
        /\ quota_credits' \in Nat /\ blind' = FALSE /\ UNCHANGED <<version, authFailed, rejected>>
    <3>1. (blind \/ quota_credits = 0) = FALSE
      <4>1. ~(quota_credits = 0)
        BY <1>0, <2>1
      <4> QED BY <1>0, <4>1, Zenon
    <3>2. quota_credits' \in Nat
      <4>1. quota_credits - 1 \in Nat
        BY <1>0, <2>1
      <4>2. quota_credits' \in {quota_credits, quota_credits - 1}
        BY <1>3, <2>1 DEF Quota!Consumed, Quota!ConsumeFails
      <4> QED BY <1>0, <4>1, <4>2
    <3>3. blind' = (blind \/ quota_credits = 0) /\ UNCHANGED <<version, authFailed, rejected>>
      BY <1>3 DEF Quota!Consumed, Quota!ConsumeFails, Quota!account
    <3>4. Quota!Finish(c, TRUE) \/ Quota!Finish(c, FALSE)
      BY <1>3 DEF Quota!Consumed, Quota!ConsumeFails
    <3>5. blind' = FALSE
      BY <3>1, <3>3, Zenon
    <3> QED BY <3>2, <3>3, <3>4, <3>5
  <2>3. authFailed' \subseteq rejected'
    BY <1>0, <2>2
  <2> QED BY <1>1, <2>2, <2>3, FinishStep
<1> QED BY <1>2, <1>3

LEMMA QuotaStep ==
  ASSUME QuotaInv, [Quota!Next]_(Quota!vars)
  PROVE  QuotaInv'
<1>1. CASE Quota!Rotate \/ Quota!Delete \/ UNCHANGED Quota!vars
  <2>1. /\ UNCHANGED <<quota_op, quota_queue, completed, last, authFailed, quota_credits,
             rejected, resets, blind>>
        /\ version' \in Int
    BY <1>1 DEF Quota!Rotate, Quota!Delete, Quota!vars, Quota!gate, Quota!provider,
       Quota!history, QuotaInv, QuotaTypes
  <2> QED BY <2>1 DEF QuotaInv, QuotaTypes, QuotaActive, Active, Quota!Holds, QuotaLast
<1> QED BY <1>1, CallStep, QuotaCancelStep, WaiterStep, RequestStep, BuildStep DEF Quota!Next,
           Quota!Step

(* A reply is of the resets before it.                                     *)
LEMMA RepliesAreFresh ==
  ASSUME QuotaInv, [Quota!Next]_(Quota!vars)
  PROVE  Quota!RefreshSeesResets
<1> SUFFICES ASSUME NEW d \in QuotaClients, reply'[d] # reply[d] PROVE reply'[d].epoch = resets
  BY DEF Quota!RefreshSeesResets
<1>1. ASSUME NEW c \in QuotaClients, Active(c), NEW ok \in BOOLEAN, Quota!Finish(c, ok)
      PROVE  reply'[d].epoch = resets
  <2>1. reply' = [reply EXCEPT ![c] = [what |-> quota_op[c].what, ok |-> ok,
          epoch |-> quota_op[c].epoch]]
    BY <1>1 DEF Quota!Finish
  <2>2. reply'[d] = [what |-> quota_op[c].what, ok |-> ok, epoch |-> quota_op[c].epoch]
    BY <2>1
  <2>3. quota_op[c].epoch = resets
    BY <1>1 DEF QuotaInv, QuotaActive
  <2> QED BY <2>2, <2>3
<1>2. ASSUME NEW c \in QuotaClients, Quota!Share(c) PROVE reply'[d].epoch = resets
  <2>1. reply' = [reply EXCEPT ![c] = last] /\ last # None /\ last.what = "refresh"
    BY <1>2 DEF Quota!Share, Quota!Shareable
  <2>2. reply'[d] = last
    BY <2>1
  <2> QED BY <2>1, <2>2 DEF QuotaInv, QuotaLast
<1>3. ASSUME NEW c \in QuotaClients, Quota!BeginMissing(c) PROVE reply'[d].epoch = resets
  <2>1. reply' = [reply EXCEPT ![c] = [what |-> quota_op[c].what, ok |-> FALSE, epoch |-> resets]]
    BY <1>3 DEF Quota!BeginMissing
  <2>2. reply'[d] = [what |-> quota_op[c].what, ok |-> FALSE, epoch |-> resets]
    BY <2>1
  <2> QED BY <2>2
<1>4. ASSUME NEW c \in QuotaClients,
             Quota!Call(c, "refresh") \/ Quota!Call(c, "reset") \/ Quota!Cancel(c)
               \/ Quota!Begin(c) \/ Quota!Refreshed(c)
             \/ Quota!Answered(c) \/ Quota!CreditsRead(c)
      PROVE  FALSE
  BY <1>4 DEF Quota!Call, Quota!Cancel, Quota!Begin, Quota!Refreshed, Quota!Answered,
     Quota!CreditsRead, Quota!history
<1>5. CASE Quota!Rotate \/ Quota!Delete \/ UNCHANGED Quota!vars
  BY <1>5 DEF Quota!Rotate, Quota!Delete, Quota!vars, Quota!history
<1>6. ASSUME NEW c \in QuotaClients, Quota!Unauthorized(c) \/ Quota!RefreshRejected(c)
               \/ Quota!RefreshFailed(c) \/ Quota!RequestFails(c)
      PROVE  reply'[d].epoch = resets
  <2>1. Active(c)
    BY <1>6 DEF Quota!Unauthorized, Quota!RefreshRejected, Quota!RefreshFailed,
       Quota!RequestFails, Active
  <2>2. Quota!Finish(c, FALSE)
    BY <1>6 DEF Quota!Unauthorized, Quota!RefreshRejected, Quota!RefreshFailed,
       Quota!RequestFails, Quota!Fail
  <2> QED BY <1>1, <2>1, <2>2
<1>7. ASSUME NEW c \in QuotaClients, Quota!Build(c) \/ Quota!Consumed(c) \/ Quota!ConsumeFails(c)
      PROVE  reply'[d].epoch = resets
  <2>1. Active(c)
    BY <1>7 DEF Quota!Build, Quota!Consumed, Quota!ConsumeFails, Active
  <2>2. Quota!Finish(c, FALSE) \/ Quota!Finish(c, TRUE)
    BY <1>7 DEF Quota!Build, Quota!Consumed, Quota!ConsumeFails
  <2> QED BY <1>1, <2>1, <2>2
<1> QED BY <1>2, <1>3, <1>4, <1>5, <1>6, <1>7 DEF Quota!Next, Quota!Step

LEMMA QuotaStart == ASSUME Quota!QuotaAssumption, Quota!Init PROVE QuotaInv
<1>1. Quota!Idle \in Operation /\ Quota!Idle.pc = "idle"
  BY DEF Quota!Idle, Operation
<1>2. quota_op \in [QuotaClients -> Operation] /\ \A c \in QuotaClients : quota_op[c].pc = "idle"
  BY <1>1 DEF Quota!Init
<1> QED BY <1>2 DEF Quota!Init, QuotaInv, QuotaTypes, QuotaActive, Active, QuotaLast,
           Quota!QuotaAssumption

(* A reset is sent only when a credit is left for it, and a token is       *)
(* blamed only if the provider has refused it, for any number of callers   *)
(* that come, wait, share and go away (coordinator.rs, authentication.rs). *)
THEOREM QuotasAreSpentKnowingly == ASSUME Quota!QuotaAssumption
                                   PROVE Quota!Spec
                                           => [](Quota!NoBlindReset /\ Quota!BlameIsEarned)
<1>1. QuotaInv => Quota!NoBlindReset /\ Quota!BlameIsEarned
  BY DEF QuotaInv, QuotaTypes, Quota!NoBlindReset, Quota!BlameIsEarned
<1> QED BY <1>1, QuotaStart, QuotaStep, PTL DEF Quota!Spec

(* A refresh, shared or its own, returns nothing observed before a reset   *)
(* that has completed (coordinator.rs refresh).                            *)
THEOREM RefreshesSeeResets == ASSUME Quota!QuotaAssumption
                              PROVE Quota!Spec => [][Quota!RefreshSeesResets]_(Quota!vars)
<1> QED BY QuotaStart, QuotaStep, RepliesAreFresh, PTL DEF Quota!Spec

-----------------------------------------------------------------------------
(* Usage estimates.                                                        *)

(* The window that is kept: it has a cycle, and what may be made of its    *)
(* cost was measured with the identity that is kept beside it.             *)
IsWindow(w) == w = Usage!Measured(w.cycle, w.cost, w.percent, w.takeover, w.eligible)
  /\ w.cycle # None
WindowInv(state, known) ==
  state # None /\ state.window # None =>
    /\ IsWindow(state.window)
    /\ state.window.eligible => known \subseteq Usage!Identity(state.fingerprint, state.tier)
UsageInv ==
  /\ Usage!Previous # None => Usage!HasCostUnit
  /\ WindowInv(Usage!Previous, usage_seen)

LEMMA MeasuredWindow ==
  ASSUME NEW window, NEW previous, NEW usable, NEW eligible, NEW costs, window.cycle # None
  PROVE  LET w == Usage!Measure(window, previous, usable, eligible, costs)
         IN  IsWindow(w) /\ w.cycle = window.cycle /\ w.eligible = eligible
BY DEF Usage!Measure, Usage!Measured, IsWindow

LEMMA FrozenWindow ==
  ASSUME NEW window, NEW previous, NEW usable, NEW eligible, NEW costs,
         previous # None, previous.cycle = window.cycle, previous.takeover, previous.cost # None
  PROVE  Usage!Measure(window, previous, usable, eligible, costs).cost = previous.cost
BY DEF Usage!Measure, Usage!Measured

(* What an observation keeps of the window before it.                      *)
LEMMA ObservedWindow ==
  ASSUME NEW u, NEW previous, NEW fingerprint, NEW costs, NEW known,
         WindowInv(previous, known)
  PROVE  LET state == Usage!Observe(u, previous, fingerprint, costs)
             all == IF Usage!CycleOf(state) = Usage!CycleOf(previous)
                    THEN known \cup Usage!Identity(fingerprint,
                      u.tier) ELSE Usage!Identity(fingerprint, u.tier)
         IN  WindowInv(state, all)
<1> DEFINE state    == Usage!Observe(u, previous, fingerprint, costs)
           own      == Usage!Identity(fingerprint, u.tier)
           all      == IF Usage!CycleOf(state) = Usage!CycleOf(previous) THEN known \cup own ELSE own
           changed  ==
             /\ previous # None
             /\ \/ previous.fingerprint # fingerprint
                \/ u.tier # None /\ previous.tier # None /\ u.tier # previous.tier
           old      == IF previous = None THEN None ELSE previous.window
           blocked  == IF old = None THEN None ELSE [old EXCEPT !.eligible = @ /\ ~changed]
           measured == u.window # None /\ u.window.cycle # None
           eligible == ~changed /\ (old = None \/ old.cycle # u.window.cycle \/ old.eligible)
<1>1. /\ state.fingerprint = fingerprint
      /\ state.tier = IF u.tier # None THEN u.tier ELSE IF previous = None THEN None ELSE previous.tier
      /\ state.window = IF measured THEN Usage!Measure(u.window, old, u.credits, eligible,
           costs) ELSE blocked
  BY DEF Usage!Observe
<1> HIDE DEF state
<1>2. own \subseteq Usage!Identity(state.fingerprint, state.tier)
  BY <1>1 DEF Usage!Identity
<1>3. ASSUME old # None, ~changed, old.eligible
      PROVE  known \subseteq Usage!Identity(state.fingerprint, state.tier)
  <2>1. previous # None /\ known \subseteq Usage!Identity(previous.fingerprint, previous.tier)
    BY <1>3 DEF WindowInv
  <2>2. previous.fingerprint = fingerprint /\ (previous.tier = None \/ previous.tier = state.tier)
    BY <1>1, <1>3, <2>1
  <2> QED BY <1>1, <2>1, <2>2 DEF Usage!Identity
<1>4. ASSUME state # None, state.window # None
      PROVE  /\ IsWindow(state.window)
             /\ Usage!CycleOf(state) = Usage!CycleOf(previous) =>
                  old # None /\ old.cycle = state.window.cycle
             /\ state.window.eligible /\ Usage!CycleOf(state) = Usage!CycleOf(previous) =>
                  ~changed /\ old.eligible
  <2>1. CASE measured
    <3>1. /\ IsWindow(state.window) /\ state.window.cycle = u.window.cycle
          /\ state.window.eligible = eligible
      BY <1>1, <2>1, MeasuredWindow
    <3>2. Usage!CycleOf(state) = u.window.cycle /\ u.window.cycle # None
      BY <1>4, <2>1, <3>1 DEF Usage!CycleOf
    <3>3. Usage!CycleOf(state) = Usage!CycleOf(previous) =>
            old # None /\ old.cycle = u.window.cycle
      BY <3>2 DEF Usage!CycleOf
    <3> QED BY <3>1, <3>3
  <2>2. CASE ~measured
    <3>1. old # None /\ state.window = [old EXCEPT !.eligible = @ /\ ~changed]
      BY <1>1, <1>4, <2>2
    <3>2. IsWindow(old)
      BY <3>1 DEF WindowInv
    <3> HIDE DEF changed, old
    <3>3. /\ IsWindow(state.window) /\ state.window.cycle = old.cycle
          /\ state.window.eligible = (old.eligible /\ ~changed)
      BY <3>1, <3>2 DEF IsWindow, Usage!Measured
    <3> QED BY <3>1, <3>3
  <2> QED BY <2>1, <2>2
<1>5. ASSUME state # None, state.window # None, state.window.eligible
      PROVE  all \subseteq Usage!Identity(state.fingerprint, state.tier)
  BY <1>2, <1>3, <1>4, <1>5
<1> QED BY <1>4, <1>5 DEF WindowInv, state

LEMMA UsageStep ==
  ASSUME UsageInv, [Usage!Next]_(Usage!vars)
  PROVE  UsageInv'
<1>1. CASE UNCHANGED <<kind, usage_stored, usage_seen>>
  BY <1>1 DEF UsageInv, Usage!Previous, Usage!HasCostUnit
<1>2. CASE Usage!Reset \/ Usage!Spend \/ Usage!NextCycle \/ UNCHANGED Usage!vars
  BY <1>1, <1>2 DEF Usage!Reset, Usage!Spend, Usage!NextCycle, Usage!vars
<1>3. ASSUME NEW p \in Payloads, NEW bearer \in Bearers, Usage!Query(p, bearer) PROVE UsageInv'
  <2>1. PICK u \in Usage!Completions(p) : Usage!Observation(u, bearer)
    BY <1>3 DEF Usage!Query
  <2> DEFINE costs == [k \in Cycles |-> Usage!LocalCost(k)]
             state == IF Usage!HasCostUnit THEN Usage!Observe(u, Usage!Previous,
               Usage!Fingerprint(bearer), costs) ELSE None
             known == Usage!Identity(Usage!Fingerprint(bearer), u.tier)
  <2>2. CASE UNCHANGED <<usage_stored, usage_seen>>
    BY <1>1, <1>3, <2>2 DEF Usage!Query
  <2>3. CASE ~UNCHANGED <<usage_stored, usage_seen>>
    <3>1. /\ usage_stored' = [usage |-> [u EXCEPT !.status = Usage!Synchronize(u)],
               state |-> state]
          /\ usage_seen' = IF Usage!CycleOf(state) = Usage!CycleOf(Usage!Previous)
                             THEN usage_seen \cup known ELSE known
      BY <2>1, <2>3 DEF Usage!Observation
    <3>2. UNCHANGED kind
      BY <1>3 DEF Usage!Query
    <3>3. Usage!Previous' = None \/ Usage!Previous' = state
      BY <3>1 DEF Usage!Previous
    <3>4. CASE Usage!HasCostUnit
      <4>1. state = Usage!Observe(u, Usage!Previous, Usage!Fingerprint(bearer), costs)
        BY <3>4
      <4> HIDE DEF state, costs
      <4>2. WindowInv(state, usage_seen')
        BY <3>1, <4>1, ObservedWindow DEF UsageInv
      <4> QED BY <3>2, <3>3, <3>4, <4>2 DEF UsageInv, Usage!HasCostUnit, WindowInv
    <3>5. CASE ~Usage!HasCostUnit
      <4>1. state = None
        BY <3>5
      <4> QED BY <3>3, <4>1 DEF UsageInv, WindowInv
    <3> QED BY <3>4, <3>5
  <2> QED BY <2>2, <2>3
<1> QED BY <1>2, <1>3 DEF Usage!Next

LEMMA AtMostOne == \A S : (\E x : \A y \in S : y = x) => Usage!Cardinality(S) <= 1
<1> SUFFICES ASSUME NEW S, NEW x, \A y \in S : y = x PROVE Usage!Cardinality(S) <= 1
  OBVIOUS
<1>1. S = {} \/ S = {x}
  OBVIOUS
<1>2. \A T : Usage!Cardinality(T) = Cardinality(T)
  BY DEF Usage!Cardinality, Cardinality, Usage!IsFiniteSet, IsFiniteSet
<1>3. Cardinality({}) = 0 /\ Cardinality({x}) = 1
  BY FS_EmptySet, FS_Singleton
<1>4. CASE S = {}
  BY <1>2, <1>3, <1>4
<1>5. CASE S = {x}
  BY <1>2, <1>3, <1>5
<1> QED BY <1>1, <1>4, <1>5

LEMMA CapacityIsOwn == ASSUME UsageInv PROVE Usage!CapacityOfOneIdentity
<1> DEFINE shown == Usage!Project(usage_stored.usage, usage_stored.state)
<1> SUFFICES ASSUME usage_stored # None, shown # None, shown.capacity # None
             PROVE  /\ Usage!Cardinality({i \in usage_seen : i[1] = "fingerprint"}) <= 1
                    /\ Usage!Cardinality({i \in usage_seen : i[1] = "tier"}) <= 1
  BY DEF Usage!CapacityOfOneIdentity
<1>1. /\ Usage!Previous = usage_stored.state /\ Usage!Previous # None
      /\ Usage!Previous.window # None
      /\ shown.capacity = Usage!CapacityCost(Usage!Previous.window)
  BY DEF Usage!Project, Usage!Previous
<1>2. Usage!Previous.window.eligible
  BY <1>1 DEF Usage!CapacityCost
<1>3. usage_seen \subseteq Usage!Identity(Usage!Previous.fingerprint, Usage!Previous.tier)
  BY <1>1, <1>2 DEF UsageInv, WindowInv
<1>4. ASSUME NEW i \in usage_seen
      PROVE  /\ i[1] = "fingerprint" => i = <<"fingerprint", Usage!Previous.fingerprint>>
             /\ i[1] = "tier" => i = <<"tier", Usage!Previous.tier>>
  BY <1>3 DEF Usage!Identity
<1> DEFINE F == {i \in usage_seen : i[1] = "fingerprint"}
           T == {i \in usage_seen : i[1] = "tier"}
<1>5. (\E x : \A y \in F : y = x) /\ (\E x : \A y \in T : y = x)
  BY <1>4
<1> HIDE DEF F, T
<1>6. Usage!Cardinality(F) <= 1
  BY <1>5, AtMostOne, Zenon
<1>7. Usage!Cardinality(T) <= 1
  BY <1>5, AtMostOne, Zenon
<1> QED BY <1>6, <1>7, Zenon DEF F, T

LEMMA EstimateStays == ASSUME UsageInv, [Usage!Next]_(Usage!vars) PROVE Usage!FrozenEstimate
<1> DEFINE w == Usage!Previous.window
           v == usage_stored'.state.window
<1> SUFFICES ASSUME usage_stored # None, usage_stored' # None, usage_stored.state # None,
                    w # None, w.takeover, w.cost # None,
                    v.cycle = w.cycle
             PROVE  v.cost = w.cost
  BY DEF Usage!FrozenEstimate
<1>1. /\ Usage!Previous = usage_stored.state /\ Usage!Previous # None /\ IsWindow(w)
      /\ Usage!HasCostUnit
  BY DEF Usage!Previous, UsageInv, WindowInv
<1>2. CASE UNCHANGED usage_stored
  BY <1>1, <1>2 DEF Usage!Previous
<1>3. CASE Usage!Reset \/ Usage!Spend \/ Usage!NextCycle \/ UNCHANGED Usage!vars
  BY <1>2, <1>3 DEF Usage!Reset, Usage!Spend, Usage!NextCycle, Usage!vars
<1>4. ASSUME NEW p \in Payloads, NEW bearer \in Bearers, Usage!Query(p, bearer)
      PROVE v.cost = w.cost
  <2>1. PICK u \in Usage!Completions(p) : Usage!Observation(u, bearer)
    BY <1>4 DEF Usage!Query
  <2> DEFINE costs    == [k \in Cycles |-> Usage!LocalCost(k)]
             state    == Usage!Observe(u, Usage!Previous, Usage!Fingerprint(bearer), costs)
  <2>2. CASE ~UNCHANGED usage_stored
    <3>1. usage_stored' = [usage |-> [u EXCEPT !.status = Usage!Synchronize(u)], state |-> state]
      BY <1>1, <2>1, <2>2 DEF Usage!Observation
    <3>2. v = state.window
      BY <3>1
    <3>3. \/ \E eligible \in BOOLEAN :
               /\ u.window.cycle # None
               /\ state.window = Usage!Measure(u.window, w, u.credits, eligible, costs)
          \/ \E b : state.window = [w EXCEPT !.eligible = b]
      BY <1>1 DEF Usage!Observe
    <3> HIDE DEF state, costs, w
    <3>4. ASSUME NEW eligible \in BOOLEAN, u.window.cycle # None,
                 state.window = Usage!Measure(u.window, w, u.credits, eligible, costs)
          PROVE  v.cost = w.cost
      <4>1. v.cycle = u.window.cycle
        BY <3>2, <3>4, MeasuredWindow
      <4> QED BY <3>2, <3>4, <4>1, FrozenWindow DEF w
    <3>5. ASSUME NEW b, state.window = [w EXCEPT !.eligible = b] PROVE v.cost = w.cost
      BY <1>1, <3>2, <3>5 DEF IsWindow, Usage!Measured
    <3> QED BY <3>3, <3>4, <3>5
  <2> QED BY <1>2, <2>2
<1> QED BY <1>3, <1>4 DEF Usage!Next

LEMMA UsageStart == ASSUME Usage!Init PROVE UsageInv
BY DEF Usage!Init, UsageInv, Usage!Previous, WindowInv

(* A capacity is shown only when all measurements of its cycle were of one *)
(* credential and one tier, whatever answers and tokens there are          *)
(* (OAuthQuotaEstimator::observe).                                         *)
THEOREM CapacitiesAreOwn == Usage!Spec => []Usage!CapacityOfOneIdentity
<1> QED BY UsageStart, UsageStep, CapacityIsOwn, PTL DEF Usage!Spec

(* What a window held when purchased credits took it over is not measured  *)
(* again in that cycle (cycle.rs measure).                                 *)
THEOREM EstimatesStayFrozen == Usage!Spec => [][Usage!FrozenEstimate]_(Usage!vars)
<1> QED BY UsageStart, UsageStep, EstimateStays, PTL DEF Usage!Spec

-----------------------------------------------------------------------------
(* The refreshes that traffic causes.                                      *)

(* An account that is due has kept its distance, or will have by then.     *)
Spaced(e) ==
  e.due # None /\ e.last # None => e.last >= RefreshInterval \/ e.due >= RefreshInterval - e.last
ActivityInv ==
  /\ activity = [a \in Accounts |-> activity[a]]
  /\ running = [a \in Accounts |-> running[a]]
  /\ \A a \in Accounts :
       /\ activity[a] # None => activity[a] \in Activity!Entry /\ Spaced(activity[a])
       /\ running[a] # None => activity[a] # None /\ activity[a].inFlight

LEMMA MaxOfTwo == ASSUME NEW x \in Int, NEW y \in Int
                  PROVE  /\ Activity!Max({x, y}) \in Int /\ Activity!Max({x, y}) >= x
                         /\ Activity!Max({x, y}) >= y
<1>1. \E m \in {x, y} : \A z \in {x, y} : m >= z
  OBVIOUS
<1>2. Activity!Max({x, y}) \in {x, y} /\ \A z \in {x, y} : Activity!Max({x, y}) >= z
  BY <1>1 DEF Activity!Max
<1> QED BY <1>2

LEMMA MinOfTwo == ASSUME NEW x \in Int, NEW y \in Int
                  PROVE  Activity!Min({x, y}) \in {x, y}
<1>1. \E m \in {x, y} : \A z \in {x, y} : m =< z
  OBVIOUS
<1> QED BY <1>1 DEF Activity!Min

LEMMA DistanceKept ==
  ASSUME Activity!ActivityAssumption, NEW e, e \in Activity!Entry, NEW least \in {0, Debounce}
  PROVE  LET when == Activity!Max({Activity!Distance(e), least})
         IN  when \in Int /\ (e.last # None => when >= RefreshInterval - e.last)
<1>1. Activity!Distance(e) \in Int /\ least \in Int
  BY DEF Activity!Distance, Activity!Entry, Activity!ActivityAssumption
<1>2. e.last # None => Activity!Distance(e) = RefreshInterval - e.last
  BY DEF Activity!Distance
<1>3. /\ Activity!Max({Activity!Distance(e), least}) \in Int
      /\ Activity!Max({Activity!Distance(e), least}) >= Activity!Distance(e)
  BY <1>1, MaxOfTwo
<1> QED BY <1>1, <1>2, <1>3

LEMMA RecordSpaced ==
  ASSUME Activity!ActivityAssumption, ActivityInv, NEW a \in Accounts, Activity!Record(a)
  PROVE  ActivityInv'
<1> DEFINE kept  == IF Activity!PruneIdle(a) = None THEN Activity!Fresh ELSE Activity!PruneIdle(a)
           when   == Activity!Max({Activity!Distance(kept), Debounce})
           entry == IF kept.inFlight THEN [kept EXCEPT !.dirty = TRUE]
                    ELSE IF kept.due # None THEN kept ELSE [kept EXCEPT !.due = when]
<1>1. /\ activity' = [b \in Accounts |-> IF b = a THEN entry ELSE Activity!PruneIdle(b)]
      /\ UNCHANGED running
  BY DEF Activity!Record
<1>2. \A b \in Accounts :
        /\ Activity!PruneIdle(b) \in {activity[b], None}
        /\ activity[b].inFlight => Activity!PruneIdle(b) = activity[b]
  BY DEF Activity!PruneIdle
<1>3. kept \in Activity!Entry /\ Spaced(kept)
  <2>1. Activity!Fresh \in Activity!Entry /\ Spaced(Activity!Fresh)
    BY DEF Activity!Fresh, Activity!Entry, Spaced
  <2> QED BY <1>2, <2>1 DEF ActivityInv
<1>4. running[a] # None => kept.inFlight
  BY <1>2 DEF ActivityInv
<1>5. entry \in Activity!Entry /\ Spaced(entry) /\ (kept.inFlight => entry.inFlight)
  <2> HIDE DEF kept
  <2>1. when \in Int /\ (kept.last # None => when >= RefreshInterval - kept.last)
    BY <1>3, DistanceKept
  <2> HIDE DEF when
  <2>2. CASE kept.inFlight
    <3>1. entry = [kept EXCEPT !.dirty = TRUE]
      BY <2>2
    <3> HIDE DEF entry
    <3>2. /\ entry \in Activity!Entry /\ entry.due = kept.due /\ entry.last = kept.last
          /\ entry.inFlight = kept.inFlight
      BY <1>3, <3>1 DEF Activity!Entry
    <3> QED BY <1>3, <3>2 DEF Spaced
  <2>3. CASE ~kept.inFlight /\ kept.due # None
    BY <1>3, <2>3
  <2>4. CASE ~kept.inFlight /\ kept.due = None
    <3>1. entry = [kept EXCEPT !.due = when]
      BY <2>4
    <3> HIDE DEF entry
    <3>2. entry \in Activity!Entry /\ entry.due = when /\ entry.last = kept.last
      BY <1>3, <2>1, <3>1 DEF Activity!Entry
    <3> QED BY <2>1, <2>4, <3>2 DEF Spaced
  <2> QED BY <2>2, <2>3, <2>4
<1> HIDE DEF entry, kept
<1>6. \A b \in Accounts : activity'[b] = IF b = a THEN entry ELSE Activity!PruneIdle(b)
  BY <1>1
<1>7. entry # None
  BY <1>5 DEF Activity!ActivityAssumption
<1>8. ASSUME NEW b \in Accounts
      PROVE  /\ activity'[b] # None => activity'[b] \in Activity!Entry /\ Spaced(activity'[b])
             /\ running[b] # None => activity'[b] # None /\ activity'[b].inFlight
  <2>1. CASE b = a
    BY <1>4, <1>5, <1>6, <1>7, <2>1
  <2>2. CASE b # a
    BY <1>2, <1>6, <2>2 DEF ActivityInv
  <2> QED BY <2>1, <2>2
<1> QED BY <1>1, <1>8 DEF ActivityInv

LEMMA CompleteSpaced ==
  ASSUME Activity!ActivityAssumption, ActivityInv, NEW a \in Accounts, Activity!Complete(a)
  PROVE  ActivityInv'
<1> DEFINE e     == activity[a]
           when   == IF e.dirty THEN Activity!Max({Activity!Distance(e), 0}) ELSE e.due
           entry == [e EXCEPT !.inFlight = FALSE, !.dirty = FALSE, !.due = when]
<1>1. e \in Activity!Entry /\ Spaced(e)
  BY DEF ActivityInv, Activity!Complete
<1>2. activity' = [activity EXCEPT ![a] = entry] /\ running' = [running EXCEPT ![a] = None]
  BY DEF Activity!Complete
<1> HIDE DEF e
<1>3. /\ when \in Int \cup {None}
      /\ (when # None /\ e.last # None =>
           e.last >= RefreshInterval \/ when >= RefreshInterval - e.last)
  <2>1. CASE e.dirty
    BY <1>1, <2>1, DistanceKept
  <2>2. CASE ~e.dirty
    BY <1>1, <2>2 DEF Activity!Entry, Spaced
  <2> QED BY <2>1, <2>2
<1> HIDE DEF when
<1>4. entry \in Activity!Entry /\ entry.due = when /\ entry.last = e.last
  BY <1>1, <1>3 DEF Activity!Entry
<1> HIDE DEF entry
<1>5. Spaced(entry)
  BY <1>3, <1>4 DEF Spaced
<1>6. ASSUME NEW b \in Accounts
      PROVE  /\ activity'[b] # None => activity'[b] \in Activity!Entry /\ Spaced(activity'[b])
             /\ running'[b] # None => activity'[b] # None /\ activity'[b].inFlight
  <2>1. CASE b = a
    <3>1. activity'[b] = entry /\ running'[b] = None
      BY <1>2, <2>1 DEF ActivityInv
    <3> QED BY <1>4, <1>5, <3>1
  <2>2. CASE b # a
    <3>1. activity'[b] = activity[b] /\ running'[b] = running[b]
      BY <1>2, <2>2 DEF ActivityInv
    <3> QED BY <3>1 DEF ActivityInv
  <2> QED BY <2>1, <2>2
<1> QED BY <1>2, <1>6 DEF ActivityInv

LEMMA LoopSpaced == ASSUME Activity!ActivityAssumption, ActivityInv, Activity!Loop
                    PROVE ActivityInv'
<1>1. PICK S \in SUBSET Activity!DueNow :
        /\ activity' = [a \in Accounts |->
             IF a \in S THEN [activity[a] EXCEPT !.due = None, !.inFlight = TRUE,
               !.last = 0] ELSE activity[a]]
        /\ running' = [a \in Accounts |-> IF a \in S THEN 0 ELSE running[a]]
  BY DEF Activity!Loop
<1>2. ASSUME NEW a \in Accounts
      PROVE  /\ activity'[a] # None => activity'[a] \in Activity!Entry /\ Spaced(activity'[a])
             /\ running'[a] # None => activity'[a] # None /\ activity'[a].inFlight
  <2>1. CASE a \in S
    <3> DEFINE e     == activity[a]
               entry == [e EXCEPT !.due = None, !.inFlight = TRUE, !.last = 0]
    <3>1. e \in Activity!Entry
      BY <2>1 DEF Activity!DueNow, Activity!Known, ActivityInv
    <3>2. activity'[a] = entry
      BY <1>1, <2>1
    <3> HIDE DEF e
    <3>3. entry \in Activity!Entry
      <4>1. ASSUME NEW d \in Int \cup {None}, NEW l \in Int \cup {None}
            PROVE  [e EXCEPT !.due = d, !.inFlight = TRUE, !.last = l] \in Activity!Entry
        BY <3>1 DEF Activity!Entry
      <4>2. None \in Int \cup {None} /\ 0 \in Int \cup {None}
        OBVIOUS
      <4> QED BY <4>1, <4>2
    <3>4. entry.due = None /\ entry.inFlight
      BY <3>1 DEF Activity!Entry
    <3> HIDE DEF entry
    <3> QED BY <3>2, <3>3, <3>4 DEF Spaced, Activity!ActivityAssumption
  <2>2. CASE a \notin S
    <3>1. activity'[a] = activity[a] /\ running'[a] = running[a]
      BY <1>1, <2>2
    <3> QED BY <3>1 DEF ActivityInv
  <2> QED BY <2>1, <2>2
<1> QED BY <1>1, <1>2 DEF ActivityInv

LEMMA TickSpaced == ASSUME Activity!ActivityAssumption, ActivityInv, Activity!Tick
                    PROVE ActivityInv'
<1>1. /\ activity' = [a \in Accounts |->
           IF activity[a] = None THEN None
           ELSE [activity[a] EXCEPT !.due = Activity!Elapse(@),
                                    !.last = IF @ = None THEN None ELSE Activity!Min({@ + 1,
                                      Retention})]]
      /\ running' = [a \in Accounts |-> IF running[a] = None THEN None ELSE running[a] + 1]
  BY DEF Activity!Tick
<1>2. ASSUME NEW a \in Accounts, activity[a] # None
      PROVE  /\ activity'[a] \in Activity!Entry /\ Spaced(activity'[a])
             /\ activity'[a].inFlight = activity[a].inFlight
  <2> DEFINE e     == activity[a]
             when   == Activity!Elapse(e.due)
             age  == IF e.last = None THEN None ELSE Activity!Min({e.last + 1, Retention})
             entry == [e EXCEPT !.due = when, !.last = age]
  <2>1. e \in Activity!Entry /\ Spaced(e)
    BY <1>2 DEF ActivityInv
  <2>2. activity'[a] = entry
    BY <1>1, <1>2
  <2> HIDE DEF e
  <2>4. /\ when \in Int \cup {None}
        /\ (when # None => e.due # None /\ e.due \in Int /\ when = e.due - 1)
    BY <2>1 DEF Activity!Elapse, Activity!Entry
  <2>5. /\ age \in Int \cup {None}
        /\ (age # None => e.last # None /\ e.last \in Int /\ age \in {e.last + 1, Retention})
    <3>1. CASE e.last = None
      BY <3>1
    <3>2. CASE e.last # None
      <4>1. e.last \in Int /\ e.last + 1 \in Int /\ Retention \in Int
        BY <2>1, <3>2 DEF Activity!Entry, Activity!ActivityAssumption
      <4> QED BY <3>2, <4>1, MinOfTwo
    <3> QED BY <3>1, <3>2
  <2> HIDE DEF when, age
  <2>6. when # None /\ age # None => age >= RefreshInterval \/ when >= RefreshInterval - age
    BY <2>1, <2>4, <2>5 DEF Spaced, Activity!ActivityAssumption
  <2>7. /\ entry \in Activity!Entry /\ entry.due = when /\ entry.last = age
        /\ entry.inFlight = e.inFlight
    BY <2>1, <2>4, <2>5 DEF Activity!Entry
  <2> HIDE DEF entry
  <2> QED BY <2>2, <2>6, <2>7 DEF Spaced, e
<1>3. ASSUME NEW a \in Accounts
      PROVE  /\ activity'[a] # None => activity'[a] \in Activity!Entry /\ Spaced(activity'[a])
             /\ running'[a] # None => activity'[a] # None /\ activity'[a].inFlight
  <2>1. CASE activity[a] = None
    <3>1. activity'[a] = None /\ running[a] = None /\ running'[a] = None
      BY <1>1, <2>1 DEF ActivityInv
    <3> QED BY <3>1
  <2>2. CASE activity[a] # None
    <3>1. /\ activity'[a] \in Activity!Entry /\ Spaced(activity'[a])
          /\ activity'[a].inFlight = activity[a].inFlight
      BY <1>2, <2>2
    <3>2. activity'[a] # None
      BY <3>1 DEF Activity!ActivityAssumption
    <3>3. running'[a] # None => running[a] # None
      BY <1>1
    <3> QED BY <3>1, <3>2, <3>3 DEF ActivityInv
  <2> QED BY <2>1, <2>2
<1> QED BY <1>1, <1>3 DEF ActivityInv

LEMMA ActivityStep ==
  ASSUME Activity!ActivityAssumption, ActivityInv, [Activity!Next]_(Activity!vars)
  PROVE  ActivityInv' /\ Activity!AttemptsAreSpaced
<1>1. ActivityInv'
  <2>1. CASE Activity!Notified \/ Activity!SleepEnds \/ UNCHANGED Activity!vars
    BY <2>1 DEF Activity!Notified, Activity!SleepEnds, Activity!vars, ActivityInv, Spaced
  <2> QED BY <2>1, RecordSpaced, CompleteSpaced, LoopSpaced, TickSpaced DEF Activity!Next
<1>2. ASSUME NEW a \in Accounts, running[a] = None, running'[a] # None, activity[a].last # None
      PROVE  activity[a].last >= RefreshInterval
  <2>1. Activity!Loop
    <3>1. CASE \E b \in Accounts : Activity!Record(b)
      BY <1>2, <3>1 DEF Activity!Record
    <3>2. CASE \E b \in Accounts : Activity!Complete(b)
      BY <1>2, <3>2 DEF Activity!Complete, ActivityInv
    <3>3. CASE Activity!Notified \/ Activity!SleepEnds \/ UNCHANGED Activity!vars
      BY <1>2, <3>3 DEF Activity!Notified, Activity!SleepEnds, Activity!vars
    <3>4. CASE Activity!Tick
      BY <1>2, <3>4 DEF Activity!Tick
    <3> QED BY <3>1, <3>2, <3>3, <3>4 DEF Activity!Next
  <2>2. PICK S \in SUBSET Activity!DueNow :
               running' = [b \in Accounts |-> IF b \in S THEN 0 ELSE running[b]]
    BY <2>1 DEF Activity!Loop
  <2>3. a \in Activity!DueNow
    BY <1>2, <2>2
  <2>4. /\ activity[a].due # None /\ activity[a].due <= 0 /\ activity[a] \in Activity!Entry
        /\ Spaced(activity[a])
    BY <2>3 DEF Activity!DueNow, Activity!Known, ActivityInv
  <2>5. activity[a].due \in Int /\ activity[a].last \in Int
    BY <1>2, <2>4 DEF Activity!Entry
  <2> QED BY <1>2, <2>4, <2>5 DEF Spaced, Activity!ActivityAssumption
<1> QED BY <1>1, <1>2 DEF Activity!AttemptsAreSpaced

(* Refreshes of an account that its traffic causes start at least          *)
(* MIN_REFRESH_INTERVAL apart, for any number of accounts, any debounce    *)
(* and however late the worker is, as long as idle state is kept at least  *)
(* that long (record, complete, take_due, prune_idle).                     *)
THEOREM AttemptsKeepDistance == ASSUME Activity!ActivityAssumption
                                PROVE Activity!Spec
                                        => [][Activity!AttemptsAreSpaced]_(Activity!vars)
<1>1. Activity!Init => ActivityInv
  BY DEF Activity!Init, ActivityInv
<1> QED BY <1>1, ActivityStep, PTL DEF Activity!Spec

-----------------------------------------------------------------------------
(* What the answers of an upstream do to a credential.                     *)

(* The deadlines of a credential are times, and each has its slot.         *)
AttemptInv ==
  /\ attempt_now \in Int
  /\ cooldown \in Int \cup {None} /\ quota \in Int \cup {None}
  /\ model # None => model.until \in Int
  /\ DOMAIN wake = {"cooldown", "model", "quota"} /\ wake = [slot \in DOMAIN wake |-> wake[slot]]
  /\ Attempting!BlocksAreWoken

LEMMA DelaysAreTimes ==
  ASSUME Attempting!AttemptAssumption, NEW t \in Int
  PROVE  /\ \A h \in Hints \cup {None} : \A f \in {Denied,
              RateFallback} : t + Attempting!RetryDelay(h, f) \in Int
         /\ t + Attempting!Bounded(Denied) \in Int /\ t + Attempting!Bounded(Unsupported) \in Int
<1>1. ASSUME NEW d \in Int PROVE t + Attempting!Bounded(d) \in Int
  <2>1. MaxDelay \in Int
    BY DEF Attempting!AttemptAssumption
  <2> QED BY <2>1 DEF Attempting!Bounded
<1>2. ASSUME NEW h \in Hints \cup {None}, NEW f \in {Denied, RateFallback}
      PROVE  t + Attempting!RetryDelay(h, f) \in Int
  BY <1>1 DEF Attempting!RetryDelay, Attempting!AttemptAssumption
<1> QED BY <1>1, <1>2 DEF Attempting!AttemptAssumption

LEMMA PrunedKeepsWake ==
  ASSUME AttemptInv, NEW t \in Int,
         model' = Attempting!PrunedModel(t), NEW slot \in {"cooldown", "quota"}, NEW at \in Int,
         wake' = [Attempting!PrunedWake(t) EXCEPT ![slot] = at],
         UNCHANGED attempt_now
  PROVE  /\ model' # None => model'.until \in Int
              /\ (Attempting!Blocks(model.until)' => wake'["model"] = model'.until)
         /\ DOMAIN wake' = {"cooldown", "model", "quota"}
         /\ wake' = [s \in DOMAIN wake' |-> wake'[s]]
         /\ wake'[slot] = at
         /\ \A s \in {"cooldown", "quota"} : s # slot => wake'[s] = wake[s]
<1>1. CASE model # None /\ model.until <= t
  <2>1. model' = None
    BY <1>1 DEF Attempting!PrunedModel
  <2>2. Attempting!PrunedWake(t) = [wake EXCEPT !["model"] = None]
    BY <1>1 DEF Attempting!PrunedWake
  <2> QED BY <2>1, <2>2 DEF AttemptInv
<1>2. CASE ~(model # None /\ model.until <= t)
  <2>1. model' = model
    BY <1>2 DEF Attempting!PrunedModel
  <2>2. Attempting!PrunedWake(t) = wake
    BY <1>2 DEF Attempting!PrunedWake
  <2> QED BY <2>1, <2>2 DEF AttemptInv, Attempting!BlocksAreWoken, Attempting!Blocks
<1> QED BY <1>1, <1>2

LEMMA QuotaBlocks ==
  ASSUME AttemptInv, NEW t \in Int, NEW d, t + d \in Int, Attempting!RecordQuota(t, d),
         UNCHANGED attempt_now
  PROVE  AttemptInv'
<1>1. /\ model' = Attempting!PrunedModel(t)
      /\ wake' = [Attempting!PrunedWake(t) EXCEPT !["quota"] = t + d]
      /\ quota' = t + d /\ UNCHANGED cooldown
  BY DEF Attempting!RecordQuota
<1>2. /\ model' # None => model'.until \in Int
           /\ (Attempting!Blocks(model.until)' => wake'["model"] = model'.until)
      /\ DOMAIN wake' = {"cooldown", "model", "quota"}
      /\ wake' = [s \in DOMAIN wake' |-> wake'[s]]
      /\ wake'["quota"] = t + d /\ wake'["cooldown"] = wake["cooldown"]
  BY <1>1, PrunedKeepsWake
<1> QED BY <1>1, <1>2 DEF AttemptInv, Attempting!BlocksAreWoken, Attempting!Blocks

LEMMA CooldownBlocks ==
  ASSUME AttemptInv, NEW t \in Int, NEW deadline \in Int,
         cooldown' = deadline, model' = Attempting!PrunedModel(t),
         wake' = [Attempting!PrunedWake(t) EXCEPT !["cooldown"] = deadline],
           UNCHANGED <<attempt_now, quota>>
  PROVE  AttemptInv'
<1>2. /\ model' # None => model'.until \in Int
           /\ (Attempting!Blocks(model.until)' => wake'["model"] = model'.until)
      /\ DOMAIN wake' = {"cooldown", "model", "quota"}
      /\ wake' = [s \in DOMAIN wake' |-> wake'[s]]
      /\ wake'["cooldown"] = deadline /\ wake'["quota"] = wake["quota"]
  BY PrunedKeepsWake
<1> QED BY <1>2 DEF AttemptInv, Attempting!BlocksAreWoken, Attempting!Blocks

LEMMA ModelBlocks ==
  ASSUME AttemptInv, NEW t \in Int, NEW deadline \in Int, NEW cause,
         Attempting!ModelCooldown(t, deadline, cause), UNCHANGED attempt_now
  PROVE  AttemptInv'
<1> DEFINE new == IF Attempting!PrunedModel(t) = None
             \/ deadline >= Attempting!PrunedModel(t).until
                  THEN [until |-> deadline, cause |-> cause] ELSE Attempting!PrunedModel(t)
<1>1. /\ model' = new /\ wake' = [wake EXCEPT !["model"] = new.until]
      /\ UNCHANGED <<cooldown, quota>>
  BY DEF Attempting!ModelCooldown
<1>2. Attempting!PrunedModel(t) # None => Attempting!PrunedModel(t) = model
  BY DEF Attempting!PrunedModel
<1>3. new.until \in Int
  BY <1>2 DEF AttemptInv
<1> HIDE DEF new
<1>4. wake'["model"] = model'.until
  BY <1>1 DEF AttemptInv
<1>5. \A s \in {"cooldown", "quota"} : wake'[s] = wake[s]
  BY <1>1 DEF AttemptInv
<1>6. DOMAIN wake' = {"cooldown", "model", "quota"} /\ wake' = [s \in DOMAIN wake' |-> wake'[s]]
  BY <1>1 DEF AttemptInv
<1> QED BY <1>1, <1>3, <1>4, <1>5, <1>6 DEF AttemptInv, Attempting!BlocksAreWoken,
           Attempting!Blocks

LEMMA RoutingBlocks ==
  ASSUME Attempting!AttemptAssumption, AttemptInv, NEW cause, NEW hint \in Hints \cup {None},
         NEW t \in Int,
         Attempting!RecordRouting(cause, hint, t), UNCHANGED attempt_now
  PROVE  AttemptInv'
<1>1. CASE cause = "quota_exhausted"
  <2>1. Attempting!RecordQuota(t, Attempting!RetryDelay(hint, Denied))
    BY <1>1 DEF Attempting!RecordRouting
  <2> QED BY <2>1, DelaysAreTimes, QuotaBlocks
<1>2. CASE cause = "permission_denied"
  <2> DEFINE deadline == Attempting!Later(cooldown, t + Attempting!Bounded(Denied))
  <2>1. /\ cooldown' = deadline /\ model' = Attempting!PrunedModel(t)
        /\ wake' = [Attempting!PrunedWake(t) EXCEPT !["cooldown"] = deadline] /\ UNCHANGED quota
    BY <1>2 DEF Attempting!RecordRouting
  <2>2. deadline \in Int
    BY DelaysAreTimes DEF Attempting!Later, AttemptInv
  <2> QED BY <2>1, <2>2, CooldownBlocks
<1>3. CASE cause = "rate_limited"
  <2>1. Attempting!ModelCooldown(t, t + Attempting!RetryDelay(hint, RateFallback), "rate_limit")
    BY <1>3 DEF Attempting!RecordRouting
  <2> QED BY <2>1, DelaysAreTimes, ModelBlocks
<1>4. CASE cause \notin {"quota_exhausted", "permission_denied", "rate_limited"}
  <2>1. Attempting!ModelCooldown(t, t + Attempting!Bounded(Unsupported), "outage")
    BY <1>4 DEF Attempting!RecordRouting
  <2> QED BY <2>1, DelaysAreTimes, ModelBlocks
<1> QED BY <1>1, <1>2, <1>3, <1>4

LEMMA FailureBlocks ==
  ASSUME Attempting!AttemptAssumption, AttemptInv, NEW a, NEW class,
         NEW hint \in Hints \cup {None}, NEW t \in Int,
         Attempting!UpstreamFails(a, class, hint, t)
  PROVE  AttemptInv'
<1>1. Attempting!RecordFailure(attempt[a].token, class, hint, t) /\ UNCHANGED attempt_now
  BY DEF Attempting!UpstreamFails
<1>2. CASE class.attribution = "authentication"
  BY <1>1, <1>2 DEF Attempting!RecordFailure, AttemptInv, Attempting!BlocksAreWoken,
     Attempting!Blocks
<1>3. CASE class.attribution \in {"credential", "credential_model"}
  <2>1. Attempting!RecordRouting(class.kind, hint, t)
    BY <1>1, <1>3 DEF Attempting!RecordFailure
  <2> QED BY <1>1, <2>1, RoutingBlocks
<1>4. CASE class.attribution \notin {"authentication", "credential", "credential_model"}
  BY <1>1, <1>4 DEF Attempting!RecordFailure, AttemptInv, Attempting!BlocksAreWoken,
     Attempting!Blocks
<1> QED BY <1>2, <1>3, <1>4

LEMMA SuccessBlocks ==
  ASSUME AttemptInv, Attempting!RecordSuccess, UNCHANGED attempt_now
  PROVE  AttemptInv'
<1>1. quota' = None /\ UNCHANGED <<cooldown, model>>
  BY DEF Attempting!RecordSuccess
<1>2. \A s \in {"cooldown", "model"} : wake'[s] = wake[s]
  BY DEF Attempting!RecordSuccess, AttemptInv
<1>3. DOMAIN wake' = {"cooldown", "model", "quota"} /\ wake' = [s \in DOMAIN wake' |-> wake'[s]]
  BY DEF Attempting!RecordSuccess, AttemptInv
<1> QED BY <1>1, <1>2, <1>3 DEF AttemptInv, Attempting!BlocksAreWoken, Attempting!Blocks

LEMMA AttemptStep ==
  ASSUME Attempting!AttemptAssumption, AttemptInv, [Attempting!Next]_(Attempting!vars)
  PROVE  AttemptInv'
<1>1. CASE UNCHANGED <<attempt_now, cooldown, model, quota, wake>>
  BY <1>1 DEF AttemptInv, Attempting!BlocksAreWoken, Attempting!Blocks
<1>2. ASSUME NEW t \in Attempting!Readings PROVE t \in Int
  BY <1>2 DEF Attempting!Readings, AttemptInv
<1>3. ASSUME NEW a \in Attempts, Attempting!Ends(a) PROVE AttemptInv'
  <2>1. ASSUME NEW b \in Statuses, NEW e \in BOOLEAN, NEW d \in Codes \union {None},
               NEW h \in Hints \union {None}, NEW t \in Attempting!Readings,
                 Attempting!Refused(a, b, e, d, h, t)
        PROVE  AttemptInv'
    <3>1. Attempting!UpstreamFails(a, Attempting!Classify(b, e, d), h, t)
      BY <2>1 DEF Attempting!Refused
    <3> QED BY <3>1, <1>2, FailureBlocks
  <2>2. ASSUME NEW d \in Codes \union {None}, NEW t \in Attempting!Readings,
               NEW o \in {None, "ambiguous", "rejected_before_execution"},
                 Attempting!EnvelopeFails(a, d, o, t)
        PROVE  AttemptInv'
    <3> DEFINE class == Attempting!Classify("unknown", FALSE, d)
    <3>1. Attempting!UpstreamFails(a, IF o = None THEN class ELSE [class EXCEPT !.safety = o],
            None, t)
      BY <2>2 DEF Attempting!EnvelopeFails
    <3> HIDE DEF class
    <3> QED BY <3>1, <1>2, FailureBlocks
  <2>3. CASE Attempting!FailAfterSuccess(a) \/ Attempting!Completes(a)
    <3>1. Attempting!RecordSuccess /\ UNCHANGED attempt_now
      BY <2>3 DEF Attempting!FailAfterSuccess, Attempting!Completes
    <3> QED BY <3>1, SuccessBlocks
  <2>4. CASE Attempting!InvalidResponse(a) \/ Attempting!Drop(a)
               \/ \E s \in Attempting!Ended \ {"done", "handed"} : Attempting!TransportFails(a, s)
    BY <2>4, <1>1 DEF Attempting!InvalidResponse, Attempting!Drop, Attempting!TransportFails,
       Attempting!health
  <2> QED BY <1>3, <2>1, <2>2, <2>3, <2>4 DEF Attempting!Ends
<1>4. ASSUME NEW a \in Attempts,
             \/ Attempting!Select(a) \/ Attempting!Prepare(a) \/ Attempting!PrepareFails(a)
             \/ \E next \in {"refused", "collecting", "handed"} : Attempting!Responds(a, next)
      PROVE  AttemptInv'
  BY <1>1, <1>4 DEF Attempting!Select, Attempting!Prepare, Attempting!PrepareFails,
     Attempting!Responds, Attempting!health
<1>5. CASE Attempting!Refresh \/ (\E v \in 1..MaxToken : Attempting!ProbeClears(v))
             \/ UNCHANGED Attempting!vars
  BY <1>1, <1>5 DEF Attempting!Refresh, Attempting!ProbeClears, Attempting!vars
<1>6. CASE Attempting!ClearCooldowns
  BY <1>6 DEF Attempting!ClearCooldowns, AttemptInv, Attempting!BlocksAreWoken,
     Attempting!Blocks
<1>7. CASE Attempting!Tick
  BY <1>7 DEF Attempting!Tick, Attempting!health, AttemptInv, Attempting!BlocksAreWoken,
     Attempting!Blocks
<1>8. ASSUME NEW slot \in DOMAIN wake, Attempting!Fire(slot) PROVE AttemptInv'
  <2>1. /\ UNCHANGED <<attempt_now, cooldown, model, quota>>
        /\ DOMAIN wake' = {"cooldown", "model", "quota"}
        /\ wake' = [s \in DOMAIN wake' |-> wake'[s]]
        /\ \A s \in DOMAIN wake : s # slot => wake'[s] = wake[s]
        /\ wake[slot] <= attempt_now
    BY <1>8 DEF Attempting!Fire, AttemptInv
  <2> QED BY <2>1 DEF AttemptInv, Attempting!BlocksAreWoken, Attempting!Blocks
<1> QED BY <1>3, <1>4, <1>5, <1>6, <1>7, <1>8 DEF Attempting!Next

(* Whatever blocks a credential for a while has its wake set for exactly   *)
(* the moment it ends, for any number of attempts, any delays and any      *)
(* order of answers (record_model_cooldown, record_quota_exhaustion,       *)
(* record, record_success, clear_temporary_cooldowns).                     *)
THEOREM CooldownsAreWoken == ASSUME Attempting!AttemptAssumption
                             PROVE Attempting!Spec => []Attempting!BlocksAreWoken
<1>1. Attempting!Init => AttemptInv
  BY DEF Attempting!Init, AttemptInv, Attempting!BlocksAreWoken, Attempting!Blocks
<1>2. AttemptInv => Attempting!BlocksAreWoken
  BY DEF AttemptInv
<1> QED BY <1>1, <1>2, AttemptStep, PTL DEF Attempting!Spec

(* Only the attempt that ends marks a token, the one it was selected with. *)
MarkTypes ==
  /\ token \in 1..MaxToken
  /\ auth_error \in [1..MaxToken -> BOOLEAN]
  /\ attempt = [a \in Attempts |-> attempt[a]]
  /\ \A a \in Attempts : attempt[a].token \in 0..MaxToken

LEMMA RoutingMarksNothing ==
  ASSUME NEW cause, NEW hint, NEW t, Attempting!RecordRouting(cause, hint, t)
  PROVE  UNCHANGED auth_error
BY DEF Attempting!RecordRouting, Attempting!RecordQuota, Attempting!ModelCooldown

LEMMA FailureMarks ==
  ASSUME Attempting!AttemptAssumption, MarkTypes, NEW a \in Attempts, NEW class, NEW hint, NEW t,
         Attempting!UpstreamFails(a, class, hint, t),
         class.safety \in Attempting!Ended
  PROVE  MarkTypes' /\ Attempting!LateRejectionsSpareNewTokens
<1>1. /\ UNCHANGED token
      /\ attempt' = [attempt EXCEPT ![a] = [Attempting!Fresh EXCEPT !.phase = class.safety]]
      /\ Attempting!RecordFailure(attempt[a].token, class, hint, t)
  BY DEF Attempting!UpstreamFails, Attempting!Settle
<1>2. \/ auth_error' = [auth_error EXCEPT ![attempt[a].token] = TRUE]
      \/ UNCHANGED auth_error
  <2>1. CASE class.attribution = "authentication"
    BY <1>1, <2>1 DEF Attempting!RecordFailure, Attempting!MarkRejected
  <2>2. CASE class.attribution \in {"credential", "credential_model"}
    <3>1. Attempting!RecordRouting(class.kind, hint, t)
      BY <1>1, <2>2 DEF Attempting!RecordFailure
    <3> QED BY <3>1, RoutingMarksNothing
  <2>3. CASE class.attribution \notin {"authentication", "credential", "credential_model"}
    BY <1>1, <2>3 DEF Attempting!RecordFailure
  <2> QED BY <2>1, <2>2, <2>3
<1>3. [Attempting!Fresh EXCEPT !.phase = class.safety] = [phase |-> class.safety, token |-> 0]
  BY DEF Attempting!Fresh
<1>4. /\ attempt'[a] = [phase |-> class.safety, token |-> 0]
      /\ \A b \in Attempts : b # a => attempt'[b] = attempt[b]
      /\ attempt' = [b \in Attempts |-> attempt'[b]]
  BY <1>1, <1>3 DEF MarkTypes
<1>5. auth_error' \in [1..MaxToken -> BOOLEAN]
  BY <1>2 DEF MarkTypes
<1>6. MarkTypes'
  <2>1. 0 \in 0..MaxToken
    BY DEF Attempting!AttemptAssumption
  <2>2. \A b \in Attempts : attempt'[b].token \in 0..MaxToken
    BY <1>4, <2>1 DEF MarkTypes
  <2> QED BY <1>1, <1>4, <1>5, <2>2 DEF MarkTypes
<1>7. ASSUME ~auth_error[token], auth_error'[token] PROVE attempt[a].token = token
  BY <1>2, <1>7 DEF MarkTypes
<1>8. attempt'[a].phase \in Attempting!Ended
  BY <1>4
<1> QED BY <1>6, <1>7, <1>8 DEF Attempting!LateRejectionsSpareNewTokens

LEMMA ClassifySafety == \A b, e,
  d : Attempting!Classify(b, e, d).safety \in {"ambiguous", "rejected_before_execution"}
BY DEF Attempting!Classify, Attempting!DefaultSafety

LEMMA AttemptsMove ==
  ASSUME MarkTypes, UNCHANGED <<token, auth_error>>, NEW a \in Attempts, NEW r,
         r.token \in 0..MaxToken,
         attempt' = [attempt EXCEPT ![a] = r]
  PROVE  MarkTypes' /\ Attempting!LateRejectionsSpareNewTokens
<1>1. MarkTypes'
  BY DEF MarkTypes
<1>2. Attempting!LateRejectionsSpareNewTokens
  BY DEF Attempting!LateRejectionsSpareNewTokens
<1> QED BY <1>1, <1>2

LEMMA MarkStep ==
  ASSUME Attempting!AttemptAssumption, MarkTypes, [Attempting!Next]_(Attempting!vars)
  PROVE  MarkTypes' /\ Attempting!LateRejectionsSpareNewTokens
<1>0. 0 \in 0..MaxToken /\ token \in 0..MaxToken
  BY DEF MarkTypes, Attempting!AttemptAssumption
<1>1. ASSUME UNCHANGED <<token, auth_error, attempt>>
      PROVE MarkTypes' /\ Attempting!LateRejectionsSpareNewTokens
  BY <1>1 DEF MarkTypes, Attempting!LateRejectionsSpareNewTokens
<1>2. ASSUME NEW a \in Attempts, NEW o, Attempting!Settle(a, o), UNCHANGED <<token, auth_error>>
      PROVE  MarkTypes' /\ Attempting!LateRejectionsSpareNewTokens
  <2>1. attempt' = [attempt EXCEPT ![a] = [Attempting!Fresh EXCEPT !.phase = o]]
    BY <1>2 DEF Attempting!Settle
  <2>2. [Attempting!Fresh EXCEPT !.phase = o].token = 0
    BY DEF Attempting!Fresh
  <2> HIDE DEF Attempting!Fresh
  <2> QED BY <1>0, <1>2, <2>1, <2>2, AttemptsMove
<1>3. ASSUME NEW a \in Attempts, Attempting!Ends(a)
      PROVE MarkTypes' /\ Attempting!LateRejectionsSpareNewTokens
  <2>1. ASSUME NEW b \in Statuses, NEW e \in BOOLEAN, NEW d \in Codes \union {None},
               NEW h \in Hints \union {None}, NEW t \in Attempting!Readings,
                 Attempting!Refused(a, b, e, d, h, t)
        PROVE  MarkTypes' /\ Attempting!LateRejectionsSpareNewTokens
    <3> DEFINE class == Attempting!Classify(b, e, d)
    <3>1. Attempting!UpstreamFails(a, class, h, t)
      BY <2>1 DEF Attempting!Refused
    <3>2. class.safety \in Attempting!Ended
      BY ClassifySafety DEF Attempting!Ended
    <3> HIDE DEF class
    <3> QED BY <3>1, <3>2, FailureMarks
  <2>2. ASSUME NEW d \in Codes \union {None}, NEW t \in Attempting!Readings,
               NEW o \in {None, "ambiguous", "rejected_before_execution"},
                 Attempting!EnvelopeFails(a, d, o, t)
        PROVE  MarkTypes' /\ Attempting!LateRejectionsSpareNewTokens
    <3> DEFINE known == Attempting!Classify("unknown", FALSE, d)
               class == IF o = None THEN known ELSE [known EXCEPT !.safety = o]
    <3>1. Attempting!UpstreamFails(a, class, None, t)
      BY <2>2 DEF Attempting!EnvelopeFails
    <3>2. class.safety \in Attempting!Ended
      <4>1. known.safety \in Attempting!Ended
        BY ClassifySafety DEF Attempting!Ended
      <4>2. [known EXCEPT !.safety = o].safety = o
        BY DEF Attempting!Classify
      <4> HIDE DEF known
      <4> QED BY <2>2, <4>1, <4>2 DEF Attempting!Ended
    <3> HIDE DEF class
    <3> QED BY <3>1, <3>2, FailureMarks
  <2>3. CASE Attempting!FailAfterSuccess(a) \/ Attempting!Completes(a)
    BY <1>2, <2>3 DEF Attempting!FailAfterSuccess, Attempting!Completes,
       Attempting!RecordSuccess
  <2>4. CASE Attempting!InvalidResponse(a) \/ Attempting!Drop(a)
               \/ \E s \in Attempting!Ended \ {"done", "handed"} : Attempting!TransportFails(a, s)
    BY <1>2, <2>4 DEF Attempting!InvalidResponse, Attempting!Drop, Attempting!TransportFails,
       Attempting!health
  <2> QED BY <1>3, <2>1, <2>2, <2>3, <2>4 DEF Attempting!Ends
<1>4. ASSUME NEW a \in Attempts, Attempting!Select(a)
      PROVE MarkTypes' /\ Attempting!LateRejectionsSpareNewTokens
  <2>1. attempt' = [attempt EXCEPT ![a] = [phase |-> "selected", token |-> token]]
        /\ UNCHANGED <<token, auth_error>>
    BY <1>4 DEF Attempting!Select, Attempting!health
  <2>2. [phase |-> "selected", token |-> token].token = token
    OBVIOUS
  <2> QED BY <1>0, <2>1, <2>2, AttemptsMove
<1>5. ASSUME NEW a \in Attempts, NEW p, attempt' = [attempt EXCEPT ![a].phase = p],
             UNCHANGED <<token, auth_error>>
      PROVE  MarkTypes' /\ Attempting!LateRejectionsSpareNewTokens
  <2>1. attempt' = [attempt EXCEPT ![a] = [attempt[a] EXCEPT !.phase = p]]
    BY <1>5 DEF MarkTypes
  <2>2. [attempt[a] EXCEPT !.phase = p].token = attempt[a].token
    OBVIOUS
  <2>3. attempt[a].token \in 0..MaxToken
    BY DEF MarkTypes
  <2> QED BY <1>5, <2>1, <2>2, <2>3, AttemptsMove
<1>6. ASSUME NEW a \in Attempts,
             \/ Attempting!Prepare(a) \/ Attempting!PrepareFails(a)
             \/ \E next \in {"refused", "collecting", "handed"} : Attempting!Responds(a, next)
      PROVE  MarkTypes' /\ Attempting!LateRejectionsSpareNewTokens
  BY <1>2, <1>5, <1>6 DEF Attempting!Prepare, Attempting!PrepareFails, Attempting!Responds,
     Attempting!health
<1>7. CASE Attempting!Refresh
  BY <1>7 DEF Attempting!Refresh, MarkTypes, Attempting!AttemptAssumption,
     Attempting!LateRejectionsSpareNewTokens
<1>8. ASSUME NEW v \in 1..MaxToken, Attempting!ProbeClears(v)
      PROVE MarkTypes' /\ Attempting!LateRejectionsSpareNewTokens
  BY <1>8 DEF Attempting!ProbeClears, MarkTypes, Attempting!LateRejectionsSpareNewTokens
<1>9. CASE Attempting!ClearCooldowns \/ Attempting!Tick
             \/ (\E slot \in DOMAIN wake : Attempting!Fire(slot)) \/ UNCHANGED Attempting!vars
  BY <1>1, <1>9 DEF Attempting!ClearCooldowns, Attempting!Tick, Attempting!Fire,
     Attempting!health, Attempting!vars
<1> QED BY <1>3, <1>4, <1>6, <1>7, <1>8, <1>9 DEF Attempting!Next

(* An attempt that was selected with an older token never makes the        *)
(* refreshed credential look rejected, for any number of attempts and      *)
(* tokens (with_fresh_authentication, CredentialHealthRuntime::record).    *)
THEOREM OldTokensSpareNewOnes ==
  ASSUME Attempting!AttemptAssumption
  PROVE Attempting!Spec => [][Attempting!LateRejectionsSpareNewTokens]_(Attempting!vars)
<1>1. Attempting!Init => MarkTypes
  BY DEF Attempting!Init, MarkTypes, Attempting!Fresh, Attempting!AttemptAssumption
<1> QED BY <1>1, MarkStep, PTL DEF Attempting!Spec

-----------------------------------------------------------------------------
(* Model catalogs.                                                         *)

(* A directory is stored under the scope it was fetched for.               *)
CatalogInv ==
  /\ plan \in [Accounts -> Scopes \cup {None}]
  /\ catalogs \in [Scopes -> Scopes \cup {None}]
  /\ \A s \in Scopes : catalogs[s] \in {None, s}

LEMMA CatalogStep == CatalogInv /\ [Catalog!Next]_(Catalog!vars) => CatalogInv'
<1> SUFFICES ASSUME CatalogInv, [Catalog!Next]_(Catalog!vars) PROVE CatalogInv'
  OBVIOUS
<1>1. ASSUME UNCHANGED <<plan, catalogs>> PROVE CatalogInv'
  BY <1>1 DEF CatalogInv
<1>2. ASSUME NEW s, catalogs' = [catalogs EXCEPT ![s] = s], UNCHANGED plan PROVE CatalogInv'
  BY <1>2 DEF CatalogInv
<1>3. ASSUME NEW c \in CatalogClients, Catalog!Fetched(c) PROVE CatalogInv'
  BY <1>2, <1>3 DEF Catalog!Fetched
<1>4. ASSUME NEW s \in Scopes, Catalog!LoginFetches(s) PROVE CatalogInv'
  BY <1>2, <1>4 DEF Catalog!LoginFetches
<1>5. ASSUME NEW a \in Accounts, NEW s \in Scopes \cup {None}, Catalog!ChangePlan(a, s)
      PROVE CatalogInv'
  BY <1>5 DEF Catalog!ChangePlan, CatalogInv
<1> QED BY <1>1, <1>3, <1>4, <1>5 DEF Catalog!Next, Catalog!Refresh, Catalog!NextScope,
           Catalog!Enter, Catalog!FetchFails, Catalog!Cancel, Catalog!vars

(* An account is shown the models of its own plan, whatever tokens of      *)
(* other plans are published while a batch is under way, for any number of *)
(* accounts, plans and clients (fetch_catalog_for_account derives the      *)
(* scope again).                                                           *)
THEOREM CatalogsFitThePlan == Catalog!Spec => []Catalog!CatalogsOfOwnPlan
<1>1. Catalog!Init => CatalogInv
  BY DEF Catalog!Init, CatalogInv
<1>2. CatalogInv => Catalog!CatalogsOfOwnPlan
  BY DEF CatalogInv, Catalog!CatalogsOfOwnPlan, Catalog!Shown, Catalog!ScopeOf
<1> QED BY <1>1, <1>2, CatalogStep, PTL DEF Catalog!Spec

-----------------------------------------------------------------------------
(* The components together.                                                *)

OAuthAssumption ==
  /\ Login!LoginAssumption /\ Accounting!AccountsAssumption /\ Quota!QuotaAssumption
  /\ Activity!ActivityAssumption /\ Attempting!AttemptAssumption
OAuthSpec ==
  /\ Spec /\ Scan!Spec /\ Login!Spec /\ Accounting!Spec /\ Quota!Spec /\ Usage!Spec
  /\ Activity!Spec /\ Attempting!Spec /\ Catalog!Spec

(* Nothing that is kept for an account is another's or another time's,     *)
(* whatever the order in which scans, answers, publications and requests   *)
(* come.                                                                   *)
THEOREM AccountsAreKeptApart ==
  ASSUME OAuthAssumption
  PROVE  OAuthSpec => []AccountsStayTheirOwn
<1>1. Quota!QuotaAssumption /\ Attempting!AttemptAssumption
  BY DEF OAuthAssumption
<1>2. Quota!Spec => [](Quota!NoBlindReset /\ Quota!BlameIsEarned)
  BY <1>1, QuotasAreSpentKnowingly
<1>3. Attempting!Spec => []Attempting!BlocksAreWoken
  BY <1>1, CooldownsAreWoken
<1>4. /\ Scan!SleepsInformed /\ Quota!NoBlindReset /\ Quota!BlameIsEarned
      /\ Usage!CapacityOfOneIdentity /\ Catalog!CatalogsOfOwnPlan /\ Attempting!BlocksAreWoken
      => AccountsStayTheirOwn
  BY DEF AccountsStayTheirOwn
<1> QED BY <1>2, <1>3, <1>4, ScansAreComplete, CapacitiesAreOwn, CatalogsFitThePlan, PTL DEF
           OAuthSpec

(* No answer that comes late, to a refresh, a poll, a login, a quota or an *)
(* attempt, undoes what was done meanwhile.                                *)
THEOREM LateAnswersAreHarmless ==
  ASSUME OAuthAssumption
  PROVE  OAuthSpec => LateAnswersUndoNothing
<1>1. /\ Login!LoginAssumption /\ Accounting!AccountsAssumption /\ Quota!QuotaAssumption
      /\ Activity!ActivityAssumption /\ Attempting!AttemptAssumption
  BY DEF OAuthAssumption
<1>2. Login!Spec => [][Login!SessionsStayGone /\ Login!PollsPaced]_(Login!vars)
  BY <1>1, LoginsArePaced
<1>3. Accounting!Spec => [][Accounting!NoNewTwins]_(Accounting!vars)
  BY <1>1, LoginsMakeNoTwins
<1>4. Quota!Spec => [][Quota!RefreshSeesResets]_(Quota!vars)
  BY <1>1, RefreshesSeeResets
<1>5. Activity!Spec => [][Activity!AttemptsAreSpaced]_(Activity!vars)
  BY <1>1, AttemptsKeepDistance
<1>6. Attempting!Spec => [][Attempting!LateRejectionsSpareNewTokens]_(Attempting!vars)
  BY <1>1, OldTokensSpareNewOnes
<1> QED BY <1>2, <1>3, <1>4, <1>5, <1>6, FailuresDoNotFanOut, EstimatesStayFrozen, PTL
           DEF OAuthSpec, LateAnswersUndoNothing
=============================================================================
