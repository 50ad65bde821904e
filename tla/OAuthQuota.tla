----------------------------- MODULE OAuthQuota -----------------------------
(***************************************************************************)
(* The quota service of one OAuth account: administrators and the activity *)
(* worker refresh the quota the provider reports, or spend a reset credit. *)
(* Operations of an account are serialised by a gate whose waiters may     *)
(* share the result of the refresh they waited for; a rejected access      *)
(* token is renewed once; the answer is stored. A client may go away at    *)
(* any await, which drops its operation. What an answer means is in        *)
(* QuotaUsage; here it only tells how many reset credits are left.         *)
(***************************************************************************)
EXTENDS Integers, Sequences, FiniteSets, Functions

CONSTANTS Clients,       \* callers of refresh and reset
          MaxVersion,    \* bound on token versions
          MaxCredits,    \* reset credits the account begins with
          MaxOps,        \* bound on operations begun
          Nil

QuotaAssumption == MaxCredits \in Nat

VARIABLES present,     \* the account exists
          version,     \* its published token version
          op,          \* op[c]: the operation of client c
          queue,       \* the gate: its holder and, behind it, its waiters
          completed,   \* operation_completed
          last,        \* last_completed
          stored,      \* the epoch of the persisted snapshot, or Nil
          authFailed,  \* versions whose authentication health failed
          credits,     \* reset credits the provider still holds
          rejected,    \* versions whose access token the provider refused
          resets,      \* resets that have completed
          reply,       \* what the last refresh of a client returned
          blind,       \* a reset was sent when no credit was left
          begun

vars == <<present, version, op, queue, completed, last, stored, authFailed, credits, rejected,
          resets, reply, blind, begun>>

account   == <<present, version>>
gate      == <<queue, completed, last>>
provider  == <<credits, rejected>>
history   == <<resets, reply, blind, begun>>

Versions == 1..MaxVersion

Idle == [pc |-> "idle", what |-> Nil, observed |-> 0, version |-> 0, second |-> FALSE,
         count |-> Nil, epoch |-> 0]

----------------------------------------------------------------------------
(* The gate. It is kept alive by its users: the next caller after the last *)
(* of them has left begins with a new one.                                 *)

Release(q, done, result) ==
  /\ queue' = q
  /\ completed' = IF q = <<>> THEN 0 ELSE done
  /\ last' = IF q = <<>> THEN Nil ELSE result

Call(c, what) ==
  /\ op[c].pc = "idle"
  /\ begun < MaxOps
  /\ begun' = begun + 1
  /\ op' = [op EXCEPT ![c] = [Idle EXCEPT !.pc = "waiting", !.what = what, !.observed = completed]]
  /\ queue' = Append(queue, c)
  /\ UNCHANGED <<completed, last, account, stored, authFailed, provider,
                 resets, reply, blind>>

Holds(c) == queue # <<>> /\ Head(queue) = c

\* A faulty variant: a reset leaves the result of the refresh before it.
FinishResetUnrecorded(c, ok) ==
  LET o      == op[c]
      result == [what |-> o.what, ok |-> ok, epoch |-> o.epoch]
  IN  /\ Release(Tail(queue), completed + 1, IF o.what = "reset" THEN last ELSE result)
      /\ op' = [op EXCEPT ![c] = Idle]
      /\ resets' = IF o.what = "reset" THEN resets + 1 ELSE resets
      /\ reply' = IF o.what = "refresh" THEN [reply EXCEPT ![c] = result] ELSE reply

\* The end of an operation that was carried out.
Finish(c, ok) ==
  LET o      == op[c]
      result == [what |-> o.what, ok |-> ok, epoch |-> o.epoch]
  IN  /\ Release(Tail(queue), completed + 1, result)
      /\ op' = [op EXCEPT ![c] = Idle]
      /\ resets' = IF o.what = "reset" THEN resets + 1 ELSE resets
      /\ reply' = IF o.what = "refresh" THEN [reply EXCEPT ![c] = result] ELSE reply

Fail(c) == Finish(c, FALSE) /\ UNCHANGED <<account, stored, credits, begun>>

Shareable(c) ==
  /\ op[c].what = "refresh"
  /\ completed # op[c].observed
  /\ last # Nil
  /\ last.what = "refresh"

Share(c) ==
  /\ Holds(c) /\ op[c].pc = "waiting"
  /\ Shareable(c)
  /\ reply' = [reply EXCEPT ![c] = last]
  /\ op' = [op EXCEPT ![c] = Idle]
  /\ Release(Tail(queue), completed, last)
  /\ UNCHANGED <<account, stored, authFailed, provider, resets, blind, begun>>

Begin(c) ==
  /\ Holds(c) /\ op[c].pc = "waiting"
  /\ ~Shareable(c)
  /\ present
  /\ op' = [op EXCEPT ![c].pc = "usage", ![c].version = version, ![c].epoch = resets]
  /\ UNCHANGED <<account, gate, stored, authFailed, provider, history>>

BeginMissing(c) ==
  /\ Holds(c) /\ op[c].pc = "waiting"
  /\ ~Shareable(c)
  /\ ~present
  /\ LET result == [what |-> op[c].what, ok |-> FALSE, epoch |-> resets]
     IN  /\ Release(Tail(queue), completed + 1, result)
         /\ resets' = IF op[c].what = "reset" THEN resets + 1 ELSE resets
         /\ reply' = IF op[c].what = "refresh" THEN [reply EXCEPT ![c] = result] ELSE reply
  /\ op' = [op EXCEPT ![c] = Idle]
  /\ UNCHANGED <<account, stored, authFailed, provider, blind, begun>>

\* A client that goes away drops its operation where it stands; nothing is
\* recorded of it. What it had already sent takes effect now or never: that
\* a provider applies a reset after its caller has gone and another one has
\* read the credits is outside this model, and so is anybody else who
\* spends them.
Cancel(c) ==
  /\ op[c].pc # "idle"
  /\ op' = [op EXCEPT ![c] = Idle]
  /\ \E i \in 1..Len(queue) :
       /\ queue[i] = c
       /\ LET q == [j \in 1..Len(queue) - 1 |-> queue[IF j < i THEN j ELSE j + 1]]
          IN  Release(q, completed, last)
  /\ credits' \in IF op[c].pc = "consume" /\ credits > 0 THEN {credits, credits - 1} ELSE {credits}
  /\ UNCHANGED <<account, stored, authFailed, rejected, resets, reply, blind, begun>>

----------------------------------------------------------------------------
(* Requests to the provider. An access token it refuses is renewed once.   *)

MarkAuthenticationFailed(v) == authFailed' = authFailed \cup {v}

\* A 401 of the usage (or its supplement) or of the reset request.
Unauthorized(c) ==
  /\ op[c].pc \in {"usage", "consume"}
  /\ rejected' = rejected \cup {op[c].version}
  /\ blind' = (blind \/ (op[c].pc = "consume" /\ credits = 0))
  /\ IF op[c].second
     THEN MarkAuthenticationFailed(op[c].version) /\ Fail(c)
     ELSE /\ op' = [op EXCEPT ![c].pc = IF @ = "consume" THEN "reauth" ELSE "auth"]
          /\ UNCHANGED <<account, gate, stored, authFailed, credits,
                         resets, reply, begun>>

Attempt(c) == IF op[c].pc = "auth" THEN "usage" ELSE "consume"

\* refresh_after_authentication_failure renews the token unless that has
\* been done since the attempt read it.
Refreshed(c) ==
  /\ op[c].pc \in {"auth", "reauth"}
  /\ present
  /\ \/ version > op[c].version /\ UNCHANGED version
     \/ version = op[c].version /\ version < MaxVersion /\ version' = version + 1
  /\ op' = [op EXCEPT ![c].pc = Attempt(c), ![c].second = TRUE, ![c].version = version']
  /\ UNCHANGED <<present, gate, stored, authFailed, provider, history>>

\* A faulty variant: the token published by now is blamed.
RefreshRejectedNow(c) ==
  /\ op[c].pc \in {"auth", "reauth"}
  /\ MarkAuthenticationFailed(version)
  /\ Fail(c)
  /\ UNCHANGED <<rejected, blind>>

\* No refresh token, or one the provider refuses for good.
RefreshRejected(c) ==
  /\ op[c].pc \in {"auth", "reauth"}
  /\ MarkAuthenticationFailed(op[c].version)
  /\ Fail(c)
  /\ UNCHANGED <<rejected, blind>>

RefreshFailed(c) ==
  /\ op[c].pc \in {"auth", "reauth"}
  /\ Fail(c)
  /\ UNCHANGED <<rejected, authFailed, blind>>

\* Any other refusal, a transport error, a timeout, an answer too long or
\* not understood; the account is gone or the snapshot cannot be stored.
RequestFails(c) ==
  /\ op[c].pc \in {"usage", "build"}
  /\ Fail(c)
  /\ UNCHANGED <<rejected, authFailed, blind>>

\* The usage has arrived and, where the provider has one, its supplement.
Answered(c) ==
  /\ op[c].pc = "usage"
  /\ \E count \in {Nil, credits} : op' = [op EXCEPT ![c].pc = "credits", ![c].count = count]
  /\ UNCHANGED <<account, gate, stored, authFailed, provider, history>>

\* The list of reset credits only completes the usage; failing to read it
\* is not an error.
CreditsRead(c) ==
  /\ op[c].pc = "credits"
  /\ \/ op' = [op EXCEPT ![c].pc = "build", ![c].count = credits]
     \/ op' = [op EXCEPT ![c].pc = "build"]
  /\ UNCHANGED <<account, gate, stored, authFailed, provider, history>>

----------------------------------------------------------------------------
(* snapshot::build stores the answer; a reset goes on only if a credit is  *)
(* left, with the token published by then.                                 *)

\* A faulty variant: the credits are not counted.
BuildUncounted(c) ==
  /\ op[c].pc = "build"
  /\ present
  /\ stored' = op[c].epoch
  /\ IF op[c].what = "refresh" THEN Finish(c, TRUE)
     ELSE /\ op' = [op EXCEPT ![c].pc = "consume", ![c].version = version, ![c].second = FALSE]
          /\ UNCHANGED <<gate, resets, reply>>
  /\ UNCHANGED <<account, authFailed, provider, blind, begun>>

Build(c) ==
  LET o == op[c]
  IN  /\ o.pc = "build"
      /\ present
      /\ stored' = o.epoch
      /\ IF o.what = "refresh" THEN Finish(c, TRUE)
         ELSE IF o.count = Nil \/ o.count = 0 THEN Finish(c, FALSE)
         ELSE /\ op' = [op EXCEPT ![c].pc = "consume", ![c].version = version, ![c].second = FALSE]
              /\ UNCHANGED <<gate, resets, reply>>
      /\ UNCHANGED <<account, authFailed, provider, blind, begun>>

\* The reset takes effect and is confirmed.
Consumed(c) ==
  /\ op[c].pc = "consume"
  /\ blind' = (blind \/ credits = 0)
  /\ credits' = IF credits > 0 THEN credits - 1 ELSE 0
  /\ Finish(c, TRUE)
  /\ UNCHANGED <<account, stored, authFailed, rejected, begun>>

\* The reset fails, or takes effect and its answer is lost or not understood.
ConsumeFails(c) ==
  /\ op[c].pc = "consume"
  /\ blind' = (blind \/ credits = 0)
  /\ credits' \in IF credits > 0 THEN {credits, credits - 1} ELSE {0}
  /\ Finish(c, FALSE)
  /\ UNCHANGED <<account, stored, authFailed, rejected, begun>>

----------------------------------------------------------------------------
(* What happens around the service.                                        *)

\* The refresh worker, or another request, renews the token.
Rotate ==
  /\ present /\ version < MaxVersion
  /\ version' = version + 1
  /\ UNCHANGED <<present, op, gate, stored, authFailed, provider, history>>

\* Deleting the account deletes its snapshot.
Delete ==
  /\ present
  /\ present' = FALSE
  /\ stored' = Nil
  /\ UNCHANGED <<version, op, gate, authFailed, provider, resets, reply, blind,
                 begun>>

----------------------------------------------------------------------------

Init ==
  /\ present = TRUE
  /\ version = 1
  /\ op = [c \in Clients |-> Idle]
  /\ queue = <<>> /\ completed = 0 /\ last = Nil
  /\ stored = Nil
  /\ authFailed = {}
  /\ credits \in 0..MaxCredits
  /\ rejected = {}
  /\ resets = 0
  /\ reply = [c \in Clients |-> Nil]
  /\ blind = FALSE
  /\ begun = 0

Step(c) ==
  \/ Share(c) \/ Begin(c) \/ BeginMissing(c)
  \/ Unauthorized(c) \/ Refreshed(c) \/ RefreshRejected(c) \/ RefreshFailed(c) \/ RequestFails(c)
  \/ Answered(c) \/ CreditsRead(c) \/ Build(c) \/ Consumed(c) \/ ConsumeFails(c)

Next ==
  \/ \E c \in Clients : Call(c, "refresh") \/ Call(c, "reset")
  \/ \E c \in Clients : Step(c) \/ Cancel(c)
  \/ Rotate \/ Delete

Spec == Init /\ [][Next]_vars

----------------------------------------------------------------------------
(* Properties.                                                             *)

TypeOK ==
  /\ version \in Versions /\ completed \in Nat
  /\ queue \in Seq(Clients) /\ \A c \in Clients : (op[c].pc = "idle") <=> (c \notin Range(queue))
  /\ authFailed \subseteq Versions
  /\ stored = Nil \/ stored \in Nat

\* Only the head of the gate is past waiting, and a refresh, shared or its
\* own, returns nothing observed before a reset that has completed
\* (coordinator.rs refresh: the result of an operation that completed while
\* the caller waited is reused only if the last of them was a refresh).
RefreshSeesResets ==
  \A c \in Clients : reply'[c] # reply[c] => reply'[c].epoch = resets

\* A reset is never sent to the provider when no credit is left for it:
\* resets are serialised with the query that counts the credits
\* (coordinator.rs reset, reset_once).
NoBlindReset == ~blind

\* Authentication health is blamed only on a token version the provider has
\* refused, although the token may be renewed by others between the request
\* and the verdict (authentication.rs mark_authentication_failed).
BlameIsEarned == authFailed \subseteq rejected
====
