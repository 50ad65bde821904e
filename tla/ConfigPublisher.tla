--------------------------- MODULE ConfigPublisher ---------------------------
(***************************************************************************)
(* Publication of configuration: operators edit what they last saw, logins *)
(* and the token refresher write on top of what is current, one at a time  *)
(* under the publication lock, through a SQLite transaction, into the      *)
(* snapshot and everything that follows it.  A forced shutdown cancels a   *)
(* publication where it awaits; the process may crash and restart.         *)
(*                                                                         *)
(* A configuration is the sequence of writes that made it, so a revision   *)
(* is a length.  There is one OAuth account, of which only the token       *)
(* version matters.                                                        *)
(***************************************************************************)
EXTENDS Naturals, Sequences

CONSTANTS
  Publishers,  \* concurrent publications
  MaxRevision, \* bound: writes committed
  MaxCrashes,  \* bound: crashes
  None         \* nobody

ASSUME ConfigAssumption ==
  /\ MaxRevision \in Nat /\ MaxCrashes \in Nat
  /\ None \notin Publishers

VARIABLES
  disk,       \* the committed configuration in SQLite
  snapshot,   \* SnapshotStore.current
  latest_operator_revision,
  notified,   \* the value of revision_sender
  admitted,   \* the revision whose route admissions are published
  reconciled, \* the revision the reconciler has seen
  woken,      \* the revision for which the scheduler epoch was advanced
  serial,     \* the holder of publish_serial
  txn,        \* the holder of the write connection
  phase,      \* running, forced or down
  crashes,    \* crashes so far
  seen,       \* the revision each operator last looked at
  task        \* the publications

followers == <<notified, admitted, reconciled, woken>>
memory == <<snapshot, latest_operator_revision, followers>>
vars == <<disk, memory, serial, txn, phase, crashes, seen, task>>

Idle == [at |-> "idle", kind |-> None, expected |-> 0, base |-> 0, token |-> 0,
         since |-> 0, result |-> None, revision |-> 0]

Revision == Len(disk)
TokenAt(r) == IF r = 0 THEN 0 ELSE disk[r].token
At(p, l) == task[p].at = l
Set(p, r) == task' = [task EXCEPT ![p] = r]
GoTo(p, l) == Set(p, [task[p] EXCEPT !.at = l])

Init ==
  /\ disk = <<>>
  /\ snapshot = 0 /\ latest_operator_revision = 0
  /\ notified = 0 /\ admitted = 0 /\ reconciled = 0 /\ woken = 0
  /\ serial = None /\ txn = None
  /\ phase = "running" /\ crashes = 0
  /\ seen = [p \in Publishers |-> 0]
  /\ task = [p \in Publishers |-> Idle]

-----------------------------------------------------------------------------
(* Starting.  What an operator saw outlives the process, what a refresh    *)
(* read does not.                                                          *)

Look(p) ==
  /\ phase # "down" /\ At(p, "idle") /\ seen[p] # snapshot
  /\ seen' = [seen EXCEPT ![p] = snapshot]
  /\ UNCHANGED <<disk, memory, serial, txn, phase, crashes, task>>

Begin(p, kind) ==
  /\ phase # "down" /\ At(p, "idle")
  /\ Set(p, [Idle EXCEPT !.at = "queued", !.kind = kind, !.since = Revision,
                         !.expected = IF kind = "edit" THEN seen[p] ELSE 0,
                         !.token = IF kind = "refresh" THEN TokenAt(snapshot) ELSE 0])
  /\ UNCHANGED <<disk, memory, serial, txn, phase, crashes, seen>>

(* A publication that is over gives back what it holds.                    *)
Release(p) ==
  /\ serial' = IF serial = p THEN None ELSE serial
  /\ txn' = IF txn = p THEN None ELSE txn

Reply(p, result, r) ==
  /\ Set(p, [Idle EXCEPT !.at = "done", !.since = task[p].since,
                         !.result = result, !.revision = r])
  /\ Release(p)

Forget(p) ==
  /\ At(p, "done")
  /\ Set(p, Idle)
  /\ UNCHANGED <<disk, memory, serial, txn, phase, crashes, seen>>

-----------------------------------------------------------------------------
(* Under the publication lock.                                             *)

(* can_rebase_after_automatic_publications.                                *)
CanRebase(e) ==
  e < snapshot /\ e >= latest_operator_revision /\ snapshot >= latest_operator_revision

(* An edit is accepted against the revision it expects or rebased on the   *)
(* current one; a login takes the token of the current one.                *)
Acquire(p) ==
  /\ At(p, "queued") /\ serial = None
  /\ task[p].kind = "edit" => task[p].expected = snapshot \/ CanRebase(task[p].expected)
  /\ serial' = p
  /\ Set(p, [task[p] EXCEPT !.at = "begin", !.base = snapshot,
               !.token = IF task[p].kind = "login" THEN TokenAt(snapshot) ELSE @])
  /\ UNCHANGED <<disk, memory, txn, phase, crashes, seen>>

RevisionConflict(p) ==
  /\ At(p, "queued") /\ serial = None
  /\ task[p].kind = "edit"
  /\ task[p].expected # snapshot /\ ~CanRebase(task[p].expected)
  /\ Reply(p, "error", 0)
  /\ UNCHANGED <<disk, memory, phase, crashes, seen>>

(* begin_write, BEGIN IMMEDIATE on the one write connection.               *)
BeginWrite(p) ==
  /\ At(p, "begin") /\ txn = None
  /\ txn' = p
  /\ GoTo(p, "mutate")
  /\ UNCHANGED <<disk, memory, serial, phase, crashes, seen>>

(* The stored revision is the one the publication builds on.               *)
SameRevision(p) == Revision = task[p].base

(* require_token_version.                                                  *)
SameToken(p) == task[p].token = TokenAt(Revision)

(* The mutation changes the configuration and bumps its revision.          *)
Mutate(p) ==
  /\ At(p, "mutate") /\ SameRevision(p)
  /\ task[p].kind # "edit" => SameToken(p)
  /\ Revision < MaxRevision
  /\ GoTo(p, "compile")
  /\ UNCHANGED <<disk, memory, serial, txn, phase, crashes, seen>>

(* Nothing changes: an edit without effect, or a refresh whose account has *)
(* another token by now.  The reply is the snapshot read under the lock.   *)
NoChange(p) ==
  /\ At(p, "mutate") /\ SameRevision(p)
  /\ task[p].kind = "edit" \/ (task[p].kind = "refresh" /\ ~SameToken(p))
  /\ Reply(p, "ok", task[p].base)
  /\ UNCHANGED <<disk, memory, phase, crashes, seen>>

CompileCandidate(p) ==
  /\ At(p, "compile")
  /\ GoTo(p, "commit")
  /\ UNCHANGED <<disk, memory, serial, txn, phase, crashes, seen>>

(* What a publication writes.                                              *)
Written(p) ==
  [by |-> p, kind |-> task[p].kind, seen |-> task[p].expected,
   token_seen |-> task[p].token,
   token |-> IF task[p].kind = "edit" THEN TokenAt(Revision) ELSE TokenAt(Revision) + 1]

(* Faulty variant: a commit whose outcome is unknown is a plain error.     *)
FailAnyhow(p) ==
  /\ task[p].at \in {"begin", "mutate", "compile", "commit"}
  /\ \/ UNCHANGED disk
     \/ At(p, "commit") /\ disk' = Append(disk, Written(p))
  /\ Reply(p, "error", 0)
  /\ UNCHANGED <<memory, phase, crashes, seen>>

(* Faulty variant: a failed publication keeps the lock.                    *)
FailKeepsLock(p) ==
  /\ task[p].at \in {"begin", "mutate", "compile", "commit"}
  /\ GoTo(p, "done")
  /\ UNCHANGED <<disk, memory, serial, txn, phase, crashes, seen>>

(* Invalid commands, conflicts and errors of the database, a rejected      *)
(* candidate and a commit that failed for sure: all is rolled back.        *)
Fail(p) ==
  /\ task[p].at \in {"begin", "mutate", "compile", "commit"}
  /\ Reply(p, "error", 0)
  /\ UNCHANGED <<disk, memory, phase, crashes, seen>>

Commit(p) ==
  /\ At(p, "commit")
  /\ disk' = Append(disk, Written(p))
  /\ txn' = None
  /\ GoTo(p, "replace")
  /\ UNCHANGED <<memory, serial, phase, crashes, seen>>

-----------------------------------------------------------------------------
(* After the commit, without an await: the order in which a committed      *)
(* configuration becomes visible.                                          *)

Replace(p) ==
  /\ At(p, "replace")
  /\ snapshot' = task[p].base + 1
  /\ GoTo(p, "operator")
  /\ UNCHANGED <<disk, latest_operator_revision, followers, serial, txn, phase, crashes, seen>>

(* Faulty variant: the revision of an operator is not remembered.          *)
ForgetOperator(p) ==
  /\ At(p, "operator")
  /\ GoTo(p, "notify")
  /\ UNCHANGED <<disk, memory, serial, txn, phase, crashes, seen>>

StoreOperatorRevision(p) ==
  /\ At(p, "operator")
  /\ latest_operator_revision' =
       IF task[p].kind = "refresh" THEN latest_operator_revision ELSE snapshot
  /\ GoTo(p, "notify")
  /\ UNCHANGED <<disk, snapshot, followers, serial, txn, phase, crashes, seen>>

Notify(p) ==
  /\ At(p, "notify")
  /\ notified' = snapshot
  /\ GoTo(p, "admit")
  /\ UNCHANGED <<disk, snapshot, latest_operator_revision, admitted, reconciled, woken,
                 serial, txn, phase, crashes, seen>>

(* Faulty variant: the waiters are woken before the admissions follow.     *)
WakeEarly(p) ==
  /\ At(p, "admit")
  /\ woken' = snapshot
  /\ GoTo(p, "reconcile")
  /\ UNCHANGED <<disk, snapshot, latest_operator_revision, notified, admitted, reconciled,
                 serial, txn, phase, crashes, seen>>

PublishRouteAdmissions(p) ==
  /\ At(p, "admit")
  /\ admitted' = snapshot
  /\ GoTo(p, "reconcile")
  /\ UNCHANGED <<disk, snapshot, latest_operator_revision, notified, reconciled, woken,
                 serial, txn, phase, crashes, seen>>

(* Faulty variant: the reply does not wait for the epoch.                  *)
ReconcileAndReply(p) ==
  /\ At(p, "reconcile")
  /\ reconciled' = snapshot
  /\ Reply(p, "ok", snapshot)
  /\ UNCHANGED <<disk, snapshot, latest_operator_revision, notified, admitted, woken,
                 phase, crashes, seen>>

Reconcile(p) ==
  /\ At(p, "reconcile")
  /\ reconciled' = snapshot
  /\ GoTo(p, "wake")
  /\ UNCHANGED <<disk, snapshot, latest_operator_revision, notified, admitted, woken,
                 serial, txn, phase, crashes, seen>>

AdvanceSchedulerEpoch(p) ==
  /\ At(p, "wake")
  /\ woken' = snapshot
  /\ Reply(p, "ok", snapshot)
  /\ UNCHANGED <<disk, snapshot, latest_operator_revision, notified, admitted, reconciled,
                 phase, crashes, seen>>

-----------------------------------------------------------------------------
(* Shutdown and crashes.                                                   *)

ForceShutdown ==
  /\ phase = "running"
  /\ phase' = "forced"
  /\ UNCHANGED <<disk, memory, serial, txn, crashes, seen, task>>

(* A commit under way when its publication is gone may still land.         *)
MayLand(p) ==
  \/ UNCHANGED disk
  \/ At(p, "commit") /\ disk' = Append(disk, Written(p))

Cancel(p) ==
  /\ phase = "forced"
  /\ task[p].at \in {"queued", "begin", "mutate", "commit"}
  /\ MayLand(p)
  /\ Reply(p, "cancelled", 0)
  /\ UNCHANGED <<memory, phase, crashes, seen>>

(* The process dies; a commit whose outcome is unknown makes it abort.     *)
Crash ==
  /\ phase # "down" /\ crashes < MaxCrashes
  /\ crashes' = crashes + 1
  /\ phase' = "down"
  /\ UNCHANGED disk \/ \E p \in Publishers : MayLand(p)
  /\ serial' = None /\ txn' = None
  /\ task' = [p \in Publishers |-> Idle]
  /\ UNCHANGED <<memory, seen>>

Restart ==
  /\ phase = "down"
  /\ phase' = "running"
  /\ snapshot' = Revision /\ latest_operator_revision' = Revision
  /\ notified' = Revision /\ admitted' = Revision
  /\ reconciled' = Revision /\ woken' = Revision
  /\ UNCHANGED <<disk, serial, txn, crashes, seen, task>>

-----------------------------------------------------------------------------
(* The steps of a publication.                                             *)
Step(p) ==
  \/ BeginWrite(p) \/ Mutate(p) \/ NoChange(p) \/ CompileCandidate(p)
  \/ Fail(p) \/ Commit(p)
  \/ Replace(p) \/ StoreOperatorRevision(p) \/ Notify(p)
  \/ PublishRouteAdmissions(p) \/ Reconcile(p) \/ AdvanceSchedulerEpoch(p)

Next ==
  \/ ForceShutdown \/ Crash \/ Restart
  \/ \E p \in Publishers :
       \/ Look(p) \/ Acquire(p) \/ RevisionConflict(p) \/ Step(p) \/ Cancel(p) \/ Forget(p)
       \/ \E kind \in {"edit", "login", "refresh"} : Begin(p, kind)

(* Tasks run, and the publication lock is handed over in order.            *)
Fairness ==
  \A p \in Publishers :
    SF_vars(Acquire(p) \/ RevisionConflict(p)) /\ WF_vars(Step(p))

Spec == Init /\ [][Next]_vars /\ Fairness

-----------------------------------------------------------------------------
History == INSTANCE ConfigHistory WITH history <- disk, visible <- snapshot

(* Publication implements the history of writes: every commit builds on    *)
(* the configuration that is visible, no edit overlooks the write of       *)
(* another operator (rebases, restarts and cancelled publications          *)
(* included), and no refresh replaces a token other than the one it came   *)
(* from.                                                                   *)
ImplementsHistory == History!Spec

(* A publication that reports an error has left nothing in the database.   *)
ErrorsLeaveNoTrace ==
  \A p \in Publishers : At(p, "done") /\ task[p].result = "error" =>
    \A i \in task[p].since + 1 .. Revision : disk[i].by # p

(* A reply comes last: whoever gets a revision, an unchanged one included, *)
(* finds it in the snapshot, the admissions, the reconciled components and *)
(* the epoch of the waiters.                                               *)
ReplyComesLast ==
  \A p \in Publishers : At(p, "done") /\ task[p].result = "ok" =>
    \A r \in {snapshot, notified, admitted, reconciled, woken} : r >= task[p].revision

(* Who is woken by the epoch finds the snapshot, the revision in the watch *)
(* channel, the admissions and the reconciled components at least as new   *)
(* as what it was woken for; who is woken by the watch channel is sure of  *)
(* the snapshot only.                                                      *)
WokenSeeTheNews ==
  /\ woken <= reconciled /\ reconciled <= admitted
  /\ admitted <= notified /\ notified <= snapshot

(* Every publication ends, so the lock is never kept.                      *)
PublicationsEnd == \A p \in Publishers : At(p, "queued") ~> task[p].at \in {"done", "idle"}
=============================================================================
