------------------------ MODULE ConfigPublisherProofs ------------------------
(***************************************************************************)
(* Publication implements the abstract history of writes, for any number   *)
(* of publishers, writes and crashes.                                      *)
(***************************************************************************)
EXTENDS ConfigPublisher, TLAPS

Kinds == {"edit", "login", "refresh"}

Write == [by : Publishers, kind : Kinds, seen : Nat, token_seen : Nat, token : Nat]

Places == {"idle", "queued", "begin", "mutate", "compile", "commit", "replace",
           "operator", "notify", "admit", "reconcile", "wake", "done"}

Task == [at : Places, kind : Kinds \cup {None}, expected : Nat, base : Nat,
         token : Nat, since : Nat, result : {None, "ok", "error", "cancelled"},
         revision : Nat]

Types ==
  /\ disk \in Seq(Write)
  /\ snapshot \in Nat /\ latest_operator_revision \in Nat
  /\ seen \in [Publishers -> Nat]
  /\ task \in [Publishers -> Task]
  /\ \A p \in Publishers : task[p].at \notin {"idle", "done"} => task[p].kind \in Kinds

(* Where a publication holds the lock, builds on the snapshot, has found   *)
(* the database at the same revision.                                      *)
Locked == Places \ {"idle", "queued", "done"}
Building == {"begin", "mutate", "compile", "commit"}
Checked == {"compile", "commit"}

Alive == \A p \in Publishers : task[p].at # "idle" => phase # "down"

OneHolder == \A p \in Publishers : task[p].at \in Locked => serial = p

(* The snapshot a publication builds on cannot move under it, and from its *)
(* check of the stored revision to the replacement neither can the disk.   *)
BuildsOnSnapshot ==
  \A p \in Publishers :
    /\ task[p].at \in Building => task[p].base = snapshot
    /\ task[p].at \in Checked => Len(disk) = snapshot
    /\ task[p].at = "replace" =>
         /\ Len(disk) = snapshot + 1 /\ task[p].base = snapshot
         /\ disk[snapshot + 1].kind = task[p].kind
    /\ task[p].at = "operator" => snapshot > 0 /\ disk[snapshot].kind = task[p].kind

(* While the process is up, there are only refreshes since the remembered  *)
(* operator revision, except for the write about to be remembered.         *)
OnlyRefreshes ==
  phase # "down" => \A i \in latest_operator_revision + 1 .. snapshot :
    \/ disk[i].kind = "refresh"
    \/ i = snapshot /\ \E p \in Publishers : task[p].at = "operator"

(* A publication in progress is legal on top of the snapshot.              *)
Justified ==
  \A p \in Publishers :
    /\ task[p].kind = "edit" /\ task[p].at \in Building =>
         \A i \in task[p].expected + 1 .. snapshot : disk[i].kind = "refresh"
    /\ task[p].kind # "edit" /\ task[p].at \in Checked => task[p].token = TokenAt(Len(disk))

IInv ==
  /\ Types
  /\ snapshot <= Len(disk)
  /\ Alive /\ OneHolder /\ BuildsOnSnapshot /\ OnlyRefreshes /\ Justified
-----------------------------------------------------------------------------
(* The invariant is inductive.  Most steps move one publication and leave  *)
(* disk and snapshot alone.                                                *)

USE ConfigAssumption
USE DEF At, Set, Revision, memory, followers

(* A step of one publication that leaves disk and snapshot alone.          *)
LEMMA TaskStep ==
  ASSUME IInv, NEW p \in Publishers, NEW t \in Task,
         task' = [task EXCEPT ![p] = t],
         UNCHANGED <<disk, snapshot, latest_operator_revision, phase>>,
         seen' \in [Publishers -> Nat],
         serial' = serial \/ serial \in {None, p},
         t.at \notin {"idle", "done"} => t.kind \in Kinds,
         t.at # "idle" => phase # "down",
         t.at \in Locked => serial' = p,
         t.at \notin {"replace", "operator"}, task[p].at # "operator",
         t.at \in Building => t.base = snapshot,
         t.at \in Checked => Len(disk) = snapshot,
         t.kind = "edit" /\ t.at \in Building =>
           \A i \in t.expected + 1 .. snapshot : disk[i].kind = "refresh",
         t.kind # "edit" /\ t.at \in Checked => t.token = TokenAt(Len(disk))
  PROVE  IInv'
<1>0. /\ task \in [Publishers -> Task] /\ task' \in [Publishers -> Task]
      /\ task'[p] = t /\ \A q \in Publishers : q # p => task'[q] = task[q]
  BY DEF IInv, Types
<1>1. Types'
  BY <1>0 DEF IInv, Types
<1>2. (snapshot <= Len(disk))' /\ Alive'
  BY <1>0 DEF IInv, Alive
<1>3. OneHolder'
  BY <1>0 DEF IInv, OneHolder
<1>4. BuildsOnSnapshot'
  BY <1>0 DEF IInv, BuildsOnSnapshot
<1>5. OnlyRefreshes'
  BY <1>0 DEF IInv, OnlyRefreshes
<1>6. Justified'
  BY <1>0 DEF IInv, Justified, TokenAt
<1> QED BY <1>1, <1>2, <1>3, <1>4, <1>5, <1>6 DEF IInv

(* A publication that only moves on.                                       *)
LEMMA MoveStep ==
  ASSUME IInv, NEW p \in Publishers, NEW l \in Places,
         GoTo(p, l), task[p].at \in Locked \ {"operator"},
         l \notin {"idle", "done", "replace", "operator"},
         UNCHANGED <<disk, snapshot, latest_operator_revision, phase, seen, serial>>,
         l \in Building => task[p].at \in Building,
         l \in Checked => Len(disk) = snapshot,
         l \in Checked /\ task[p].kind # "edit" => task[p].token = TokenAt(Len(disk))
  PROVE  IInv'
<1> DEFINE t == [task[p] EXCEPT !.at = l]
<1>1. task[p] \in Task /\ t \in Task /\ t.at = l /\ t.kind = task[p].kind
      /\ t.base = task[p].base /\ t.expected = task[p].expected /\ t.token = task[p].token
  BY DEF IInv, Types, Task
<1>2. task[p].kind \in Kinds /\ phase # "down" /\ serial = p
  BY DEF IInv, Types, Alive, OneHolder, Locked
<1>3. l \in Building =>
        /\ t.base = snapshot
        /\ t.kind = "edit" => \A i \in t.expected + 1 .. snapshot : disk[i].kind = "refresh"
  BY <1>1 DEF IInv, BuildsOnSnapshot, Justified
<1> HIDE DEF t
<1>4. seen \in [Publishers -> Nat] /\ task' = [task EXCEPT ![p] = t]
  BY DEF t, GoTo, IInv, Types
<1> QED BY <1>1, <1>2, <1>3, <1>4, TaskStep DEF Locked

(* A publication that replies.                                             *)
LEMMA ReplyStep ==
  ASSUME IInv, NEW p \in Publishers, NEW result \in {"ok", "error", "cancelled"},
         NEW r \in Nat, Reply(p, result, r), task[p].at \notin {"idle", "operator"},
         UNCHANGED <<disk, snapshot, latest_operator_revision, phase, seen>>
  PROVE  IInv'
<1> DEFINE t == [Idle EXCEPT !.at = "done", !.since = task[p].since,
                             !.result = result, !.revision = r]
<1>1. t \in Task /\ t.at = "done"
  BY DEF IInv, Types, Task, Idle, Places
<1>2. phase # "down"
  BY DEF IInv, Alive
<1> HIDE DEF t
<1>3. seen \in [Publishers -> Nat] /\ task' = [task EXCEPT ![p] = t]
      /\ (serial' = serial \/ serial \in {None, p})
  BY DEF t, Reply, Release, IInv, Types
<1> QED BY <1>1, <1>2, <1>3, TaskStep DEF Locked, Building, Checked

(* Starting and ending.                                                    *)

(* The token of a committed revision is a number.                          *)
LEMMA TokenType == ASSUME IInv, NEW r \in Nat, r <= Len(disk) PROVE TokenAt(r) \in Nat
<1>1. CASE r = 0
  BY <1>1 DEF TokenAt
<1>2. CASE r # 0
  <2>1. r \in 1 .. Len(disk) /\ disk \in Seq(Write)
    BY <1>2 DEF IInv, Types
  <2>2. disk[r] \in Write
    BY <2>1
  <2> QED BY <1>2, <2>2 DEF TokenAt, Write
<1> QED BY <1>1, <1>2

(* Looking at the snapshot changes nothing the invariant speaks of.        *)
LEMMA LookKeeps == ASSUME IInv, NEW p \in Publishers, Look(p) PROVE IInv'
  BY DEF Look, IInv, Types, Alive, OneHolder, BuildsOnSnapshot, OnlyRefreshes, Justified, TokenAt

(* A publication that is queued holds nothing yet.                         *)
LEMMA BeginKeeps ==
  ASSUME IInv, NEW p \in Publishers, NEW kind \in Kinds, Begin(p, kind)
  PROVE  IInv'
<1> DEFINE t == [Idle EXCEPT !.at = "queued", !.kind = kind, !.since = Revision,
                   !.expected = IF kind = "edit" THEN seen[p] ELSE 0,
                   !.token = IF kind = "refresh" THEN TokenAt(snapshot) ELSE 0]
<1>1. TokenAt(snapshot) \in Nat
  BY TokenType DEF IInv, Types
<1>2. seen[p] \in Nat /\ Len(disk) \in Nat
  BY DEF IInv, Types
<1>3. t \in Task /\ t.at = "queued" /\ t.kind = kind
  BY <1>1, <1>2 DEF Task, Idle, Places
<1> HIDE DEF t
<1>4. seen \in [Publishers -> Nat] /\ task' = [task EXCEPT ![p] = t]
  BY DEF t, Begin, IInv, Types
<1> QED BY <1>3, <1>4, TaskStep DEF Begin, Locked, Building, Checked

(* A reply that was read leaves nothing behind.                            *)
LEMMA ForgetKeeps == ASSUME IInv, NEW p \in Publishers, Forget(p) PROVE IInv'
<1>1. Idle \in Task /\ Idle.at = "idle"
  BY DEF Task, Idle, Places
<1> QED BY <1>1, TaskStep DEF Forget, Locked, Building, Checked, IInv, Types

(* Taking the lock: an edit whose expected revision is current overlooks   *)
(* nothing, a rebased one only refreshes.                                  *)
LEMMA AcquireKeeps == ASSUME IInv, NEW p \in Publishers, Acquire(p) PROVE IInv'
<1> DEFINE t == [task[p] EXCEPT !.at = "begin", !.base = snapshot,
                   !.token = IF task[p].kind = "login" THEN TokenAt(snapshot) ELSE @]
<1>0. task[p] \in Task /\ TokenAt(snapshot) \in Nat /\ snapshot \in Nat
  BY TokenType DEF IInv, Types
<1>1. t \in Task /\ t.at = "begin" /\ t.kind = task[p].kind /\ t.base = snapshot
      /\ t.expected = task[p].expected
  BY <1>0 DEF Task, Places
<1>2. task[p].kind \in Kinds /\ phase # "down"
  BY DEF Acquire, IInv, Types, Alive
<1>3. \A q \in Publishers : task[q].at # "operator"
  BY DEF Acquire, IInv, OneHolder, Locked, Places
<1>4. ASSUME task[p].kind = "edit"
      PROVE  \A i \in task[p].expected + 1 .. snapshot : disk[i].kind = "refresh"
  <2>1. task[p].expected \in Nat /\ snapshot \in Nat /\ latest_operator_revision \in Nat
    BY <1>0 DEF Task, IInv, Types
  <2>2. CASE task[p].expected = snapshot
    BY <2>1, <2>2
  <2>3. CASE CanRebase(task[p].expected)
    BY <2>1, <2>3, <1>2, <1>3 DEF CanRebase, IInv, OnlyRefreshes
  <2> QED BY <1>4, <2>2, <2>3 DEF Acquire
<1> HIDE DEF t
<1>5. seen \in [Publishers -> Nat] /\ task' = [task EXCEPT ![p] = t]
  BY DEF t, Acquire, IInv, Types
<1>6. t.kind = "edit" => \A i \in t.expected + 1 .. snapshot : disk[i].kind = "refresh"
  BY <1>1, <1>4
<1>7. /\ UNCHANGED <<disk, snapshot, latest_operator_revision, phase, seen>>
      /\ serial = None /\ serial' = p /\ task[p].at = "queued"
  BY DEF Acquire
<1> QED BY <1>1, <1>2, <1>5, <1>6, <1>7, TaskStep DEF Building, Checked

(* The check of the stored revision is what makes a publication legal.     *)
LEMMA MutateKeeps == ASSUME IInv, NEW p \in Publishers, Mutate(p) PROVE IInv'
<1>1. Len(disk) = snapshot
  BY DEF Mutate, SameRevision, IInv, BuildsOnSnapshot, Building
<1> QED BY <1>1, MoveStep DEF Mutate, SameToken, Locked, Places, Building

(* The steps that move a publication on, or end it.                        *)
LEMMA MovesKeep ==
  ASSUME IInv, NEW p \in Publishers,
         \/ BeginWrite(p) \/ CompileCandidate(p) \/ Notify(p)
         \/ PublishRouteAdmissions(p) \/ Reconcile(p)
  PROVE  IInv'
<1>1. CASE BeginWrite(p)
  BY <1>1, MoveStep DEF BeginWrite, Locked, Places, Building, Checked
<1>2. CASE CompileCandidate(p)
  <2>1. Len(disk) = snapshot /\ (task[p].kind # "edit" => task[p].token = TokenAt(Len(disk)))
    BY <1>2 DEF CompileCandidate, IInv, BuildsOnSnapshot, Justified, Checked
  <2> QED BY <1>2, <2>1, MoveStep DEF CompileCandidate, Locked, Places, Building
<1>3. CASE Notify(p)
  BY <1>3, MoveStep DEF Notify, Locked, Places, Building, Checked
<1>4. CASE PublishRouteAdmissions(p)
  BY <1>4, MoveStep DEF PublishRouteAdmissions, Locked, Places, Building, Checked
<1>5. CASE Reconcile(p)
  BY <1>5, MoveStep DEF Reconcile, Locked, Places, Building, Checked
<1> QED BY <1>1, <1>2, <1>3, <1>4, <1>5

(* The steps that end a publication.                                       *)
LEMMA RepliesKeep ==
  ASSUME IInv, NEW p \in Publishers,
         RevisionConflict(p) \/ NoChange(p) \/ Fail(p) \/ AdvanceSchedulerEpoch(p)
  PROVE  IInv'
<1>1. task[p].base \in Nat /\ snapshot \in Nat
  BY DEF IInv, Types, Task
<1>2. CASE RevisionConflict(p)
  BY <1>2, ReplyStep DEF RevisionConflict
<1>3. CASE NoChange(p)
  BY <1>1, <1>3, ReplyStep DEF NoChange
<1>4. CASE Fail(p)
  BY <1>4, ReplyStep DEF Fail
<1>5. CASE AdvanceSchedulerEpoch(p)
  BY <1>1, <1>5, ReplyStep DEF AdvanceSchedulerEpoch
<1> QED BY <1>2, <1>3, <1>4, <1>5

(* The steps that change disk, snapshot or the remembered revision.        *)

(* Whoever works under the lock works alone.                               *)
LEMMA OthersUnlocked ==
  ASSUME IInv, NEW p \in Publishers, task[p].at \in Locked,
         NEW q \in Publishers, q # p
  PROVE  task[q].at \notin Locked
  BY DEF IInv, OneHolder

(* A write that lands extends the configuration the snapshot shows.        *)
LEMMA Landing ==
  ASSUME IInv, NEW p \in Publishers, At(p, "commit"), disk' = Append(disk, Written(p))
  PROVE  /\ Written(p) \in Write /\ disk' \in Seq(Write)
         /\ Len(disk) = snapshot /\ Len(disk') = snapshot + 1
         /\ \A i \in 1 .. snapshot : disk'[i] = disk[i]
         /\ disk'[snapshot + 1] = Written(p)
<1>1. task[p] \in Task /\ task[p].kind \in Kinds /\ disk \in Seq(Write) /\ snapshot \in Nat
  BY DEF IInv, Types
<1>2. TokenAt(Len(disk)) \in Nat
  BY <1>1, TokenType
<1>3. Written(p) \in Write
  BY <1>1, <1>2 DEF Written, Write, Task
<1>4. Len(disk) = snapshot
  BY DEF IInv, BuildsOnSnapshot, Checked
<1> DEFINE w == Written(p)
<1>5. w \in Write /\ disk' = Append(disk, w)
  BY <1>3
<1> HIDE DEF w
<1>6. /\ disk' \in Seq(Write) /\ Len(disk') = snapshot + 1
      /\ \A i \in 1 .. snapshot : disk'[i] = disk[i]
      /\ disk'[snapshot + 1] = w
  BY <1>1, <1>4, <1>5
<1> QED BY <1>3, <1>4, <1>6 DEF w

(* Commit puts the write one ahead of the snapshot.                        *)
LEMMA CommitKeeps == ASSUME IInv, NEW p \in Publishers, Commit(p) PROVE IInv'
<1>0. /\ disk' \in Seq(Write)
      /\ Len(disk) = snapshot /\ Len(disk') = snapshot + 1
      /\ \A i \in 1 .. snapshot : disk'[i] = disk[i]
      /\ disk'[snapshot + 1].kind = task[p].kind
  BY Landing DEF Commit, Written
<1>1. \A q \in Publishers : q # p => task[q].at \notin Locked
  BY OthersUnlocked DEF Commit, Locked, Places
<1> DEFINE t == [task[p] EXCEPT !.at = "replace"]
<1>2. /\ t \in Task /\ t.at = "replace" /\ t.kind = task[p].kind /\ t.kind \in Kinds
      /\ t.base = snapshot
  BY DEF Commit, IInv, Types, Task, Places, BuildsOnSnapshot, Building
<1>3. task' = [task EXCEPT ![p] = t] /\ serial = p /\ phase # "down"
  BY DEF Commit, GoTo, IInv, OneHolder, Locked, Places, Alive
<1> HIDE DEF t
<1>4. /\ task' \in [Publishers -> Task] /\ task'[p] = t
      /\ \A q \in Publishers : q # p => task'[q] = task[q]
  BY <1>2, <1>3 DEF IInv, Types
<1>5. snapshot \in Nat /\ latest_operator_revision \in Nat
      /\ UNCHANGED <<snapshot, latest_operator_revision, serial, phase, seen>>
  BY DEF Commit, IInv, Types
<1>6. Types'
  BY <1>0, <1>2, <1>4, <1>5 DEF IInv, Types
<1>7. (snapshot <= Len(disk))' /\ Alive' /\ OneHolder'
  BY <1>0, <1>1, <1>2, <1>3, <1>4, <1>5 DEF IInv, Alive, OneHolder
<1>8. BuildsOnSnapshot' /\ Justified'
  BY <1>0, <1>1, <1>2, <1>4, <1>5
  DEF BuildsOnSnapshot, Justified, Building, Checked, Locked, Places
<1>9. OnlyRefreshes'
  <2>1. \A q \in Publishers : task[q].at # "operator"
    BY <1>1 DEF Commit, Locked, Places
  <2> QED BY <1>0, <1>5, <2>1 DEF IInv, OnlyRefreshes
<1> QED BY <1>6, <1>7, <1>8, <1>9 DEF IInv

(* The replacement makes up for it.                                        *)
LEMMA ReplaceKeeps == ASSUME IInv, NEW p \in Publishers, Replace(p) PROVE IInv'
<1>0. /\ Len(disk) = snapshot + 1 /\ task[p].base = snapshot /\ snapshot \in Nat
      /\ latest_operator_revision \in Nat
      /\ disk[snapshot + 1].kind = task[p].kind
  BY DEF Replace, IInv, BuildsOnSnapshot, Types
<1>1. \A q \in Publishers : q # p => task[q].at \notin Locked
  BY OthersUnlocked DEF Replace, Locked, Places
<1> DEFINE t == [task[p] EXCEPT !.at = "operator"]
<1>2. /\ t \in Task /\ t.at = "operator" /\ t.kind = task[p].kind /\ t.kind \in Kinds
  BY DEF Replace, IInv, Types, Task, Places
<1>3. task' = [task EXCEPT ![p] = t] /\ serial = p /\ phase # "down"
  BY DEF Replace, GoTo, IInv, OneHolder, Locked, Places, Alive
<1> HIDE DEF t
<1>4. /\ task' \in [Publishers -> Task] /\ task'[p] = t
      /\ \A q \in Publishers : q # p => task'[q] = task[q]
  BY <1>2, <1>3 DEF IInv, Types
<1>5. snapshot' = snapshot + 1
      /\ UNCHANGED <<disk, latest_operator_revision, serial, phase, seen>>
  BY <1>0 DEF Replace
<1>6. Types'
  BY <1>0, <1>2, <1>4, <1>5 DEF IInv, Types
<1>7. (snapshot <= Len(disk))' /\ Alive' /\ OneHolder'
  BY <1>0, <1>1, <1>2, <1>3, <1>4, <1>5 DEF IInv, Alive, OneHolder
<1>8. BuildsOnSnapshot' /\ Justified'
  BY <1>0, <1>1, <1>2, <1>4, <1>5
  DEF BuildsOnSnapshot, Justified, Building, Checked, Locked, Places
<1>9. OnlyRefreshes'
  <2>1. \A q \in Publishers : task[q].at # "operator"
    BY <1>1 DEF Replace, Locked, Places
  <2>2. \A i \in latest_operator_revision + 1 .. snapshot : disk[i].kind = "refresh"
    BY <1>3, <2>1 DEF IInv, OnlyRefreshes
  <2> QED BY <1>0, <1>2, <1>4, <1>5, <2>2 DEF OnlyRefreshes
<1> QED BY <1>6, <1>7, <1>8, <1>9 DEF IInv

(* Remembering the revision, unless a refresh made it.                     *)
LEMMA StoreKeeps == ASSUME IInv, NEW p \in Publishers, StoreOperatorRevision(p) PROVE IInv'
<1>0. /\ disk[snapshot].kind = task[p].kind /\ snapshot \in Nat
      /\ latest_operator_revision \in Nat /\ task[p].kind \in Kinds
  BY DEF StoreOperatorRevision, IInv, BuildsOnSnapshot, Types
<1>1. \A q \in Publishers : q # p => task[q].at \notin Locked
  BY OthersUnlocked DEF StoreOperatorRevision, Locked, Places
<1> DEFINE t == [task[p] EXCEPT !.at = "notify"]
<1>2. t \in Task /\ t.at = "notify" /\ t.kind = task[p].kind
  BY DEF IInv, Types, Task, Places
<1>3. task' = [task EXCEPT ![p] = t] /\ serial = p /\ phase # "down"
  BY DEF StoreOperatorRevision, GoTo, IInv, OneHolder, Locked, Places, Alive
<1> HIDE DEF t
<1>4. /\ task' \in [Publishers -> Task] /\ task'[p] = t
      /\ \A q \in Publishers : q # p => task'[q] = task[q]
  BY <1>2, <1>3 DEF IInv, Types
<1>5. UNCHANGED <<disk, snapshot, serial, phase, seen>>
      /\ latest_operator_revision' =
           IF task[p].kind = "refresh" THEN latest_operator_revision ELSE snapshot
  BY DEF StoreOperatorRevision
<1>6. Types'
  BY <1>0, <1>2, <1>4, <1>5 DEF IInv, Types
<1>7. (snapshot <= Len(disk))' /\ Alive' /\ OneHolder'
  BY <1>0, <1>1, <1>2, <1>3, <1>4, <1>5 DEF IInv, Alive, OneHolder
<1>8. BuildsOnSnapshot' /\ Justified'
  BY <1>1, <1>2, <1>4 DEF BuildsOnSnapshot, Justified, Building, Checked, Locked, Places
<1>9. OnlyRefreshes'
  <2>1. CASE task[p].kind = "refresh"
    <3>1. \A i \in latest_operator_revision + 1 .. snapshot : disk[i].kind = "refresh"
      BY <1>0, <1>3, <2>1 DEF IInv, OnlyRefreshes
    <3> QED BY <1>5, <2>1, <3>1 DEF OnlyRefreshes
  <2>2. CASE task[p].kind # "refresh"
    BY <1>0, <1>5, <2>2 DEF OnlyRefreshes
  <2> QED BY <2>1, <2>2
<1> QED BY <1>6, <1>7, <1>8, <1>9 DEF IInv

(* When nobody is at work, only the types and the remembered revision are  *)
(* left to check.                                                          *)
LEMMA NobodyLocked ==
  ASSUME Types', (snapshot <= Len(disk))', Alive', OnlyRefreshes',
         \A q \in Publishers : task'[q].at \notin Locked
  PROVE  IInv'
<1>1. OneHolder'
  BY DEF OneHolder
<1>2. BuildsOnSnapshot' /\ Justified'
  BY DEF BuildsOnSnapshot, Justified, Building, Checked, Locked, Places
<1> QED BY <1>1, <1>2 DEF IInv

(* A cancelled commit may land, and then nobody is at work.                *)
LEMMA CancelKeeps == ASSUME IInv, NEW p \in Publishers, Cancel(p) PROVE IInv'
<1>1. CASE UNCHANGED disk
  <2>1. task[p].at \notin {"idle", "operator"}
    BY DEF Cancel
  <2> QED BY <1>1, <2>1, ReplyStep DEF Cancel
<1>2. CASE At(p, "commit") /\ disk' = Append(disk, Written(p))
  <2>0. /\ disk' \in Seq(Write)
        /\ Len(disk) = snapshot /\ Len(disk') = snapshot + 1
        /\ \A i \in 1 .. snapshot : disk'[i] = disk[i]
    BY <1>2, Landing
  <2>1. \A q \in Publishers : q # p => task[q].at \notin Locked
    BY <1>2, OthersUnlocked DEF Locked, Places
  <2> DEFINE t == [Idle EXCEPT !.at = "done", !.since = task[p].since,
                               !.result = "cancelled", !.revision = 0]
  <2>2. t \in Task /\ t.at = "done"
    BY DEF IInv, Types, Task, Idle, Places
  <2>3. task' = [task EXCEPT ![p] = t] /\ phase = "forced"
    BY DEF Cancel, Reply
  <2> HIDE DEF t
  <2>4. /\ task' \in [Publishers -> Task] /\ task'[p] = t
        /\ \A q \in Publishers : q # p => task'[q] = task[q]
    BY <2>2, <2>3 DEF IInv, Types
  <2>5. snapshot \in Nat /\ latest_operator_revision \in Nat
        /\ UNCHANGED <<snapshot, latest_operator_revision, phase, seen>>
    BY DEF Cancel, IInv, Types
  <2>6. Types' /\ (snapshot <= Len(disk))' /\ Alive'
    BY <2>0, <2>2, <2>3, <2>4, <2>5 DEF IInv, Types, Alive
  <2>7. OnlyRefreshes'
    <3>1. \A q \in Publishers : task[q].at # "operator"
      BY <1>2, <2>1 DEF Locked, Places
    <3> QED BY <2>0, <2>3, <2>5, <3>1 DEF IInv, OnlyRefreshes
  <2>8. \A q \in Publishers : task'[q].at \notin Locked
    BY <2>1, <2>2, <2>4 DEF Locked
  <2> QED BY <2>6, <2>7, <2>8, NobodyLocked
<1> QED BY <1>1, <1>2 DEF Cancel, MayLand

(* So may the commit a crash interrupts.                                   *)
LEMMA CrashKeeps == ASSUME IInv, Crash PROVE IInv'
<1>1. disk' \in Seq(Write) /\ snapshot <= Len(disk')
  <2>1. CASE UNCHANGED disk
    BY <2>1 DEF IInv, Types
  <2>2. ASSUME NEW p \in Publishers, At(p, "commit"), disk' = Append(disk, Written(p))
        PROVE  disk' \in Seq(Write) /\ snapshot <= Len(disk')
    <3>1. disk' \in Seq(Write) /\ Len(disk') = snapshot + 1 /\ snapshot \in Nat
      BY <2>2, Landing DEF IInv, Types
    <3> QED BY <3>1
  <2> QED BY <2>1, <2>2 DEF Crash, MayLand
<1>2. Idle \in Task /\ Idle.at = "idle"
  BY DEF Task, Idle, Places
<1>3. task' \in [Publishers -> Task] /\ \A q \in Publishers : task'[q].at = "idle"
  BY <1>2 DEF Crash
<1>4. phase' = "down" /\ UNCHANGED <<snapshot, latest_operator_revision, seen>>
  BY DEF Crash
<1>5. Types' /\ (snapshot <= Len(disk))' /\ Alive' /\ OnlyRefreshes'
  BY <1>1, <1>3, <1>4 DEF IInv, Types, Alive, OnlyRefreshes
<1> QED BY <1>3, <1>5, NobodyLocked DEF Locked

(* A restart reloads what is on the disk.                                  *)
LEMMA RestartKeeps == ASSUME IInv, Restart PROVE IInv'
<1>1. \A q \in Publishers : task[q].at = "idle"
  BY DEF Restart, IInv, Alive
<1>2. /\ UNCHANGED <<disk, task, seen>> /\ Len(disk) \in Nat
      /\ snapshot' = Len(disk) /\ latest_operator_revision' = Len(disk)
  BY DEF Restart, IInv, Types
<1>3. Types' /\ (snapshot <= Len(disk))' /\ Alive' /\ OnlyRefreshes'
  BY <1>1, <1>2 DEF IInv, Types, Alive, OnlyRefreshes
<1> QED BY <1>1, <1>2, <1>3, NobodyLocked DEF Locked

(* A forced shutdown changes the phase only.                               *)
LEMMA ForceShutdownKeeps == ASSUME IInv, ForceShutdown PROVE IInv'
<1>1. UNCHANGED <<disk, snapshot, latest_operator_revision, serial, seen, task>>
      /\ phase # "down"
  BY DEF ForceShutdown
<1>2. Types' /\ Alive' /\ OneHolder' /\ BuildsOnSnapshot'
  BY <1>1 DEF ForceShutdown, IInv, Types, Alive, OneHolder, BuildsOnSnapshot
<1>3. OnlyRefreshes' /\ Justified' /\ (snapshot <= Len(disk))'
  BY <1>1 DEF IInv, OnlyRefreshes, Justified, TokenAt
<1> QED BY <1>2, <1>3 DEF IInv

(* Init establishes the invariant and every step keeps it.                 *)
LEMMA Initially == Init => IInv
<1> SUFFICES ASSUME Init PROVE IInv
  OBVIOUS
<1>1. Idle \in Task /\ Idle.at = "idle"
  BY DEF Task, Idle, Places
<1>2. task \in [Publishers -> Task] /\ \A p \in Publishers : task[p].at = "idle"
  BY <1>1 DEF Init
<1>3. disk = <<>> /\ Len(disk) = 0 /\ snapshot = 0 /\ latest_operator_revision = 0
      /\ seen \in [Publishers -> Nat] /\ disk \in Seq(Write)
  BY DEF Init
<1>4. Types /\ snapshot <= Len(disk) /\ Alive
  BY <1>2, <1>3 DEF Types, Alive
<1>5. OneHolder /\ BuildsOnSnapshot /\ Justified
  BY <1>2 DEF OneHolder, BuildsOnSnapshot, Justified, Locked, Building, Checked
<1>6. OnlyRefreshes
  BY <1>3 DEF OnlyRefreshes
<1> QED BY <1>4, <1>5, <1>6 DEF IInv

(* Every step keeps the invariant, one case per action.                    *)
LEMMA Inductive == IInv /\ [Next]_vars => IInv'
<1> SUFFICES ASSUME IInv, [Next]_vars PROVE IInv'
  OBVIOUS
<1>1. CASE UNCHANGED vars
  BY <1>1 DEF vars, IInv, Types, Alive, OneHolder, BuildsOnSnapshot, OnlyRefreshes,
              Justified, TokenAt
<1>2. CASE ForceShutdown \/ Crash \/ Restart
  BY <1>2, ForceShutdownKeeps, CrashKeeps, RestartKeeps
<1>3. ASSUME NEW p \in Publishers,
             Look(p) \/ Acquire(p) \/ RevisionConflict(p) \/ Step(p) \/ Cancel(p) \/ Forget(p)
      PROVE  IInv'
  BY <1>3, LookKeeps, AcquireKeeps, RepliesKeep, MovesKeep, MutateKeeps, CommitKeeps,
     ReplaceKeeps, StoreKeeps, CancelKeeps, ForgetKeeps DEF Step
<1>4. ASSUME NEW p \in Publishers, NEW kind \in Kinds, Begin(p, kind)
      PROVE  IInv'
  BY <1>4, BeginKeeps
<1> QED BY <1>1, <1>2, <1>3, <1>4 DEF Next, Kinds

(* The invariant holds throughout: the lock is held by who works under it, *)
(* the snapshot cannot move under a publication, and only refreshes come   *)
(* after the remembered operator revision.                                 *)
THEOREM InvariantHolds == Spec => []IInv
  BY Initially, Inductive, PTL DEF Spec

-----------------------------------------------------------------------------
(* Refinement.  A write that lands is a commit of the history, a replaced  *)
(* or reloaded snapshot exposes it, and everything else leaves both alone. *)

(* The token of the history is the one stored on the disk.                 *)
LEMMA TokenOfDisk == ASSUME IInv PROVE History!TokenOf(disk) = TokenAt(Len(disk))
<1>1. disk \in Seq(Write)
  BY DEF IInv, Types
<1>2. disk = <<>> <=> Len(disk) = 0
  BY <1>1
<1> QED BY <1>2 DEF History!TokenOf, TokenAt

(* A write that lands, by a commit, a cancelled or a crashed one.          *)
LEMMA LandingIsCommit ==
  ASSUME IInv, NEW p \in Publishers, At(p, "commit"), disk' = Append(disk, Written(p)),
         UNCHANGED snapshot
  PROVE  History!Commit
<1>1. /\ Len(disk) = snapshot /\ Len(disk') = snapshot + 1
      /\ disk'[snapshot + 1] = Written(p)
  BY Landing
<1>2. Written(p).kind = "edit" =>
        \A i \in Written(p).seen + 1 .. Len(disk) : disk[i].kind = "refresh"
  BY <1>1 DEF Written, IInv, Justified, Building
<1>3. Written(p).kind # "edit" => Written(p).token_seen = History!TokenOf(disk)
  BY TokenOfDisk DEF Written, IInv, Justified, Checked
<1>4. Written(p).token = IF Written(p).kind = "edit" THEN History!TokenOf(disk)
                                                      ELSE History!TokenOf(disk) + 1
  BY TokenOfDisk DEF Written
<1>5. History!Legal(disk, Written(p))
  BY <1>2, <1>3, <1>4 DEF History!Legal
<1> QED BY <1>1, <1>5 DEF History!Commit

(* Every step is one of the history, or leaves it alone.                   *)
LEMMA StepSimulates == IInv /\ [Next]_vars => [History!Next]_(History!vars)
<1> SUFFICES ASSUME IInv, [Next]_vars PROVE History!Next \/ UNCHANGED <<disk, snapshot>>
  BY DEF History!vars
<1>1. CASE UNCHANGED vars
  BY <1>1 DEF vars
<1>2. CASE ForceShutdown
  BY <1>2 DEF ForceShutdown
<1>3. CASE Crash
  BY <1>3, LandingIsCommit DEF Crash, MayLand, History!Next
<1>4. CASE Restart
  BY <1>4 DEF Restart, History!Next, History!Expose
<1>5. ASSUME NEW p \in Publishers, Cancel(p)
      PROVE  History!Next \/ UNCHANGED <<disk, snapshot>>
  BY <1>5, LandingIsCommit DEF Cancel, MayLand, History!Next
<1>6. ASSUME NEW p \in Publishers, Step(p)
      PROVE  History!Next \/ UNCHANGED <<disk, snapshot>>
  <2>1. CASE Commit(p)
    BY <2>1, LandingIsCommit DEF Commit, History!Next
  <2>2. CASE Replace(p)
    <3>1. snapshot + 1 = Len(disk) /\ task[p].base = snapshot
      BY <2>2 DEF Replace, IInv, BuildsOnSnapshot
    <3> QED BY <2>2, <3>1 DEF Replace, History!Next, History!Expose
  <2>3. CASE BeginWrite(p) \/ Mutate(p) \/ NoChange(p) \/ CompileCandidate(p) \/ Fail(p)
    BY <2>3 DEF BeginWrite, Mutate, NoChange, CompileCandidate, Fail
  <2>4. CASE StoreOperatorRevision(p) \/ Notify(p) \/ PublishRouteAdmissions(p)
             \/ Reconcile(p) \/ AdvanceSchedulerEpoch(p)
    BY <2>4 DEF StoreOperatorRevision, Notify, PublishRouteAdmissions, Reconcile,
                AdvanceSchedulerEpoch
  <2> QED BY <1>6, <2>1, <2>2, <2>3, <2>4 DEF Step
<1>7. ASSUME NEW p \in Publishers,
             Look(p) \/ Acquire(p) \/ RevisionConflict(p) \/ Forget(p)
               \/ \E kind \in Kinds : Begin(p, kind)
      PROVE  UNCHANGED <<disk, snapshot>>
  BY <1>7 DEF Look, Acquire, RevisionConflict, Forget, Begin
<1> QED BY <1>1, <1>2, <1>3, <1>4, <1>5, <1>6, <1>7 DEF Next, Kinds

(* Publication implements the history of writes: whatever operators,       *)
(* logins and refreshes do concurrently, and wherever a publication fails, *)
(* is cancelled or dies with the process, every write builds on the        *)
(* visible configuration and overlooks nothing it must not overlook.       *)
THEOREM PublicationImplementsHistory == Spec => ImplementsHistory
<1>1. Init => History!Init
  BY DEF Init, History!Init
<1> QED BY <1>1, Initially, Inductive, StepSimulates, PTL
        DEF Spec, ImplementsHistory, History!Spec

-----------------------------------------------------------------------------
(* A publication that reports an error has left nothing in the database:   *)
(* until its commit lands there is no write of its own since it began, and *)
(* once it has landed the only ways on are success, cancellation and a     *)
(* crash.                                                                  *)
Unwritten(t) == t.at \in {"queued"} \cup Building \/ (t.at = "done" /\ t.result = "error")

NoTrace ==
  \A p \in Publishers : Unwritten(task[p]) =>
    \A i \in task[p].since + 1 .. Len(disk) : disk[i].by # p

(* A step of one publication that writes nothing.                          *)
LEMMA TraceStep ==
  ASSUME IInv, NoTrace, NEW p \in Publishers, NEW t \in Task,
         task' = [task EXCEPT ![p] = t], UNCHANGED disk,
         Unwritten(t) => \/ t.since = Len(disk)
                         \/ t.since = task[p].since /\ Unwritten(task[p])
  PROVE  NoTrace'
<1>1. /\ task \in [Publishers -> Task] /\ task'[p] = t /\ Len(disk) \in Nat
      /\ \A q \in Publishers : q # p => task'[q] = task[q]
  BY DEF IInv, Types
<1>2. Unwritten(t) => \A i \in t.since + 1 .. Len(disk) : disk[i].by # p
  BY <1>1 DEF NoTrace
<1>3. \A q \in Publishers : Unwritten(task'[q]) =>
        \A i \in task'[q].since + 1 .. Len(disk) : disk[i].by # q
  BY <1>1, <1>2 DEF NoTrace
<1> QED BY <1>3 DEF NoTrace, Unwritten

(* A write that lands is nobody else's, and its own publication is past    *)
(* the point where it could report an error.                               *)
LEMMA TraceLanding ==
  ASSUME IInv, NoTrace, NEW p \in Publishers, NEW t \in Task,
         At(p, "commit"), disk' = Append(disk, Written(p)),
         task' = [task EXCEPT ![p] = t], ~Unwritten(t)
  PROVE  NoTrace'
<1>1. /\ task \in [Publishers -> Task] /\ task'[p] = t /\ Len(disk) \in Nat
      /\ \A q \in Publishers : q # p => task'[q] = task[q]
  BY DEF IInv, Types
<1>2. /\ Len(disk) = snapshot /\ Len(disk') = snapshot + 1 /\ snapshot \in Nat
      /\ \A i \in 1 .. snapshot : disk'[i] = disk[i]
      /\ disk'[snapshot + 1].by = p
  BY Landing DEF Written, IInv, Types
<1>3. ASSUME NEW q \in Publishers, Unwritten(task'[q]),
             NEW i \in task'[q].since + 1 .. Len(disk')
      PROVE  disk'[i].by # q
  <2>1. q # p /\ task'[q] = task[q] /\ task[q].since \in Nat
    BY <1>1, <1>3 DEF Task
  <2>2. CASE i = snapshot + 1
    BY <1>2, <2>1, <2>2
  <2>3. CASE i # snapshot + 1
    <3>1. i \in task[q].since + 1 .. Len(disk) /\ i \in 1 .. snapshot
      BY <1>2, <1>3, <2>1, <2>3
    <3> QED BY <1>2, <1>3, <2>1, <3>1 DEF NoTrace
  <2> QED BY <2>2, <2>3
<1> QED BY <1>3 DEF NoTrace, Unwritten

(* Replies: what was unwritten before may be reported as an error.         *)
LEMMA TraceReply ==
  ASSUME IInv, NoTrace, NEW p \in Publishers, NEW result \in {"ok", "error", "cancelled"},
         NEW r \in Nat, Reply(p, result, r), UNCHANGED disk,
         result = "error" => Unwritten(task[p])
  PROVE  NoTrace'
<1> DEFINE t == [Idle EXCEPT !.at = "done", !.since = task[p].since,
                             !.result = result, !.revision = r]
<1>1. t \in Task /\ t.since = task[p].since /\ t.result = result /\ t.at = "done"
  BY DEF IInv, Types, Task, Idle, Places
<1>2. task' = [task EXCEPT ![p] = t]
  BY DEF Reply
<1> HIDE DEF t
<1> QED BY <1>1, <1>2, TraceStep DEF Unwritten, Building

(* Moves: a publication that is unwritten after one was so before.         *)
LEMMA TraceMove ==
  ASSUME IInv, NoTrace, NEW p \in Publishers, NEW l \in Places \ {"done", "queued"},
         GoTo(p, l), UNCHANGED disk, l \in Building => task[p].at \in Building
  PROVE  NoTrace'
<1> DEFINE t == [task[p] EXCEPT !.at = l]
<1>1. t \in Task /\ t.since = task[p].since /\ t.at = l
  BY DEF IInv, Types, Task
<1>2. task' = [task EXCEPT ![p] = t]
  BY DEF GoTo
<1> HIDE DEF t
<1> QED BY <1>1, <1>2, TraceStep DEF Unwritten

(* Every step keeps it.                                                    *)
LEMMA TraceInductive == IInv /\ NoTrace /\ [Next]_vars => NoTrace'
<1> SUFFICES ASSUME IInv, NoTrace, [Next]_vars PROVE NoTrace'
  OBVIOUS
<1>0. \A p \in Publishers : task[p] \in Task /\ snapshot \in Nat /\ Len(disk) \in Nat
  BY DEF IInv, Types
<1>1. CASE UNCHANGED <<disk, task>>
  BY <1>1 DEF NoTrace, Unwritten
<1>2. CASE Crash
  BY <1>2 DEF Crash, NoTrace, Unwritten, Idle, Building
<1>3. ASSUME NEW p \in Publishers, NEW kind \in Kinds, Begin(p, kind)
      PROVE  NoTrace'
  <2> DEFINE t == [Idle EXCEPT !.at = "queued", !.kind = kind, !.since = Revision,
                     !.expected = IF kind = "edit" THEN seen[p] ELSE 0,
                     !.token = IF kind = "refresh" THEN TokenAt(snapshot) ELSE 0]
  <2>1. TokenAt(snapshot) \in Nat /\ seen[p] \in Nat
    BY TokenType DEF IInv, Types
  <2>2. t \in Task /\ t.since = Len(disk)
    BY <1>0, <2>1 DEF Task, Idle, Places
  <2>3. task' = [task EXCEPT ![p] = t] /\ UNCHANGED disk
    BY <1>3 DEF Begin
  <2> HIDE DEF t
  <2> QED BY <2>2, <2>3, TraceStep
<1>4. ASSUME NEW p \in Publishers, Forget(p)
      PROVE  NoTrace'
  BY <1>4, TraceStep DEF Forget, Task, Idle, Places, Unwritten, Building
<1>5. ASSUME NEW p \in Publishers, Acquire(p)
      PROVE  NoTrace'
  <2> DEFINE t == [task[p] EXCEPT !.at = "begin", !.base = snapshot,
                     !.token = IF task[p].kind = "login" THEN TokenAt(snapshot) ELSE @]
  <2>1. TokenAt(snapshot) \in Nat
    BY TokenType DEF IInv, Types
  <2>2. t \in Task /\ t.since = task[p].since
    BY <1>0, <2>1 DEF Task, Places
  <2>3. task' = [task EXCEPT ![p] = t] /\ UNCHANGED disk /\ Unwritten(task[p])
    BY <1>5 DEF Acquire, Unwritten
  <2> HIDE DEF t
  <2> QED BY <2>2, <2>3, TraceStep
<1>6. ASSUME NEW p \in Publishers,
             RevisionConflict(p) \/ NoChange(p) \/ Fail(p) \/ AdvanceSchedulerEpoch(p)
      PROVE  NoTrace'
  <2>1. task[p].base \in Nat
    BY <1>0 DEF Task
  <2> QED BY <1>0, <1>6, <2>1, TraceReply
          DEF RevisionConflict, NoChange, Fail, AdvanceSchedulerEpoch, Unwritten, Building
<1>7. ASSUME NEW p \in Publishers,
             \/ BeginWrite(p) \/ Mutate(p) \/ CompileCandidate(p)
             \/ Replace(p) \/ StoreOperatorRevision(p) \/ Notify(p)
             \/ PublishRouteAdmissions(p) \/ Reconcile(p)
      PROVE  NoTrace'
  BY <1>7, TraceMove DEF BeginWrite, Mutate, CompileCandidate, Replace,
     StoreOperatorRevision, Notify, PublishRouteAdmissions, Reconcile, Places, Building
<1>8. ASSUME NEW p \in Publishers, Commit(p)
      PROVE  NoTrace'
  <2> DEFINE t == [task[p] EXCEPT !.at = "replace"]
  <2>1. t \in Task /\ t.at = "replace"
    BY <1>0 DEF Task, Places
  <2>2. task' = [task EXCEPT ![p] = t]
    BY <1>8 DEF Commit, GoTo
  <2> HIDE DEF t
  <2> QED BY <1>8, <2>1, <2>2, TraceLanding DEF Commit, Unwritten, Building
<1>9. ASSUME NEW p \in Publishers, Cancel(p)
      PROVE  NoTrace'
  <2>1. CASE UNCHANGED disk
    BY <1>9, <2>1, TraceReply DEF Cancel
  <2>2. CASE At(p, "commit") /\ disk' = Append(disk, Written(p))
    <3> DEFINE t == [Idle EXCEPT !.at = "done", !.since = task[p].since,
                                 !.result = "cancelled", !.revision = 0]
    <3>1. t \in Task /\ t.at = "done" /\ t.result = "cancelled"
      BY <1>0 DEF Task, Idle, Places
    <3>2. task' = [task EXCEPT ![p] = t]
      BY <1>9 DEF Cancel, Reply
    <3> HIDE DEF t
    <3> QED BY <2>2, <3>1, <3>2, TraceLanding DEF Unwritten, Building
  <2> QED BY <1>9, <2>1, <2>2 DEF Cancel, MayLand
<1>10. CASE ForceShutdown \/ Restart \/ \E p \in Publishers : Look(p)
  BY <1>1, <1>10 DEF ForceShutdown, Restart, Look
<1>11. CASE UNCHANGED vars
  BY <1>1, <1>11 DEF vars
<1> QED BY <1>2, <1>3, <1>4, <1>5, <1>6, <1>7, <1>8, <1>9, <1>10, <1>11 DEF Next, Step, Kinds

(* A publication that reports an error has written nothing, whichever of   *)
(* its steps failed and whatever lands meanwhile.                          *)
THEOREM ErrorsWriteNothing == Spec => []ErrorsLeaveNoTrace
<1>1. Init => NoTrace
  BY DEF Init, NoTrace, Unwritten, Idle, Building
<1>2. NoTrace => ErrorsLeaveNoTrace
  BY DEF NoTrace, ErrorsLeaveNoTrace, Unwritten
<1> QED BY <1>1, <1>2, Initially, Inductive, TraceInductive, PTL DEF Spec

-----------------------------------------------------------------------------
(* What follows the snapshot (the revision watch, the admissions, the      *)
(* reconciled components, the epoch) lags behind it only while a           *)
(* publication is on its way there, or the process is down.                *)
Lagging(S) == phase = "down" \/ \E p \in Publishers : task[p].at \in S

Following ==
  /\ notified \in Nat /\ admitted \in Nat /\ reconciled \in Nat /\ woken \in Nat
  /\ WokenSeeTheNews
  /\ notified # snapshot => Lagging({"operator", "notify"})
  /\ admitted # snapshot => Lagging({"operator", "notify", "admit"})
  /\ reconciled # snapshot => Lagging({"operator", "notify", "admit", "reconcile"})
  /\ woken # snapshot => Lagging({"operator", "notify", "admit", "reconcile", "wake"})

(* A revision that was replied has reached the last of the followers.      *)
Replied ==
  \A p \in Publishers : task[p].at = "done" /\ task[p].result = "ok" =>
    woken >= task[p].revision

(* A publication that is not yet, or no longer, among the followers.       *)
LEMMA FollowingStep ==
  ASSUME IInv, Following, Replied, NEW p \in Publishers, NEW t \in Task,
         task' = [task EXCEPT ![p] = t],
         UNCHANGED <<snapshot, notified, admitted, reconciled, woken, phase>>,
         task[p].at \notin {"operator", "notify", "admit", "reconcile", "wake"},
         t.at = "done" /\ t.result = "ok" => woken >= t.revision
  PROVE  Following' /\ Replied'
<1>1. /\ task \in [Publishers -> Task] /\ task'[p] = t
      /\ \A q \in Publishers : q # p => task'[q] = task[q]
  BY DEF IInv, Types
<1>2. ASSUME NEW S, S \subseteq {"operator", "notify", "admit", "reconcile", "wake"}, Lagging(S)
      PROVE  Lagging(S)'
  BY <1>1, <1>2 DEF Lagging
<1>3. Following'
  BY <1>2 DEF Following, WokenSeeTheNews
<1>4. Replied'
  BY <1>1 DEF Replied
<1> QED BY <1>3, <1>4

(* While somebody builds, nothing lags.                                    *)
LEMMA NothingLags ==
  ASSUME IInv, Following, NEW p \in Publishers, task[p].at \in Building \cup {"commit", "replace"}
  PROVE  /\ notified = snapshot /\ admitted = snapshot
         /\ reconciled = snapshot /\ woken = snapshot
<1>1. \A q \in Publishers : task[q].at \notin {"operator", "notify", "admit", "reconcile", "wake"}
  BY OthersUnlocked DEF Locked, Places, Building
<1>2. phase # "down"
  BY DEF IInv, Alive, Building
<1> QED BY <1>1, <1>2 DEF Following, Lagging

(* Whoever is among the followers is there alone, and steps to the next.   *)
LEMMA FollowerMoves ==
  ASSUME IInv, Replied, NEW p \in Publishers, NEW l \in Places \ {"done"}, GoTo(p, l),
         task[p].at \in Locked, woken' >= woken, woken \in Nat, woken' \in Nat
  PROVE  /\ task'[p].at = l /\ phase # "down"
         /\ \A q \in Publishers : q # p => task'[q] = task[q] /\ task[q].at \notin Locked
         /\ Replied'
<1> DEFINE t == [task[p] EXCEPT !.at = l]
<1>1. t \in Task /\ t.at = l
  BY DEF IInv, Types, Task
<1>2. task' = [task EXCEPT ![p] = t] /\ task \in [Publishers -> Task]
  BY DEF GoTo, IInv, Types
<1> HIDE DEF t
<1>3. task'[p] = t /\ \A q \in Publishers : q # p => task'[q] = task[q] /\ task[q].at \notin Locked
  BY <1>2, OthersUnlocked
<1>4. \A q \in Publishers : task[q].revision \in Nat
  BY <1>2 DEF Task
<1>5. Replied'
  BY <1>1, <1>3, <1>4 DEF Replied
<1>6. phase # "down"
  BY DEF IInv, Alive, Locked
<1> QED BY <1>1, <1>3, <1>5, <1>6

(* The followers catch up one after the other.                             *)
LEMMA FollowersCatchUp ==
  ASSUME IInv, Following, Replied, NEW p \in Publishers,
         \/ Replace(p) \/ StoreOperatorRevision(p) \/ Notify(p)
         \/ PublishRouteAdmissions(p) \/ Reconcile(p)
  PROVE  Following' /\ Replied'
<1>0. /\ snapshot \in Nat /\ notified \in Nat /\ admitted \in Nat /\ reconciled \in Nat
      /\ woken \in Nat /\ woken >= woken /\ task[p].at \in Locked
  BY DEF IInv, Types, Following, Replace, StoreOperatorRevision, Notify,
         PublishRouteAdmissions, Reconcile, Locked, Places
<1>1. CASE Replace(p)
  <2>1. task[p].base = snapshot /\ snapshot' = snapshot + 1
        /\ UNCHANGED <<notified, admitted, reconciled, woken, phase>>
    BY <1>1 DEF Replace, IInv, BuildsOnSnapshot
  <2>2. /\ notified = snapshot /\ admitted = snapshot
        /\ reconciled = snapshot /\ woken = snapshot
    BY <1>1, NothingLags DEF Replace
  <2>3. task'[p].at = "operator" /\ Replied'
    BY <1>0, <1>1, <2>1, FollowerMoves DEF Replace, Places
  <2>4. Following'
    BY <1>0, <2>1, <2>2, <2>3 DEF Following, WokenSeeTheNews, Lagging
  <2> QED BY <2>3, <2>4
<1>2. CASE StoreOperatorRevision(p)
  <2>1. UNCHANGED <<snapshot, notified, admitted, reconciled, woken, phase>>
    BY <1>2 DEF StoreOperatorRevision
  <2>2. task'[p].at = "notify" /\ Replied'
    BY <1>0, <1>2, <2>1, FollowerMoves DEF StoreOperatorRevision, Places
  <2>3. Following'
    BY <2>1, <2>2 DEF Following, WokenSeeTheNews, Lagging
  <2> QED BY <2>2, <2>3
<1>3. CASE Notify(p)
  <2>1. notified' = snapshot /\ UNCHANGED <<snapshot, admitted, reconciled, woken, phase>>
    BY <1>3 DEF Notify
  <2>2. task'[p].at = "admit" /\ Replied'
    BY <1>0, <1>3, <2>1, FollowerMoves DEF Notify, Places
  <2>3. Following'
    BY <1>0, <2>1, <2>2 DEF Following, WokenSeeTheNews, Lagging
  <2> QED BY <2>2, <2>3
<1>4. CASE PublishRouteAdmissions(p)
  <2>1. /\ admitted' = snapshot /\ task[p].at = "admit"
        /\ UNCHANGED <<snapshot, notified, reconciled, woken, phase>>
    BY <1>4 DEF PublishRouteAdmissions
  <2>2. /\ task'[p].at = "reconcile" /\ Replied' /\ phase # "down"
        /\ \A q \in Publishers : q # p => task[q].at \notin Locked
    BY <1>0, <1>4, <2>1, FollowerMoves DEF PublishRouteAdmissions, Places
  <2>3. notified = snapshot
    BY <2>1, <2>2 DEF Following, Lagging, Locked, Places
  <2>4. Following'
    BY <1>0, <2>1, <2>2, <2>3 DEF Following, WokenSeeTheNews, Lagging
  <2> QED BY <2>2, <2>4
<1>5. CASE Reconcile(p)
  <2>1. /\ reconciled' = snapshot /\ task[p].at = "reconcile"
        /\ UNCHANGED <<snapshot, notified, admitted, woken, phase>>
    BY <1>5 DEF Reconcile
  <2>2. /\ task'[p].at = "wake" /\ Replied' /\ phase # "down"
        /\ \A q \in Publishers : q # p => task[q].at \notin Locked
    BY <1>0, <1>5, <2>1, FollowerMoves DEF Reconcile, Places
  <2>3. notified = snapshot /\ admitted = snapshot
    BY <2>1, <2>2 DEF Following, Lagging, Locked, Places
  <2>4. Following'
    BY <1>0, <2>1, <2>2, <2>3 DEF Following, WokenSeeTheNews, Lagging
  <2> QED BY <2>2, <2>4
<1> QED BY <1>1, <1>2, <1>3, <1>4, <1>5

(* The epoch is the last follower, and the reply comes with it.            *)
LEMMA WakeFollows ==
  ASSUME IInv, Following, Replied, NEW p \in Publishers, AdvanceSchedulerEpoch(p)
  PROVE  Following' /\ Replied'
<1> DEFINE t == [Idle EXCEPT !.at = "done", !.since = task[p].since,
                             !.result = "ok", !.revision = snapshot]
<1>0. /\ snapshot \in Nat /\ notified \in Nat /\ admitted \in Nat /\ reconciled \in Nat
      /\ woken \in Nat /\ task \in [Publishers -> Task]
  BY DEF IInv, Types, Following
<1>1. t.at = "done" /\ t.revision = snapshot
  BY DEF Idle
<1>2. task' = [task EXCEPT ![p] = t] /\ woken' = snapshot
      /\ UNCHANGED <<snapshot, notified, admitted, reconciled, phase>>
  BY DEF AdvanceSchedulerEpoch, Reply
<1> HIDE DEF t
<1>3. task'[p] = t /\ \A q \in Publishers : q # p => task'[q] = task[q] /\ task[q].at \notin Locked
  BY <1>0, <1>2, OthersUnlocked DEF AdvanceSchedulerEpoch, Locked, Places
<1>4. phase # "down" /\ task[p].at = "wake"
  BY DEF AdvanceSchedulerEpoch, IInv, Alive
<1>5. notified = snapshot /\ admitted = snapshot /\ reconciled = snapshot
  BY <1>3, <1>4 DEF Following, Lagging, Locked, Places
<1>6. \A q \in Publishers : task[q].revision \in Nat
  BY <1>0 DEF Task
<1>7. woken <= snapshot
  BY <1>0 DEF Following, WokenSeeTheNews
<1> QED BY <1>0, <1>1, <1>2, <1>3, <1>5, <1>6, <1>7 DEF Following, Replied, WokenSeeTheNews

(* Every step keeps it.                                                    *)
LEMMA FollowingInductive ==
  IInv /\ Following /\ Replied /\ [Next]_vars => Following' /\ Replied'
<1> SUFFICES ASSUME IInv, Following, Replied, [Next]_vars PROVE Following' /\ Replied'
  OBVIOUS
<1>0. /\ snapshot \in Nat /\ Len(disk) \in Nat /\ seen \in [Publishers -> Nat]
      /\ task \in [Publishers -> Task]
  BY DEF IInv, Types
<1>1. CASE UNCHANGED vars
  BY <1>1 DEF vars, Following, Replied, WokenSeeTheNews, Lagging
<1>2. CASE ForceShutdown
  <2>1. phase # "down" /\ phase' # "down"
        /\ UNCHANGED <<snapshot, notified, admitted, reconciled, woken, task>>
    BY <1>2 DEF ForceShutdown
  <2> QED BY <2>1 DEF Following, Replied, WokenSeeTheNews, Lagging
<1>3. CASE Crash
  <2>1. phase' = "down" /\ UNCHANGED <<snapshot, notified, admitted, reconciled, woken>>
        /\ \A p \in Publishers : task'[p].at = "idle"
    BY <1>3 DEF Crash, Idle
  <2> QED BY <2>1 DEF Following, Replied, WokenSeeTheNews, Lagging
<1>4. CASE Restart
  <2>1. \A p \in Publishers : task'[p].at = "idle"
    BY <1>4 DEF Restart, IInv, Alive
  <2>2. /\ snapshot' = Len(disk) /\ notified' = Len(disk) /\ admitted' = Len(disk)
        /\ reconciled' = Len(disk) /\ woken' = Len(disk)
    BY <1>4 DEF Restart
  <2> QED BY <1>0, <2>1, <2>2 DEF Following, Replied, WokenSeeTheNews
<1>5. ASSUME NEW p \in Publishers, Look(p)
      PROVE  Following' /\ Replied'
  BY <1>5 DEF Look, Following, Replied, WokenSeeTheNews, Lagging
<1>6. ASSUME NEW p \in Publishers, NEW kind \in Kinds, Begin(p, kind)
      PROVE  Following' /\ Replied'
  <2> DEFINE t == [Idle EXCEPT !.at = "queued", !.kind = kind, !.since = Revision,
                     !.expected = IF kind = "edit" THEN seen[p] ELSE 0,
                     !.token = IF kind = "refresh" THEN TokenAt(snapshot) ELSE 0]
  <2>1. TokenAt(snapshot) \in Nat /\ seen[p] \in Nat
    BY <1>0, TokenType DEF IInv
  <2>2. t \in Task /\ t.at = "queued"
    BY <1>0, <2>1 DEF Task, Idle, Places
  <2>3. task' = [task EXCEPT ![p] = t] /\ task[p].at = "idle"
        /\ UNCHANGED <<snapshot, notified, admitted, reconciled, woken, phase>>
    BY <1>6 DEF Begin
  <2> HIDE DEF t
  <2> QED BY <2>2, <2>3, FollowingStep
<1>7. ASSUME NEW p \in Publishers, Forget(p)
      PROVE  Following' /\ Replied'
  <2>1. Idle \in Task /\ Idle.at = "idle"
    BY DEF Task, Idle, Places
  <2> QED BY <1>7, <2>1, FollowingStep DEF Forget
<1>8. ASSUME NEW p \in Publishers, Acquire(p)
      PROVE  Following' /\ Replied'
  <2> DEFINE t == [task[p] EXCEPT !.at = "begin", !.base = snapshot,
                     !.token = IF task[p].kind = "login" THEN TokenAt(snapshot) ELSE @]
  <2>1. TokenAt(snapshot) \in Nat
    BY TokenType DEF IInv, Types
  <2>2. t \in Task /\ t.at = "begin"
    BY <1>0, <2>1 DEF Task, Places
  <2>3. task' = [task EXCEPT ![p] = t] /\ task[p].at = "queued"
        /\ UNCHANGED <<snapshot, notified, admitted, reconciled, woken, phase>>
    BY <1>8 DEF Acquire
  <2> HIDE DEF t
  <2> QED BY <2>2, <2>3, FollowingStep
<1>9. ASSUME NEW p \in Publishers, RevisionConflict(p) \/ Fail(p) \/ Cancel(p)
      PROVE  Following' /\ Replied'
  <2>1. PICK result \in {"error", "cancelled"} : Reply(p, result, 0)
    BY <1>9 DEF RevisionConflict, Fail, Cancel
  <2> DEFINE t == [Idle EXCEPT !.at = "done", !.since = task[p].since,
                               !.result = result, !.revision = 0]
  <2>2. t \in Task /\ t.result # "ok"
    BY <1>0 DEF Task, Idle, Places
  <2>3. task' = [task EXCEPT ![p] = t]
    BY <2>1 DEF Reply
  <2>4. /\ task[p].at \notin {"operator", "notify", "admit", "reconcile", "wake"}
        /\ UNCHANGED <<snapshot, notified, admitted, reconciled, woken, phase>>
    BY <1>9 DEF RevisionConflict, Fail, Cancel
  <2> HIDE DEF t
  <2> QED BY <2>2, <2>3, <2>4, FollowingStep
<1>10. ASSUME NEW p \in Publishers, NoChange(p)
       PROVE  Following' /\ Replied'
  <2>1. task[p].base = snapshot /\ woken = snapshot
    BY <1>10, NothingLags DEF NoChange, IInv, BuildsOnSnapshot, Building
  <2> DEFINE t == [Idle EXCEPT !.at = "done", !.since = task[p].since,
                               !.result = "ok", !.revision = task[p].base]
  <2>2. t \in Task /\ t.revision = snapshot
    BY <1>0, <2>1 DEF Task, Idle, Places
  <2>3. task' = [task EXCEPT ![p] = t] /\ task[p].at = "mutate"
        /\ UNCHANGED <<snapshot, notified, admitted, reconciled, woken, phase>>
    BY <1>10 DEF NoChange, Reply
  <2>4. woken >= t.revision
    BY <1>0, <2>1, <2>2
  <2>5. task[p].at \notin {"operator", "notify", "admit", "reconcile", "wake"}
    BY <2>3
  <2> HIDE DEF t
  <2> QED BY <2>2, <2>3, <2>4, <2>5, FollowingStep
<1>11. ASSUME NEW p \in Publishers,
              BeginWrite(p) \/ Mutate(p) \/ CompileCandidate(p) \/ Commit(p)
       PROVE  Following' /\ Replied'
  <2>1. PICK l \in {"mutate", "compile", "commit", "replace"} : GoTo(p, l)
    BY <1>11 DEF BeginWrite, Mutate, CompileCandidate, Commit
  <2> DEFINE t == [task[p] EXCEPT !.at = l]
  <2>2. t \in Task /\ t.at = l
    BY <1>0 DEF Task, Places
  <2>3. task' = [task EXCEPT ![p] = t]
    BY <2>1 DEF GoTo
  <2>4. /\ task[p].at \notin {"operator", "notify", "admit", "reconcile", "wake"}
        /\ UNCHANGED <<snapshot, notified, admitted, reconciled, woken, phase>>
    BY <1>11 DEF BeginWrite, Mutate, CompileCandidate, Commit
  <2> HIDE DEF t
  <2> QED BY <2>2, <2>3, <2>4, FollowingStep
<1> QED BY <1>1, <1>2, <1>3, <1>4, <1>5, <1>6, <1>7, <1>8, <1>9, <1>10, <1>11,
           FollowersCatchUp, WakeFollows DEF Next, Step, Kinds

(* The followers are up to date before anybody replies.                    *)
LEMMA FollowingInvariant == Spec => [](IInv /\ Following /\ Replied)
<1>1. Init => Following /\ Replied
  BY DEF Init, Following, Replied, WokenSeeTheNews, Idle
<1> QED BY <1>1, Initially, Inductive, FollowingInductive, PTL DEF Spec

(* Who is woken by the epoch or by the revision watch sees a snapshot and  *)
(* admissions at least as new, at any point of any publication.            *)
THEOREM WakesComeAfterTheNews == Spec => []WokenSeeTheNews
<1>1. IInv /\ Following /\ Replied => WokenSeeTheNews
  BY DEF Following
<1> QED BY <1>1, FollowingInvariant, PTL

(* A reply, of an unchanged configuration included, comes after everything *)
(* has followed the revision it names, and this stays so across restarts.  *)
THEOREM RepliesComeLast == Spec => []ReplyComesLast
<1>1. IInv /\ Following /\ Replied => ReplyComesLast
  <2> SUFFICES ASSUME IInv, Following, Replied PROVE ReplyComesLast
    OBVIOUS
  <2>1. /\ snapshot \in Nat /\ notified \in Nat /\ admitted \in Nat /\ reconciled \in Nat
        /\ woken \in Nat /\ \A p \in Publishers : task[p].revision \in Nat
    BY DEF IInv, Types, Task, Following
  <2>2. /\ woken <= reconciled /\ woken <= admitted /\ woken <= notified /\ woken <= snapshot
    BY <2>1 DEF Following, WokenSeeTheNews
  <2> QED BY <2>1, <2>2 DEF Replied, ReplyComesLast
<1> QED BY <1>1, FollowingInvariant, PTL
=============================================================================
