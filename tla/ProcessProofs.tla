--------------------------- MODULE ProcessProofs ---------------------------
(***************************************************************************)
(* Proofs about the process around the requests, for every number of       *)
(* requests, versions, records and sessions: its end (ProcessLifecycle),   *)
(* its replacement (SelfUpdate), its administrator (AdminSessions) and its *)
(* telemetry (TelemetryWriter).                                            *)
(***************************************************************************)
EXTENDS ProcessLifecycle, Sequences, FiniteSetTheorems, TLAPS

CONSTANTS
  None,
  MaxVersion, MaxFaults, Nothing, Torn,
  Logins, Rotations, Setups, Watchers, MaxSessions, MaxFailures, Checks, Outside,
  Records, Controls, Capacity, MaxBytes, RejectedCapacity, ChannelCapacity, BatchSize,
  MaxRevision

VARIABLES
  disk, journal, fate, process, version, update_env, recovery, script, status, task,
  manual, restart, update_phase, confirmed, faults,
  stored, hash, setup_token, credential_lock, readers, checks, hashing, failures,
  sessions, older, password, touched, expired, login, tried, rotation, known, setup, watch,
  watched, seen, edited,
  pc, kind, sequence, sequence_lock, number, sender, queue, slots, rejected_slots,
  bytes, rejected_bytes, queued, in_flight, dropped, persisted, active, worker, taken,
  reply_to, call, wants, position, down, policy, pruned, prune_permit

Update == INSTANCE SelfUpdate WITH phase <- update_phase
Admin == INSTANCE AdminSessions
Telemetry == INSTANCE TelemetryWriter

(* An executable on trial has its predecessor and its marker beside it,    *)
(* whatever a crash or a power loss leaves behind.                         *)
WayBack == Update!WayBack

(* Every admin session was issued for the password in force, and the       *)
(* password in memory is the one in storage.                               *)
SessionsFollowPassword == Admin!SessionsFollowPassword /\ Admin!PasswordInStep

(* An answered quota observation covers every record numbered before it,   *)
(* every slot and byte of the telemetry queue is accounted for, and no     *)
(* settled request is still listed as active.                              *)
FenceCovers == Telemetry!FenceCovers /\ Telemetry!Accounted /\ Telemetry!NoGhosts

-----------------------------------------------------------------------------
(* The end of the process.                                                 *)

(* What the code relies on: the phase left "running" before anything is    *)
(* waited for, every handler past its registration holds a token of the    *)
(* tracker, and the storage is closed by the last step of all.             *)
Handlers == {r \in Requests : request[r] \in {"recheck", "active"}}

IInv ==
  /\ request \in [Requests -> {"idle", "register", "recheck", "active", "refused", "done"}]
  /\ main # "serving" => phase # "running"
  /\ Handlers \subseteq tokens
  /\ ~storage_open => main = "ended"
  /\ main = "ended" => background = {}
  /\ StorageOutlivesItsUsers

(* The invariant holds at the start.                                       *)
LEMMA InitIInv == Init => IInv
BY DEF Init, IInv, Handlers, StorageOutlivesItsUsers, At

(* Every step preserves the invariant.                                     *)
LEMMA NextIInv == IInv /\ [Next]_vars => IInv'
<1> SUFFICES ASSUME IInv, [Next]_vars PROVE IInv'
  OBVIOUS
<1> USE DEF IInv, Handlers, StorageOutlivesItsUsers, At, GoTo, shutdown, work, memory
<1>1. ASSUME NEW r \in Requests, Handle(r) PROVE IInv'
  <2>1. CASE CheckPhase(r)
    BY <2>1 DEF CheckPhase
  <2>2. CASE Register(r)
    BY <2>2 DEF Register
  <2>3. CASE Recheck(r)
    BY <2>3 DEF Recheck
  <2>4. CASE ReleaseMemoryReclamationBlocker(r)
    BY <2>4 DEF ReleaseMemoryReclamationBlocker
  <2>5. CASE SpawnCritical(r)
    BY <2>5 DEF SpawnCritical
  <2>6. CASE FinishRequest(r)
    BY <2>6 DEF FinishRequest
  <2>7. CASE SpawnBlocking(r)
    BY <2>7 DEF SpawnBlocking
  <2> QED BY <1>1, <2>1, <2>2, <2>3, <2>4, <2>5, <2>6, <2>7 DEF Handle
<1>2. ASSUME NEW t \in background, TaskEnds(t) PROVE IInv'
  BY <1>2 DEF TaskEnds
<1>3. CASE RecordActivity
  BY <1>3 DEF RecordActivity
<1>4. CASE Serve
  BY <1>4 DEF Serve, ShutdownSignal, CloseRequests, ServerStops, GraceExpires,
     ServerDoesNotStop, ForceShutdown
<1>5. CASE Finish
  <2>1. CASE ForceRemaining
    BY <2>1 DEF ForceRemaining, ForceShutdown
  <2>2. CASE RequestsAreDone
    BY <2>2 DEF RequestsAreDone
  <2>3. CASE BackgroundIsDone
    BY <2>3 DEF BackgroundIsDone
  <2>4. CASE FinalizeTimesOut
    BY <2>4 DEF FinalizeTimesOut, ForceShutdown
  <2> QED BY <1>5, <2>1, <2>2, <2>3, <2>4 DEF Finish
<1>6. CASE Reclaimer
  BY <1>6 DEF Reclaimer, Notified, ReadEpoch, Reclaim, ReclaimerStops
<1>7. CASE UNCHANGED vars
  BY <1>7 DEF vars
<1> QED BY <1>1, <1>2, <1>3, <1>4, <1>5, <1>6, <1>7 DEF Next

(* However requests, tasks, the signal and the deadlines interleave, no    *)
(* handler is at work once finalization has waited for the requests, and   *)
(* no task is left when the storage is closed (finalize).                  *)
THEOREM StorageIsClosedLast == Spec => []StorageOutlivesItsUsers
<1>1. IInv => StorageOutlivesItsUsers
  BY DEF IInv
<1> QED BY InitIInv, NextIInv, <1>1, PTL DEF Spec

-----------------------------------------------------------------------------
(* The executable, its predecessor and the marker.  A predecessor has      *)
(* always served; how far a script has come says what its directory holds. *)
Directories == [executable : Update!Versions, previous : Update!Versions \cup {Nothing},
                pending : Update!Versions \cup {Nothing, Torn}]
Tidy == disk.executable \in confirmed /\ disk.previous = Nothing

Committing ==
  \/ script.ops = Update!Commit
  \/ /\ script.ops = <<"write", "link", "sync", "rename", "sync">>
     /\ Tidy /\ disk.pending = Torn
  \/ /\ script.ops = <<"link", "sync", "rename", "sync">>
     /\ Tidy /\ disk.pending = version + 1
  \/ /\ script.ops \in {<<"sync", "rename", "sync">>, <<"rename", "sync">>}
     /\ disk.executable \in confirmed /\ disk.previous = disk.executable
     /\ disk.pending = version + 1
  \/ /\ script.ops \in {<<"sync">>, <<>>}
     /\ disk.executable = version + 1 /\ disk.previous \in confirmed
     /\ disk.pending = version + 1

Restoring ==
  \/ script.ops \in {<<>>, <<"sync">>}
  \/ script.ops \in {<<"drop_pending">>, <<"drop_pending", "sync">>} /\ Tidy
  \/ script.ops = Update!CleanupUncommitted /\ disk.executable \in confirmed
  \/ script.ops = <<"restore", "drop_pending", "sync">> /\ disk.previous \in confirmed

UpdateTypes ==
  /\ disk \in journal /\ journal \subseteq Directories
  /\ version \in Update!Versions /\ confirmed \subseteq Update!Versions /\ restart \in {0, 1, 2}
  /\ task = "commit" \/ (task = "preparing" /\ status = "downloading") => version < MaxVersion
  /\ task = "admitted" => status # "downloading"
  /\ script.for = "commit" => version < MaxVersion
  /\ script = [for |-> script.for, ops |-> script.ops]
  /\ script.for = "nothing" => script.ops = <<>>

(* A process that found an update on trial is of the version on trial, and *)
(* undoes it or confirms it.                                               *)
OnTrial ==
  recovery =>
    /\ process = "application"
    /\ \/ Update!Idle /\ Update!Discovered = "pending" /\ disk.pending = version
       \/ script.for \in {"rollback", "failed rollback"}

UpdateInv ==
  /\ UpdateTypes /\ Update!WayBack /\ OnTrial
  /\ \A d \in journal : d.previous \in confirmed \cup {Nothing}
  /\ IF script.for = "commit" THEN Committing ELSE Restoring

(* Between two scripts.                                                    *)
LEMMA IdleScript ==
  /\ Update!NoScript.for = "nothing" /\ Update!NoScript.ops = <<>>
  /\ Update!Idle => script.for = "nothing" /\ script.ops = <<>>
BY DEF Update!Idle, Update!NoScript

(* A step that leaves the directory alone.                                 *)
LEMMA QuietScript ==
  ASSUME Update!UpdateAssumption, UpdateInv, UNCHANGED <<disk, journal>>,
         confirmed \subseteq confirmed', confirmed' \subseteq Update!Versions,
           version' \in Update!Versions, restart' \in {0, 1, 2},
         task' = "commit" \/ (task' = "preparing" /\ status' = "downloading")
           => version' < MaxVersion,
         task' = "admitted" => status' # "downloading",
         \/ UNCHANGED <<script, version>>
         \/ /\ script' = [for |-> script'.for, ops |-> script'.ops]
            /\ script'.for = "commit" => version' < MaxVersion
            /\ script'.for = "nothing" => script'.ops = <<>>
            /\ IF script'.for = "commit" THEN Committing' ELSE Restoring',
         OnTrial'
  PROVE  UpdateInv'
<1>1. /\ UpdateTypes' /\ Update!WayBack'
      /\ \A d \in journal' : d.previous \in confirmed' \cup {Nothing}
  BY DEF UpdateInv, UpdateTypes, Update!WayBack
<1>2. IF script'.for = "commit" THEN Committing' ELSE Restoring'
  BY DEF UpdateInv, Committing, Restoring, Tidy, Update!Commit, Update!CleanupUncommitted
<1> QED BY <1>1, <1>2 DEF UpdateInv

(* Rolling back restores what has served, whatever is on the disk.         *)
LEMMA RollbackPrepared ==
  ASSUME Update!UpdateAssumption, UpdateInv, Update!Discovered = "pending"
           \/ disk.previous \in confirmed
  PROVE  \/ Update!RestorePrevious = Update!CleanupUncommitted /\ disk.executable \in confirmed
         \/ /\ Update!RestorePrevious = <<"restore", "drop_pending", "sync">>
            /\ disk.previous \in confirmed
<1>1. disk.previous \in confirmed
  BY DEF UpdateInv, UpdateTypes, Update!Discovered
<1> QED BY <1>1 DEF Update!RestorePrevious

(* A marker without a predecessor is of a commit that replaced nothing.    *)
LEMMA DiscardPrepared ==
  ASSUME Update!UpdateAssumption, UpdateInv, Update!Discovered = "incomplete"
  PROVE  Tidy
<1>1. disk.previous = Nothing
  BY DEF Update!Discovered
<1> QED BY <1>1 DEF UpdateInv, UpdateTypes, Update!WayBack, Tidy, Update!UpdateAssumption

(* One file operation, and the directory a power loss may now bring back.  *)
LEMMA PerformKeeps ==
  ASSUME Update!UpdateAssumption, UpdateInv, Update!Perform
  PROVE  UpdateInv'
<1> DEFINE op == Head(script.ops)
<1>a. /\ disk \in Directories /\ disk \in journal /\ Nothing \notin confirmed
      /\ version \in Update!Versions /\ script = [for |-> script.for, ops |-> script.ops]
  BY DEF UpdateInv, UpdateTypes, Update!UpdateAssumption
<1>b. /\ disk = [executable |-> disk.executable, previous |-> disk.previous,
                 pending |-> disk.pending]
      /\ script'.for = script.for /\ script'.ops = Tail(script.ops)
      /\ script' = [for |-> script.for, ops |-> Tail(script.ops)]
  BY <1>a DEF Update!Perform, Directories
<1>c. script.for = "commit" => version + 1 \in Update!Versions
  BY <1>a DEF UpdateInv, UpdateTypes, Update!UpdateAssumption, Update!Versions
<1>0. /\ script.ops # <<>> /\ ~Update!Blocked(op) /\ disk' = Update!After(op)
      /\ journal' = (IF op = "sync" THEN {disk} ELSE journal \cup {disk'})
      /\ UNCHANGED <<version, confirmed, recovery, process, task, status, restart>>
  BY DEF Update!Perform, Update!lifecycle, Update!updater
<1> DEFINE Fits(d) == /\ d \in Directories
                      /\ d.executable \notin confirmed =>
                           d.previous \in confirmed /\ d.pending = d.executable
                      /\ d.previous # Nothing => d.pending # Nothing
                      /\ d.previous \in confirmed \cup {Nothing}
<1>1. /\ Fits(disk)
      /\ \A d \in journal : Fits(d)
  BY DEF UpdateInv, UpdateTypes, Update!WayBack
<1>2. /\ Fits(disk')
      /\ IF script'.for = "commit" THEN Committing' ELSE Restoring'
      /\ op = "sync" => disk' = disk
  <2>1. CASE script.for = "commit"
    <3>0. Committing
      BY <2>1 DEF UpdateInv
    <3>1. CASE script.ops = Update!Commit
      <4>1. op = "create" /\ Tail(script.ops) = <<"write", "link", "sync", "rename", "sync">>
        BY <3>1 DEF Update!Commit
      <4>2. disk.pending = Nothing /\ disk.previous = Nothing /\ disk.executable \in confirmed
        BY <1>a, <1>b, <1>c, <1>0, <1>1, <4>1, Update!UpdateAssumption DEF Update!Blocked,
           Directories, Update!UpdateAssumption
      <4>3. disk' = [disk EXCEPT !.pending = Torn]
        BY <1>a, <1>b, <1>c, <1>0, <4>1 DEF Update!After
      <4>4. /\ disk' \in Directories /\ disk'.pending = Torn
            /\ disk'.previous = Nothing /\ disk'.executable \in confirmed
        BY <1>a, <1>b, <1>c, <1>0, <4>2, <4>3 DEF Directories
      <4> QED BY <1>a, <1>b, <1>c, <1>0, <2>1, <4>1, <4>4, Update!UpdateAssumption DEF
                 Committing, Tidy, Update!UpdateAssumption
    <3>2. CASE /\ script.ops = <<"write", "link", "sync", "rename", "sync">>
               /\ Tidy /\ disk.pending = Torn
      <4>1. op = "write" /\ Tail(script.ops) = <<"link", "sync", "rename", "sync">>
        BY <3>2
      <4>2. disk' = [disk EXCEPT !.pending = version + 1]
        BY <1>a, <1>b, <1>c, <1>0, <4>1 DEF Update!After
      <4>3. /\ disk' \in Directories /\ disk'.pending = version + 1
            /\ disk'.previous = Nothing /\ disk'.executable \in confirmed
        BY <1>a, <1>b, <1>c, <1>0, <2>1, <3>2, <4>2 DEF Directories, Tidy
      <4> QED BY <1>a, <1>b, <1>c, <1>0, <2>1, <4>1, <4>3 DEF Committing, Tidy
    <3>3. CASE /\ script.ops = <<"link", "sync", "rename", "sync">>
               /\ Tidy /\ disk.pending = version + 1
      <4>1. op = "link" /\ Tail(script.ops) = <<"sync", "rename", "sync">>
        BY <3>3
      <4>2. disk' = [disk EXCEPT !.previous = disk.executable]
        BY <1>a, <1>b, <1>c, <1>0, <4>1 DEF Update!After
      <4>3. /\ disk' \in Directories /\ disk'.pending = version + 1
            /\ disk'.previous = disk'.executable /\ disk'.executable \in confirmed
        BY <1>a, <1>b, <1>c, <1>0, <2>1, <3>3, <4>2 DEF Directories, Tidy
      <4> QED BY <1>a, <1>b, <1>c, <1>0, <2>1, <4>1, <4>3, Update!UpdateAssumption DEF
                 Committing, Update!UpdateAssumption
    <3>4. CASE /\ script.ops = <<"sync", "rename", "sync">>
               /\ disk.executable \in confirmed /\ disk.previous = disk.executable
               /\ disk.pending = version + 1
      <4>1. op = "sync" /\ Tail(script.ops) = <<"rename", "sync">>
        BY <3>4
      <4>2. disk' = disk
        BY <1>a, <1>b, <1>c, <1>0, <4>1 DEF Update!After
      <4> QED BY <1>a, <1>b, <1>c, <1>0, <1>1, <2>1, <3>4, <4>1, <4>2 DEF Committing
    <3>5. CASE /\ script.ops = <<"rename", "sync">>
               /\ disk.executable \in confirmed /\ disk.previous = disk.executable
               /\ disk.pending = version + 1
      <4>1. op = "rename" /\ Tail(script.ops) = <<"sync">>
        BY <3>5
      <4>2. disk' = [disk EXCEPT !.executable = version + 1]
        BY <1>a, <1>b, <1>c, <1>0, <4>1 DEF Update!After
      <4>3. /\ disk' \in Directories /\ disk'.pending = version + 1
            /\ disk'.previous \in confirmed /\ disk'.executable = version + 1
        BY <1>a, <1>b, <1>c, <1>0, <2>1, <3>5, <4>2 DEF Directories
      <4> QED BY <1>a, <1>b, <1>c, <1>0, <2>1, <4>1, <4>3, Update!UpdateAssumption DEF
                 Committing, Update!UpdateAssumption
    <3>6. CASE /\ script.ops = <<"sync">>
               /\ disk.executable = version + 1 /\ disk.previous \in confirmed
               /\ disk.pending = version + 1
      <4>1. op = "sync" /\ Tail(script.ops) = <<>>
        BY <3>6
      <4>2. disk' = disk
        BY <1>a, <1>b, <1>c, <1>0, <4>1 DEF Update!After
      <4> QED BY <1>a, <1>b, <1>c, <1>0, <1>1, <2>1, <3>6, <4>1, <4>2 DEF Committing
    <3> QED BY <1>a, <1>b, <1>c, <1>0, <3>0, <3>1, <3>2, <3>3, <3>4, <3>5, <3>6 DEF Committing
  <2>2. CASE script.for # "commit"
    <3>0. Restoring
      BY <2>2 DEF UpdateInv
    <3>1. CASE script.ops = <<"sync">>
      <4>1. op = "sync" /\ Tail(script.ops) = <<>>
        BY <3>1
      <4>2. disk' = disk
        BY <1>a, <1>b, <1>c, <1>0, <4>1 DEF Update!After
      <4> QED BY <1>a, <1>b, <1>c, <1>0, <1>1, <2>2, <4>1, <4>2 DEF Restoring
    <3>2. CASE script.ops \in {<<"drop_pending">>, <<"drop_pending", "sync">>} /\ Tidy
      <4>1. op = "drop_pending" /\ Tail(script.ops) \in {<<>>, <<"sync">>}
        <5>1. CASE script.ops = <<"drop_pending">>
          BY <5>1
        <5>2. CASE script.ops = <<"drop_pending", "sync">>
          BY <5>2
        <5> QED BY <3>2, <5>1, <5>2
      <4>2. disk' = [disk EXCEPT !.pending = Nothing]
        BY <1>a, <1>b, <1>c, <1>0, <4>1 DEF Update!After
      <4>3. disk' \in Directories /\ disk'.previous = Nothing /\ disk'.executable \in confirmed
        BY <1>a, <1>b, <1>c, <1>0, <3>2, <4>2 DEF Directories, Tidy
      <4> QED BY <1>a, <1>b, <1>c, <1>0, <2>2, <4>1, <4>3 DEF Restoring
    <3>3. CASE script.ops = Update!CleanupUncommitted /\ disk.executable \in confirmed
      <4>1. op = "drop_previous" /\ Tail(script.ops) = <<"drop_pending", "sync">>
        BY <3>3 DEF Update!CleanupUncommitted
      <4>2. disk' = [disk EXCEPT !.previous = Nothing]
        BY <1>a, <1>b, <1>c, <1>0, <4>1 DEF Update!After
      <4>3. disk' \in Directories /\ disk'.previous = Nothing /\ disk'.executable \in confirmed
        BY <1>a, <1>b, <1>c, <1>0, <3>3, <4>2 DEF Directories
      <4> QED BY <1>a, <1>b, <1>c, <1>0, <2>2, <4>1, <4>3 DEF Restoring, Tidy
    <3>4. CASE /\ script.ops = <<"restore", "drop_pending", "sync">>
               /\ disk.previous \in confirmed
      <4>1. op = "restore" /\ Tail(script.ops) = <<"drop_pending", "sync">>
        BY <3>4
      <4>2. disk' = [disk EXCEPT !.executable = disk.previous, !.previous = Nothing]
        BY <1>a, <1>b, <1>c, <1>0, <4>1 DEF Update!After
      <4>3. disk' \in Directories /\ disk'.previous = Nothing /\ disk'.executable \in confirmed
        BY <1>a, <1>b, <1>c, <1>0, <3>4, <4>2, UpdateInv DEF Directories, UpdateInv, UpdateTypes
      <4> QED BY <1>a, <1>b, <1>c, <1>0, <2>2, <4>1, <4>3 DEF Restoring, Tidy
    <3> QED BY <1>a, <1>b, <1>c, <1>0, <3>0, <3>1, <3>2, <3>3, <3>4 DEF Restoring
  <2> QED BY <2>1, <2>2
<1>3. \A d \in journal' : Fits(d)
  BY <1>a, <1>b, <1>c, <1>0, <1>1, <1>2
<1>4. disk' \in journal'
  BY <1>a, <1>b, <1>c, <1>0, <1>2
<1> HIDE DEF op
<1>5. /\ UpdateTypes' /\ Update!WayBack'
      /\ \A d \in journal' : d.previous \in confirmed' \cup {Nothing}
  BY <1>a, <1>b, <1>c, <1>0, <1>3, <1>4 DEF UpdateInv, UpdateTypes, Update!WayBack
<1>6. OnTrial'
  <2>1. ~Update!Idle
    BY <1>0, IdleScript
  <2> QED BY <1>b, <1>0, <2>1 DEF UpdateInv, OnTrial
<1> QED BY <1>2, <1>5, <1>6 DEF UpdateInv

(* A failed operation, and what commit_candidate does about it.            *)
LEMMA OperationFailsKeeps ==
  ASSUME Update!UpdateAssumption, UpdateInv, Update!OperationFails
  PROVE  UpdateInv'
<1>0. /\ UNCHANGED <<disk, journal, confirmed, version, recovery, process, task, status, restart>>
      /\ script.for = "rollback" => script'.for = "failed rollback"
      /\ script.for = "failed rollback" => script'.for = "failed rollback"
      /\ script'.ops = Update!Undo /\ script' = [for |-> script'.for, ops |-> script'.ops]
      /\ script'.for # "commit"
      /\ script.for # "nothing" => script'.for # "nothing"
      /\ script.ops # <<>> /\ script.for # "nothing"
  BY DEF Update!OperationFails, Update!lifecycle, Update!updater, UpdateInv, UpdateTypes
<1>1. Restoring'
  <2>1. CASE script.for # "commit"
    BY <1>0, <2>1 DEF Update!Undo, Restoring
  <2>2. CASE script.for = "commit"
    <3>0. Committing
      BY <2>2 DEF UpdateInv
    <3>1. CASE script.ops = Update!Commit
      <4>1. Len(script.ops) = 6
        BY <3>1 DEF Update!Commit
      <4> QED BY <1>0, <2>2, <4>1 DEF Update!Undo, Restoring
    <3>2. CASE script.ops = <<"write", "link", "sync", "rename", "sync">> /\ Tidy
      <4>1. Len(script.ops) = 5
        BY <3>2
      <4>2. Update!Undo = <<"drop_pending">>
        BY <2>2, <4>1 DEF Update!Undo
      <4> QED BY <1>0, <3>2, <4>2 DEF Restoring, Tidy
    <3>3. CASE script.ops = <<"link", "sync", "rename", "sync">> /\ Tidy
      <4>1. Len(script.ops) = 4
        BY <3>3
      <4>2. Update!Undo = <<"drop_pending">>
        BY <2>2, <4>1 DEF Update!Undo
      <4> QED BY <1>0, <3>3, <4>2 DEF Restoring, Tidy
    <3>4. CASE script.ops = <<"sync", "rename", "sync">> /\ disk.executable \in confirmed
      <4>1. Len(script.ops) = 3
        BY <3>4
      <4>2. Update!Undo = Update!CleanupUncommitted
        BY <2>2, <4>1 DEF Update!Undo
      <4> QED BY <1>0, <3>4, <4>2 DEF Restoring, Update!CleanupUncommitted
    <3>5. CASE script.ops = <<"rename", "sync">> /\ disk.executable \in confirmed
      <4>1. Len(script.ops) = 2
        BY <3>5
      <4>2. Update!Undo = Update!CleanupUncommitted
        BY <2>2, <4>1 DEF Update!Undo
      <4> QED BY <1>0, <3>5, <4>2 DEF Restoring, Update!CleanupUncommitted
    <3>6. CASE script.ops = <<"sync">> /\ disk.previous \in confirmed
      <4>1. Len(script.ops) = 1
        BY <3>6
      <4>2. Update!Undo = Update!RestorePrevious
        BY <2>2, <4>1 DEF Update!Undo
      <4> QED BY <1>0, <3>6, <4>2, RollbackPrepared DEF Restoring, Update!CleanupUncommitted
    <3> QED BY <1>0, <3>0, <3>1, <3>2, <3>3, <3>4, <3>5, <3>6 DEF Committing
  <2> QED BY <2>1, <2>2
<1>2. OnTrial'
  <2>1. ~Update!Idle
    BY <1>0, IdleScript
  <2> QED BY <1>0, <2>1 DEF UpdateInv, OnTrial
<1> QED BY <1>0, <1>1, <1>2, QuietScript DEF UpdateInv, UpdateTypes

(* The steps that begin or end a process.                                  *)
LEMMA LifeKeeps ==
  ASSUME Update!UpdateAssumption, UpdateInv, NEW v \in Update!Versions,
         UNCHANGED <<disk, journal, confirmed>>,
         version' \in Update!Versions, Update!Down \/ \E env \in BOOLEAN : Update!Exec(v, env)
  PROVE  UpdateInv'
<1>1. /\ script' = Update!NoScript /\ script'.for = "nothing" /\ script'.ops = <<>>
      /\ recovery' = FALSE /\ task' = "none" /\ restart' = 0
  BY DEF Update!Down, Update!Exec, Update!NoScript
<1>2. Restoring' /\ script' = [for |-> script'.for, ops |-> script'.ops]
  BY <1>1 DEF Restoring, Update!NoScript
<1>3. OnTrial'
  BY <1>1 DEF OnTrial
<1> QED BY <1>1, <1>2, <1>3, QuietScript DEF UpdateInv, UpdateTypes

(* The steps that begin a rollback, discard a marker or confirm.           *)
LEMMA BeginKeeps ==
  ASSUME Update!UpdateAssumption, UpdateInv,
         UNCHANGED <<disk, journal, version, task, status, restart>>,
         confirmed \subseteq confirmed', confirmed' \subseteq Update!Versions,
         NEW for \in {"rollback", "give up", "tidy", "confirm"}, NEW ops, Update!Begin(for, ops),
         recovery' => process' = "application" /\ for = "rollback",
         \/ ops = Update!RestorePrevious /\ Update!Discovered = "pending"
         \/ ops = Update!DiscardMarker /\ Update!Discovered = "incomplete"
         \/ ops = <<>>
         \/ ops = Update!CleanupConfirmed /\ disk.executable \in confirmed'
  PROVE  UpdateInv'
<1>1. /\ script'.for = for /\ script'.ops = ops /\ script'.for # "commit"
      /\ script'.for # "nothing" /\ script' = [for |-> script'.for, ops |-> script'.ops]
  BY DEF Update!Begin
<1>2. Restoring'
  <2>1. CASE ops = Update!RestorePrevious /\ Update!Discovered = "pending"
    BY <1>1, <2>1, RollbackPrepared DEF Restoring, Update!CleanupUncommitted
  <2>2. CASE ops = Update!DiscardMarker /\ Update!Discovered = "incomplete"
    BY <1>1, <2>2, DiscardPrepared DEF Restoring, Tidy, Update!DiscardMarker
  <2>3. CASE ops = <<>> \/ (ops = Update!CleanupConfirmed /\ disk.executable \in confirmed')
    BY <1>1, <2>3 DEF Restoring, Update!CleanupConfirmed, Update!CleanupUncommitted
  <2> QED BY <2>1, <2>2, <2>3
<1>3. OnTrial'
  BY <1>1 DEF OnTrial
<1> QED BY <1>1, <1>2, <1>3, QuietScript DEF UpdateInv, UpdateTypes

(* Startup, with its rollbacks and its confirmation.                       *)
LEMMA StartupKeeps ==
  ASSUME Update!UpdateAssumption, UpdateInv,
         \/ Update!Boot \/ Update!ScriptEnds \/ Update!EarlyFails \/ Update!AcquireInstanceLock
              \/ Update!DiscoverRecovery
         \/ Update!ApplicationFails \/ Update!ConfirmStartup
  PROVE  UpdateInv'
<1>0. /\ version \in Update!Versions /\ disk.executable \in Update!Versions
      /\ confirmed \subseteq Update!Versions
      /\ FALSE \in BOOLEAN /\ disk \in journal
  BY DEF UpdateInv, UpdateTypes, Directories
<1>1. CASE Update!Boot
  BY <1>0, <1>1, LifeKeeps DEF Update!Boot, Update!Exec
<1>2. CASE Update!ScriptEnds
  <2>1. CASE script.for = "rollback"
    <3>1. Update!Exec(disk.executable, FALSE) /\ UNCHANGED <<disk, journal, confirmed>>
      BY <1>2, <2>1 DEF Update!ScriptEnds
    <3> QED BY <1>0, <3>1, LifeKeeps DEF Update!Exec
  <2>2. CASE script.for \in {"failed rollback", "give up"}
    BY <1>0, <1>2, <2>2, LifeKeeps DEF Update!ScriptEnds
  <2>3. CASE script.for \notin {"rollback", "failed rollback", "give up"}
    <3>1. /\ script' = Update!NoScript
          /\ UNCHANGED <<Update!lifecycle, Update!updater, disk, journal, confirmed>>
          /\ script.for # "nothing"
      BY <1>2, <2>3 DEF Update!ScriptEnds
    <3>2. ~recovery
      BY <2>3, <3>1, IdleScript DEF UpdateInv, OnTrial
    <3>3. /\ script'.for = "nothing" /\ script'.ops = <<>> /\ Restoring' /\ OnTrial'
          /\ script' = [for |-> script'.for, ops |-> script'.ops]
      BY <3>1, <3>2 DEF Update!NoScript, Restoring, OnTrial, Update!lifecycle
    <3> QED BY <1>0, <3>1, <3>3, QuietScript DEF UpdateInv, UpdateTypes, Update!lifecycle,
               Update!updater
  <2> QED BY <2>1, <2>2, <2>3
<1>3. CASE Update!EarlyFails
  <2>0. ~recovery
    BY <1>3 DEF Update!EarlyFails, UpdateInv, OnTrial
  <2>1. CASE update_env /\ Update!Discovered = "pending"
    <3>1. /\ Update!Begin("rollback", Update!RestorePrevious)
          /\ UNCHANGED <<disk, journal, Update!lifecycle, Update!updater, confirmed>>
      BY <1>3, <2>1 DEF Update!EarlyFails
    <3> QED BY <1>0, <2>0, <2>1, <3>1, BeginKeeps DEF Update!lifecycle, Update!updater
  <2>2. CASE update_env /\ Update!Discovered = "incomplete"
    <3>1. /\ Update!Begin("give up", Update!DiscardMarker)
          /\ UNCHANGED <<disk, journal, Update!lifecycle, Update!updater, confirmed>>
      BY <1>3, <2>2 DEF Update!EarlyFails
    <3> QED BY <1>0, <2>0, <2>2, <3>1, BeginKeeps DEF Update!lifecycle, Update!updater
  <2>3. CASE ~(update_env /\ Update!Discovered \in {"pending", "incomplete"})
    <3>1. Update!Down /\ UNCHANGED <<version, disk, journal, confirmed>>
      BY <1>3, <2>3 DEF Update!EarlyFails
    <3> QED BY <1>0, <3>1, LifeKeeps
  <2> QED BY <2>1, <2>2, <2>3
<1>4. CASE Update!AcquireInstanceLock
  <2>1. OnTrial'
    BY <1>4 DEF Update!AcquireInstanceLock, UpdateInv, OnTrial
  <2> QED BY <1>0, <1>4, <2>1, QuietScript DEF Update!AcquireInstanceLock, Update!updater,
             UpdateInv, UpdateTypes
<1>5. CASE Update!DiscoverRecovery
  <2>0. UNCHANGED <<disk, journal, version, task, status, restart, confirmed>> /\ ~recovery
    BY <1>5 DEF Update!DiscoverRecovery, Update!updater, UpdateInv, OnTrial
  <2>1. CASE Update!Discovered = "incomplete"
    BY <1>0, <1>5, <2>0, <2>1, BeginKeeps DEF Update!DiscoverRecovery
  <2>2. CASE Update!Discovered = "pending" /\ disk.pending # version
    <3>1. Update!Begin("rollback", Update!RestorePrevious) /\ UNCHANGED recovery
      BY <1>5, <2>2 DEF Update!DiscoverRecovery
    <3> QED BY <1>0, <2>0, <2>2, <3>1, BeginKeeps
  <2>3. CASE /\ ~(Update!Discovered = "incomplete")
             /\ ~(Update!Discovered = "pending" /\ disk.pending # version)
    <3>1. /\ UNCHANGED script /\ recovery' = (Update!Discovered = "pending") /\ Update!Idle
          /\ process' = "application"
      BY <1>5, <2>3 DEF Update!DiscoverRecovery
    <3>2. OnTrial'
      BY <2>0, <2>3, <3>1 DEF OnTrial, Update!Discovered, Update!Idle
    <3> QED BY <1>0, <2>0, <3>1, <3>2, QuietScript DEF UpdateInv, UpdateTypes
  <2> QED BY <2>1, <2>2, <2>3
<1>6. CASE Update!ApplicationFails
  <2>1. CASE recovery
    <3>1. Update!Begin("rollback", Update!RestorePrevious) /\ process' = "application"
      BY <1>6, <2>1 DEF Update!ApplicationFails, Update!lifecycle
    <3>2. Update!Discovered = "pending"
      BY <1>6, <2>1 DEF Update!ApplicationFails, UpdateInv, OnTrial, Update!Idle,
         Update!NoScript
    <3> QED BY <1>0, <1>6, <2>1, <3>1, <3>2, BeginKeeps DEF Update!ApplicationFails,
               Update!lifecycle, Update!updater
  <2>2. CASE ~recovery
    <3>1. Update!Down /\ UNCHANGED <<version, disk, journal, confirmed>>
      BY <1>6, <2>2 DEF Update!ApplicationFails
    <3> QED BY <1>0, <3>1, LifeKeeps
  <2> QED BY <2>1, <2>2
<1>7. CASE Update!ConfirmStartup
  <2>0. /\ UNCHANGED <<disk, journal, version, task, status, restart>>
        /\ confirmed' = confirmed \cup {version} /\ recovery' = FALSE /\ Update!Idle
    BY <1>7 DEF Update!ConfirmStartup, Update!updater
  <2>1. CASE recovery
    <3>1. disk.pending = version /\ Update!Begin("confirm", Update!CleanupConfirmed)
      BY <1>7, <2>0, <2>1 DEF Update!ConfirmStartup, UpdateInv, OnTrial, Update!Idle,
         Update!NoScript
    <3>2. disk.executable \in confirmed'
      BY <1>0, <2>0, <3>1 DEF UpdateInv, Update!WayBack
    <3> QED BY <1>0, <2>0, <3>1, <3>2, BeginKeeps
  <2>2. CASE ~recovery
    <3>1. UNCHANGED script
      BY <1>7, <2>2 DEF Update!ConfirmStartup
    <3>2. OnTrial'
      BY <2>0 DEF OnTrial
    <3> QED BY <3>2, <1>0, <2>0, <3>1, QuietScript DEF UpdateInv, UpdateTypes
  <2> QED BY <2>1, <2>2
<1> QED BY <1>1, <1>2, <1>3, <1>4, <1>5, <1>6, <1>7

(* Serving: the update task, restarts and the end of the process.          *)
LEMMA ServingKeeps ==
  ASSUME Update!UpdateAssumption, UpdateInv,
         \/ Update!StartInstall \/ Update!TrySpawn \/ Update!LatestCheck
              \/ Update!PrepareFromRelease \/ Update!ExtractAndReplace
         \/ Update!CancelTask \/ Update!FinishCommit \/ Update!CheckManualRestart
              \/ Update!RequestManualRestart
         \/ Update!BeginDraining \/ Update!Force \/ Update!Finalize \/ Update!ExecFails
              \/ Update!FinalizeTimesOut
  PROVE  UpdateInv'
<1>0. /\ version \in Update!Versions /\ disk.executable \in Update!Versions
      /\ confirmed \subseteq Update!Versions
      /\ FALSE \in BOOLEAN /\ TRUE \in BOOLEAN /\ disk \in journal
  BY DEF UpdateInv, UpdateTypes, Directories
<1>1. CASE \/ Update!StartInstall \/ Update!TrySpawn \/ Update!LatestCheck
                \/ Update!PrepareFromRelease
           \/ Update!CancelTask \/ Update!CheckManualRestart \/ Update!RequestManualRestart
                \/ Update!BeginDraining \/ Update!Force
  <2>1. UNCHANGED <<disk, journal, Update!lifecycle, script, confirmed>>
    BY <1>1 DEF Update!StartInstall, Update!TrySpawn, Update!LatestCheck,
       Update!PrepareFromRelease, Update!CancelTask, Update!CheckManualRestart,
       Update!RequestManualRestart, Update!BeginDraining, Update!Force
  <2>2. /\ task' = "commit" \/ (task' = "preparing" /\ status' = "downloading")
             => version < MaxVersion
        /\ task' = "admitted" => status' # "downloading"
    BY <1>1 DEF Update!StartInstall, Update!TrySpawn, Update!LatestCheck,
       Update!PrepareFromRelease, Update!CancelTask, Update!CheckManualRestart,
       Update!RequestManualRestart, Update!BeginDraining, Update!Force, UpdateInv, UpdateTypes
  <2>3. OnTrial'
    BY <2>1 DEF UpdateInv, OnTrial, Update!lifecycle, Update!Idle, Update!Discovered
  <2>4. restart' \in {0, 1, 2}
    BY <1>1 DEF Update!StartInstall, Update!TrySpawn, Update!LatestCheck,
       Update!PrepareFromRelease, Update!CancelTask, Update!CheckManualRestart,
       Update!RequestManualRestart, Update!BeginDraining, Update!Force, Update!RaiseRestart,
       UpdateInv, UpdateTypes
  <2> QED BY <1>0, <2>1, <2>2, <2>3, <2>4, QuietScript DEF Update!lifecycle
<1>2. CASE Update!ExtractAndReplace
  <2>0. /\ UNCHANGED <<disk, journal, Update!lifecycle, confirmed>> /\ ~recovery
        /\ task = "commit" /\ version < MaxVersion /\ restart' \in {0, 1, 2}
        /\ task' # "admitted"
    BY <1>2 DEF Update!ExtractAndReplace, Update!Serving, UpdateInv, UpdateTypes, OnTrial
  <2>1. OnTrial'
    BY <2>0 DEF OnTrial, Update!lifecycle
  <2>2. CASE Update!Begin("commit", Update!Commit)
    <3>1. /\ script'.for = "commit" /\ script'.ops = Update!Commit
          /\ script' = [for |-> script'.for, ops |-> script'.ops]
      BY <2>2 DEF Update!Begin
    <3>2. Committing'
      BY <3>1 DEF Committing, Update!Commit
    <3> QED BY <1>0, <2>0, <2>1, <3>1, <3>2, QuietScript DEF Update!lifecycle
  <2>3. CASE UNCHANGED script
    BY <1>0, <2>0, <2>1, <2>3, QuietScript DEF Update!lifecycle
  <2> QED BY <1>2, <2>2, <2>3 DEF Update!ExtractAndReplace
<1>3. CASE Update!FinishCommit
  <2>1. /\ UNCHANGED <<disk, journal, Update!lifecycle, confirmed>> /\ task' = "none"
        /\ script' = Update!NoScript /\ script.for \in {"commit", "undo"}
        /\ restart' \in {0, 1, 2}
    BY <1>3 DEF Update!FinishCommit, Update!RaiseRestart, UpdateInv, UpdateTypes
  <2>2. ~recovery
    BY <2>1, IdleScript DEF UpdateInv, OnTrial
  <2>3. /\ script'.for = "nothing" /\ script'.ops = <<>> /\ Restoring' /\ OnTrial'
        /\ script' = [for |-> script'.for, ops |-> script'.ops]
    BY <2>1, <2>2 DEF Update!NoScript, Restoring, OnTrial, Update!lifecycle
  <2> QED BY <1>0, <2>1, <2>3, QuietScript DEF Update!lifecycle
<1>4. CASE Update!Finalize
  <2>1. /\ UNCHANGED <<disk, journal, confirmed>>
        /\ \/ Update!Down /\ UNCHANGED version
           \/ Update!Exec(disk.executable, FALSE) \/ Update!Exec(disk.executable, TRUE)
    BY <1>4 DEF Update!Finalize, UpdateInv, UpdateTypes
  <2> QED BY <1>0, <2>1, LifeKeeps DEF Update!Exec
<1>5. CASE Update!ExecFails
  <2>1. /\ UNCHANGED <<disk, journal, version, recovery, task, status, restart, confirmed>>
        /\ ~recovery
    BY <1>5 DEF Update!ExecFails, Update!Serving, Update!updater, UpdateInv, OnTrial
  <2>2. CASE Update!Discovered = "pending"
    <3>1. Update!Begin("rollback", Update!RestorePrevious)
      BY <1>5, <2>2 DEF Update!ExecFails
    <3> QED BY <1>0, <2>1, <2>2, <3>1, BeginKeeps
  <2>3. CASE Update!Discovered = "incomplete"
    <3>1. Update!Begin("give up", Update!DiscardMarker)
      BY <1>5, <2>3 DEF Update!ExecFails
    <3> QED BY <1>0, <2>1, <2>3, <3>1, BeginKeeps
  <2>4. CASE Update!Discovered \notin {"pending", "incomplete"}
    <3>1. Update!Begin("give up", <<>>)
      BY <1>5, <2>4 DEF Update!ExecFails
    <3> QED BY <1>0, <2>1, <3>1, BeginKeeps
  <2> QED BY <2>2, <2>3, <2>4
<1>6. CASE Update!FinalizeTimesOut
  BY <1>0, <1>6, LifeKeeps DEF Update!FinalizeTimesOut
<1> QED BY <1>1, <1>2, <1>3, <1>4, <1>5, <1>6

(* The invariant holds at the start and after every step.                  *)
LEMMA UpdateInvStep ==
  ASSUME Update!UpdateAssumption, UpdateInv, [Update!Next]_(Update!vars)
  PROVE  UpdateInv'
<1>0. version \in Update!Versions /\ confirmed \subseteq Update!Versions /\ disk \in journal
  BY DEF UpdateInv, UpdateTypes
<1>1. CASE Update!Progress
  BY <1>1, StartupKeeps, PerformKeeps DEF Update!Progress
<1>2. CASE Update!OperationFails
  BY <1>2, OperationFailsKeeps
<1>3. CASE Update!Crash
  BY <1>0, <1>3, LifeKeeps DEF Update!Crash
<1>4. CASE Update!PowerLoss
  <2>1. /\ disk' \in journal /\ journal' = {disk'} /\ UNCHANGED <<version, confirmed>>
        /\ script' = Update!NoScript /\ script'.for = "nothing" /\ script'.ops = <<>>
        /\ recovery' = FALSE /\ task' = "none" /\ restart' = 0
    BY <1>4 DEF Update!PowerLoss, Update!Down, Update!NoScript
  <2>2. /\ UpdateTypes' /\ Update!WayBack' /\ OnTrial'
        /\ \A d \in journal' : d.previous \in confirmed' \cup {Nothing}
    BY <2>1 DEF UpdateInv, UpdateTypes, Update!WayBack, OnTrial, Update!NoScript
  <2>3. Restoring'
    BY <2>1 DEF Restoring
  <2> QED BY <2>1, <2>2, <2>3 DEF UpdateInv
<1>5. CASE \/ Update!StartInstall \/ Update!TrySpawn \/ Update!LatestCheck
                \/ Update!PrepareFromRelease \/ Update!ExtractAndReplace
           \/ Update!CancelTask \/ Update!FinishCommit \/ Update!CheckManualRestart
                \/ Update!RequestManualRestart
           \/ Update!BeginDraining \/ Update!Force \/ Update!Finalize \/ Update!ExecFails
                \/ Update!FinalizeTimesOut
  BY <1>5, ServingKeeps
<1>6. CASE UNCHANGED Update!vars
  <2>1. OnTrial'
    BY <1>6 DEF UpdateInv, OnTrial, Update!vars, Update!lifecycle, Update!Idle,
       Update!Discovered
  <2> QED BY <1>0, <1>6, <2>1, QuietScript DEF Update!vars, Update!lifecycle, Update!updater,
             UpdateInv, UpdateTypes
<1> QED BY <1>1, <1>2, <1>3, <1>4, <1>5, <1>6 DEF Update!Next

(* Whatever directory a crash, a power loss or a failed file operation     *)
(* leaves behind, an executable that has never served has its predecessor  *)
(* and the marker beside it (commit_candidate, discover, rollback).        *)
THEOREM UpdatesCanBeUndone ==
  ASSUME Update!UpdateAssumption
  PROVE  Update!Spec => []WayBack
<1>1. Update!Init => UpdateInv
  <2>1. SUFFICES ASSUME Update!Init PROVE UpdateInv
    OBVIOUS
  <2>2. 1 \in Update!Versions
    BY DEF Update!UpdateAssumption, Update!Versions
  <2>3. /\ disk \in Directories /\ disk.executable = 1 /\ disk.previous = Nothing
        /\ disk.pending = Nothing /\ journal = {disk}
    BY <2>1, <2>2 DEF Update!Init, Directories
  <2>4. /\ script.for = "nothing" /\ script.ops = <<>>
        /\ script = [for |-> script.for, ops |-> script.ops]
    BY <2>1 DEF Update!Init, Update!NoScript
  <2>5. UpdateTypes /\ Update!WayBack /\ OnTrial
    BY <2>1, <2>2, <2>3, <2>4 DEF Update!Init, UpdateTypes, Update!WayBack, OnTrial
  <2> QED BY <2>3, <2>4, <2>5 DEF UpdateInv, Restoring
<1>2. UpdateInv => WayBack
  BY DEF UpdateInv, WayBack
<1>3. UpdateInv /\ [Update!Next]_(Update!vars) => UpdateInv'
  BY UpdateInvStep
<1> QED BY <1>1, <1>2, <1>3, PTL DEF Update!Spec

-----------------------------------------------------------------------------
(* The administrator's password.  One call at a time has the credential    *)
(* lock; a login that has read the hash keeps it from being swapped.       *)
OneChanges ==
  /\ \A c \in Rotations : rotation[c] \notin {"idle", "ended"} => credential_lock = c
  /\ \A s \in Setups : setup[s] \notin {"idle", "ended"} => credential_lock = s
LoginsKeep ==
  \A l \in Logins : login[l] \in {"checking", "issue"} =>
    l \in readers /\ password[l] = hash /\ hash # None
RotationsKnow ==
  /\ DOMAIN known = Rotations
  /\ \A c \in Rotations :
    /\ rotation[c] \notin {"idle", "ended"} => hash # None
    /\ rotation[c] \in {"verify", "store"} => known[c] = hash
    /\ rotation[c] = "swap" => stored = c \/ edited
    /\ rotation[c] = "reload" => edited
    /\ rotation[c] = "clear" => hash = c
SetupsKnow ==
  \A s \in Setups :
    /\ setup[s] \notin {"idle", "ended"} => hash = None
    /\ setup[s] = "swap" => (stored = s \/ edited) /\ stored # None
Swapping ==
  \/ \E c \in Rotations : rotation[c] \in {"swap", "reload"}
  \/ \E s \in Setups : setup[s] \in {"swap", "reload"}

AdminTypes ==
  /\ sessions \subseteq Admin!Issuers /\ DOMAIN password = Admin!Issuers
  /\ DOMAIN login = Logins /\ DOMAIN rotation = Rotations /\ DOMAIN setup = Setups
  /\ password = [i \in Admin!Issuers |-> password[i]]
  /\ login = [l \in Logins |-> login[l]]
  /\ rotation = [c \in Rotations |-> rotation[c]] /\ setup = [s \in Setups |-> setup[s]]

AdminInv ==
  /\ AdminTypes /\ OneChanges /\ LoginsKeep /\ RotationsKnow /\ SetupsKnow
  /\ hash = None => sessions = {}
  /\ hash # None => stored # None
  /\ edited \/ Swapping \/ hash = stored
  /\ Admin!SessionsFollowPassword

(* The sessions there are.                                                 *)
LEMMA SessionSteps ==
  ASSUME Admin!AdminAssumption, AdminInv, NEW s \in Admin!Issuers, Admin!Authenticate(s)
           \/ Admin!Expire(s) \/ Admin!Logout(s)
  PROVE  AdminInv'
<1>1. /\ sessions' \subseteq sessions
      /\ UNCHANGED <<Admin!credentialVars, password, Admin!loginVars, Admin!rotationVars, setup>>
  BY DEF Admin!Authenticate, Admin!Expire, Admin!Logout, Admin!Unexpired
<1> QED BY <1>1 DEF AdminInv, AdminTypes, OneChanges, LoginsKeep, RotationsKnow, SetupsKnow,
           Swapping, Admin!SessionsFollowPassword, Admin!credentialVars, Admin!loginVars,
           Admin!rotationVars

(* A login.                                                                *)
LEMMA LoginSteps ==
  ASSUME Admin!AdminAssumption, AdminInv, NEW l \in Logins,
         \/ Admin!LoginAllowed(l) \/ Admin!LoginReads(l) \/ Admin!LoginVerifies(l)
         \/ Admin!LoginIssues(l) \/ Admin!LoginCancelled(l) \/ Admin!OrphanEnds(l)
  PROVE  AdminInv'
<1>0. /\ UNCHANGED <<stored, hash, credential_lock, edited, rotation, known, setup>>
      /\ l \in Admin!Issuers /\ sessions \subseteq Admin!Issuers
      /\ \A k \in Logins : login[k] \in {"checking", "issue"} =>
                             k \in readers /\ password[k] = hash /\ hash # None
  BY DEF Admin!LoginAllowed, Admin!LoginReads, Admin!LoginVerifies, Admin!LoginIssues,
     Admin!LoginCancelled, Admin!OrphanEnds, Admin!credentialVars, Admin!rotationVars,
     Admin!Issuers, AdminInv, AdminTypes, LoginsKeep
<1>1. \E to \in {"allowed", "checking", "orphan", "issue", "ended"} :
        /\ login' = [login EXCEPT ![l] = to]
        /\ to = "checking" => l \in readers' /\ password'[l] = hash /\ hash # None
        /\ to = "issue" => login[l] = "checking" /\ readers' = readers /\ UNCHANGED password
        /\ readers \subseteq readers' \cup {l}
        /\ password' \in {password, [password EXCEPT ![l] = hash]}
        /\ \/ UNCHANGED sessions
           \/ sessions' \subseteq sessions \cup {l} /\ password'[l] = hash /\ hash # None
  <2>1. CASE Admin!LoginAllowed(l)
    BY <2>1 DEF Admin!LoginAllowed, Admin!LoginTo, Admin!sessionVars
  <2>2. CASE Admin!LoginReads(l)
    BY <1>0, <2>2 DEF Admin!LoginReads, Admin!LoginTo, AdminInv, AdminTypes
  <2>3. CASE Admin!LoginVerifies(l)
    BY <2>3 DEF Admin!LoginVerifies, Admin!LoginTo, Admin!sessionVars
  <2>4. CASE Admin!LoginIssues(l)
    <3>1. password[l] = hash /\ hash # None
      BY <1>0, <2>4 DEF Admin!LoginIssues
    <3>2. /\ sessions' \subseteq sessions \cup {l} /\ password' = [password EXCEPT ![l] = hash]
          /\ login' = [login EXCEPT ![l] = "ended"] /\ readers' = readers \ {l}
      BY <2>4, <3>1 DEF Admin!LoginIssues, Admin!Issue, Admin!MakeRoom, Admin!Unexpired,
         Admin!LoginTo
    <3>3. password'[l] = hash
      BY <1>0, <3>2 DEF AdminInv, AdminTypes
    <3> QED BY <3>1, <3>2, <3>3
  <2>5. CASE Admin!LoginCancelled(l)
    BY <2>5 DEF Admin!LoginCancelled, Admin!LoginTo, Admin!sessionVars
  <2>6. CASE Admin!OrphanEnds(l)
    BY <2>6 DEF Admin!OrphanEnds, Admin!LoginTo, Admin!sessionVars
  <2> QED BY <2>1, <2>2, <2>3, <2>4, <2>5, <2>6
<1>2. AdminTypes'
  BY <1>0, <1>1 DEF AdminInv, AdminTypes
<1>3. \A s \in Admin!Issuers : password'[s] = password[s] \/ (s = l /\ password'[s] = hash)
  BY <1>1 DEF AdminInv, AdminTypes
<1>4. LoginsKeep'
  <2>1. ASSUME NEW k \in Logins, login'[k] \in {"checking", "issue"}
        PROVE  k \in readers' /\ password'[k] = hash' /\ hash' # None
    <3>1. CASE k = l
      BY <1>0, <1>1, <2>1, <3>1 DEF AdminInv, AdminTypes
    <3>2. CASE k # l
      BY <1>0, <1>1, <1>3, <2>1, <3>2 DEF AdminInv, AdminTypes, Admin!Issuers
    <3> QED BY <3>1, <3>2
  <2> QED BY <2>1 DEF LoginsKeep
<1>5. Admin!SessionsFollowPassword' /\ (hash' = None => sessions' = {})
  BY <1>0, <1>1, <1>3 DEF AdminInv, Admin!SessionsFollowPassword
<1>6. OneChanges' /\ RotationsKnow' /\ SetupsKnow' /\ (Swapping' <=> Swapping)
  BY <1>0 DEF AdminInv, OneChanges, RotationsKnow, SetupsKnow, Swapping
<1>7. (edited' \/ Swapping' \/ hash' = stored') /\ (hash' # None => stored' # None)
  BY <1>0, <1>6 DEF AdminInv
<1> QED BY <1>2, <1>4, <1>5, <1>6, <1>7 DEF AdminInv

(* Nobody else changes the password meanwhile.                             *)
LEMMA OthersRest ==
  ASSUME Admin!AdminAssumption, AdminInv, NEW c \in Rotations \cup Setups \cup {None},
         credential_lock = c
  PROVE  /\ \A d \in Rotations \ {c} : rotation[d] \in {"idle", "ended"}
         /\ \A s \in Setups \ {c} : setup[s] \in {"idle", "ended"}
         /\ c \in Rotations => c \notin Setups
         /\ None \notin Rotations \cup Setups
BY DEF AdminInv, OneChanges, Admin!AdminAssumption, Admin!Passwords

(* What a step of a rotation has to see to.                                *)
LEMMA RotationMoves ==
  ASSUME Admin!AdminAssumption, AdminInv, NEW c \in Rotations, NEW l,
         credential_lock \in {c, None}, Admin!RotationTo(c, l),
         l \notin {"idle", "ended"} => credential_lock' = c /\ hash' # None,
         DOMAIN known' = Rotations, l \in {"verify", "store"} => known'[c] = hash',
         l = "swap" => stored' = c \/ edited', l = "reload" => edited',
         l = "clear" => hash' = c,
         edited' \/ l \in {"swap", "reload"} \/ hash' = stored',
         hash' # None => stored' # None, hash' = None => sessions' = {},
         \/ l \in {"clear", "drop"}
         \/ \A s \in sessions' : password'[s] = hash',
         UNCHANGED setup, LoginsKeep', AdminTypes'
  PROVE  AdminInv'
<1>0. /\ \A d \in Rotations \ {c} : rotation[d] \in {"idle", "ended"}
      /\ \A s \in Setups : setup[s] \in {"idle", "ended"}
  BY DEF AdminInv, OneChanges, Admin!AdminAssumption, Admin!Passwords
<1>1. /\ \A d \in Rotations \ {c} : rotation'[d] = rotation[d]
      /\ rotation'[c] = l
  BY DEF AdminInv, AdminTypes, Admin!RotationTo
<1>2. OneChanges' /\ RotationsKnow' /\ SetupsKnow'
  BY <1>0, <1>1 DEF OneChanges, RotationsKnow, SetupsKnow
<1>3. (l \in {"swap", "reload"} => Swapping') /\ Admin!SessionsFollowPassword'
  BY <1>1 DEF Swapping, Admin!SessionsFollowPassword
<1> QED BY <1>2, <1>3 DEF AdminInv

(* A change of the password.                                               *)
LEMMA RotationSteps ==
  ASSUME Admin!AdminAssumption, AdminInv, NEW c \in Rotations,
         \/ Admin!RotationStarts(c) \/ Admin!RotationStores(c) \/ Admin!RotationSwaps(c)
              \/ Admin!RotationReloadFails(c) \/ Admin!RotationEnds(c)
         \/ \E right \in BOOLEAN : Admin!RotationVerifies(c, right)
  PROVE  AdminInv'
<1>0. /\ rotation[c] \notin {"idle", "ended"} => credential_lock = c /\ hash # None
      /\ credential_lock \in {c, None} /\ rotation[c] \notin {"swap", "reload"} => ~Swapping
      /\ rotation[c] \notin {"clear", "drop"} /\ credential_lock \in {c, None}
           => \A s \in sessions : password[s] = hash
      /\ c # None /\ c \notin Logins
  BY DEF AdminInv, OneChanges, RotationsKnow, Swapping, Admin!SessionsFollowPassword,
     Admin!AdminAssumption, Admin!Passwords
<1>c. /\ DOMAIN known = Rotations
      /\ rotation[c] \in {"verify", "store"} => known[c] = hash
  BY DEF AdminInv, RotationsKnow
<1>a. ASSUME UNCHANGED <<sessions, password, login>>, NEW l, Admin!RotationTo(c, l),
             UNCHANGED setup
      PROVE  AdminTypes'
  BY <1>a DEF AdminInv, AdminTypes, Admin!RotationTo
<1>b. ASSUME UNCHANGED <<hash, password, login, readers>> PROVE LoginsKeep'
  BY <1>b DEF AdminInv, LoginsKeep
<1>1. CASE Admin!RotationStarts(c)
  <2>0. /\ credential_lock = None
        /\ UNCHANGED <<stored, hash, edited, Admin!sessionVars, Admin!loginVars, setup>>
        /\ rotation[c] = "idle"
    BY <1>1 DEF Admin!RotationStarts
  <2>1. PICK l \in {"verify", "ended"} :
          /\ Admin!RotationTo(c, l) /\ DOMAIN known' = Rotations
          /\ l = "verify" => hash # None /\ credential_lock' = c /\ known'[c] = hash
    BY <1>1 DEF Admin!RotationStarts, AdminInv, RotationsKnow
  <2>2. AdminTypes' /\ LoginsKeep'
    BY <1>a, <1>b, <2>0, <2>1 DEF Admin!sessionVars, Admin!loginVars
  <2>3. edited' \/ hash' = stored'
    BY <1>0, <2>0 DEF AdminInv
  <2>4. \A s \in sessions' : password'[s] = hash'
    BY <1>0, <2>0 DEF Admin!sessionVars
  <2> QED BY <1>c, <2>0, <2>1, <2>2, <2>3, <2>4, RotationMoves DEF AdminInv, Admin!sessionVars
<1>2. CASE Admin!RotationStores(c)
  <2>0. /\ UNCHANGED <<hash, edited, Admin!sessionVars, Admin!loginVars, setup>>
        /\ rotation[c] = "store" /\ known' = known
    BY <1>2 DEF Admin!RotationStores
  <2>1. PICK l \in {"swap", "reload", "ended"} :
          /\ Admin!RotationTo(c, l) /\ (l # "ended" => credential_lock' = credential_lock)
          /\ stored' = IF l = "swap" THEN c ELSE stored
          /\ l = "reload" => stored # known[c]
    BY <1>2 DEF Admin!RotationStores
  <2>6. l = "reload" => edited'
    BY <1>0, <2>0, <2>1 DEF AdminInv, RotationsKnow
  <2>2. AdminTypes' /\ LoginsKeep'
    BY <1>a, <1>b, <2>0, <2>1 DEF Admin!sessionVars, Admin!loginVars
  <2>3. edited' \/ l \in {"swap", "reload"} \/ hash' = stored'
    BY <1>0, <2>0, <2>1 DEF AdminInv
  <2>4. \A s \in sessions' : password'[s] = hash'
    BY <1>0, <2>0 DEF Admin!sessionVars
  <2>5. hash' # None /\ stored' # None
    BY <1>0, <2>0, <2>1 DEF AdminInv
  <2> QED BY <1>0, <1>c, <2>0, <2>1, <2>2, <2>3, <2>4, <2>5, <2>6, RotationMoves
          DEF Admin!sessionVars
<1>3. CASE Admin!RotationSwaps(c)
  <2>0. /\ UNCHANGED <<stored, credential_lock, edited, Admin!sessionVars, Admin!loginVars,
             setup>>
        /\ readers = {} /\ rotation[c] \in {"swap", "reload"} /\ known' = known
    BY <1>3 DEF Admin!RotationSwaps
  <2>1. PICK l \in {"clear", "drop"} :
          /\ Admin!RotationTo(c, l) /\ (l = "clear" => rotation[c] = "swap" /\ hash' = c)
          /\ (l = "drop" => hash' = stored)
    BY <1>3 DEF Admin!RotationSwaps
  <2>2. AdminTypes'
    BY <1>a, <2>0, <2>1 DEF Admin!sessionVars, Admin!loginVars
  <2>3. LoginsKeep'
    BY <2>0 DEF AdminInv, LoginsKeep, Admin!loginVars
  <2>4. hash' # None /\ stored' # None
    BY <1>0, <2>0, <2>1 DEF AdminInv
  <2>5. edited' \/ hash' = stored'
    BY <2>0, <2>1 DEF AdminInv, RotationsKnow
  <2> QED BY <1>0, <1>c, <2>0, <2>1, <2>2, <2>3, <2>4, <2>5, RotationMoves
<1>4. CASE Admin!RotationEnds(c)
  <2>0. /\ UNCHANGED <<hash, stored, edited, Admin!loginVars, setup>>
        /\ rotation[c] \in {"clear", "drop"} /\ Admin!RotationTo(c, "ended") /\ known' = known
    BY <1>4 DEF Admin!RotationEnds
  <2>1. \/ sessions' = {c} /\ password' = [password EXCEPT ![c] = c] /\ hash = c
        \/ sessions' = {} /\ UNCHANGED password
    BY <1>4 DEF Admin!RotationEnds, AdminInv, RotationsKnow
  <2>2. /\ \A s \in sessions' : password'[s] = hash
        /\ \A l \in Logins : password'[l] = password[l]
    BY <1>0, <2>1 DEF AdminInv, AdminTypes, Admin!Issuers
  <2>3. AdminTypes'
    BY <2>0, <2>1 DEF AdminInv, AdminTypes, Admin!RotationTo, Admin!loginVars, Admin!Issuers
  <2>4. LoginsKeep'
    BY <2>0, <2>2 DEF AdminInv, LoginsKeep, Admin!loginVars
  <2>5. edited' \/ hash' = stored'
    BY <1>0, <2>0 DEF AdminInv
  <2>6. hash' # None /\ stored' # None
    BY <1>0, <2>0 DEF AdminInv
  <2> QED BY <1>0, <1>c, <2>0, <2>2, <2>3, <2>4, <2>5, <2>6, RotationMoves
<1>5. CASE \E right \in BOOLEAN : Admin!RotationVerifies(c, right)
  <2>0. /\ UNCHANGED <<hash, stored, edited, Admin!sessionVars, Admin!loginVars, setup>>
        /\ rotation[c] = "verify" /\ known' = known
    BY <1>5 DEF Admin!RotationVerifies
  <2>1. PICK l \in {"store", "ended"} :
          Admin!RotationTo(c, l) /\ (l # "ended" => credential_lock' = credential_lock)
    BY <1>5 DEF Admin!RotationVerifies
  <2>2. AdminTypes' /\ LoginsKeep'
    BY <1>a, <1>b, <2>0, <2>1 DEF Admin!sessionVars, Admin!loginVars
  <2>3. edited' \/ hash' = stored'
    BY <1>0, <2>0 DEF AdminInv
  <2>4. \A s \in sessions' : password'[s] = hash'
    BY <1>0, <2>0 DEF Admin!sessionVars
  <2>5. hash' # None /\ stored' # None
    BY <1>0, <2>0, <2>1 DEF AdminInv
  <2> QED BY <1>0, <1>c, <2>0, <2>1, <2>2, <2>3, <2>4, <2>5, RotationMoves
<1>6. CASE Admin!RotationReloadFails(c)
  <2>0. /\ UNCHANGED <<hash, stored, edited, Admin!sessionVars, Admin!loginVars, setup>>
        /\ rotation[c] = "reload" /\ Admin!RotationTo(c, "ended") /\ known' = known
    BY <1>6 DEF Admin!RotationReloadFails
  <2>1. AdminTypes' /\ LoginsKeep'
    BY <1>a, <1>b, <2>0 DEF Admin!sessionVars, Admin!loginVars
  <2>2. edited'
    BY <2>0 DEF AdminInv, RotationsKnow
  <2>3. \A s \in sessions' : password'[s] = hash'
    BY <1>0, <2>0 DEF Admin!sessionVars
  <2>4. hash' # None /\ stored' # None
    BY <1>0, <2>0 DEF AdminInv
  <2> QED BY <1>0, <1>c, <2>0, <2>1, <2>2, <2>3, <2>4, RotationMoves
<1> QED BY <1>1, <1>2, <1>3, <1>4, <1>5, <1>6

(* The first password.                                                     *)
LEMMA SetupSteps ==
  ASSUME Admin!AdminAssumption, AdminInv, NEW s \in Setups,
         Admin!SetupStores(s) \/ Admin!SetupEnds(s)
           \/ \E right \in BOOLEAN : Admin!SetupStarts(s, right)
  PROVE  AdminInv'
<1> USE DEF AdminInv, AdminTypes, OneChanges, LoginsKeep, RotationsKnow, SetupsKnow, Swapping,
            Admin!SessionsFollowPassword, Admin!SetupTo, Admin!sessionVars, Admin!loginVars,
              Admin!rotationVars, Admin!AdminAssumption,
            Admin!Passwords, Admin!Issuers
<1>1. CASE Admin!SetupStores(s)
  BY <1>1 DEF Admin!SetupStores
<1>2. CASE Admin!SetupEnds(s)
  BY <1>2 DEF Admin!SetupEnds
<1>3. CASE \E right \in BOOLEAN : Admin!SetupStarts(s, right)
  <2>0. /\ credential_lock = None /\ setup[s] = "idle"
        /\ UNCHANGED <<stored, hash, edited, Admin!sessionVars, Admin!loginVars,
             Admin!rotationVars>>
    BY <1>3 DEF Admin!SetupStarts
  <2>1. CASE /\ hash = None /\ credential_lock' = s
             /\ setup' = [setup EXCEPT ![s] = "store"]
    BY <2>0, <2>1, OthersRest
  <2>2. CASE setup' = [setup EXCEPT ![s] = "ended"] /\ credential_lock' = None
    <3>1. /\ \A c \in Rotations : rotation'[c] \in {"idle", "ended"}
          /\ \A r \in Setups : setup[r] \in {"idle", "ended"}
      BY <2>0, OthersRest
    <3>2. \A r \in Setups : setup'[r] \in {"idle", "ended"}
      BY <2>0, <2>2, <3>1
    <3>3. ~Swapping /\ OneChanges' /\ RotationsKnow' /\ SetupsKnow'
      BY <2>0, <3>1, <3>2
    <3>4. edited' \/ hash' = stored'
      BY <2>0, <3>3
    <3>5. AdminTypes' /\ LoginsKeep'
      BY <2>0, <2>2
    <3>6. Admin!SessionsFollowPassword' /\ (hash' = None => sessions' = {})
      BY <2>0
    <3> HIDE DEF AdminTypes, LoginsKeep, OneChanges, RotationsKnow, SetupsKnow, Swapping,
                 Admin!SessionsFollowPassword
    <3> QED BY <2>0, <3>3, <3>4, <3>5, <3>6
  <2> QED BY <1>3, <2>0, <2>1, <2>2 DEF Admin!SetupStarts
<1> QED BY <1>1, <1>2, <1>3

(* The process starts again, after whatever ended it.                      *)
LEMMA RestartSteps ==
  ASSUME Admin!AdminAssumption, AdminInv, Admin!Restart, stored # None => stored' # None
  PROVE  AdminInv'
BY DEF Admin!Restart, AdminInv, AdminTypes, OneChanges, LoginsKeep, RotationsKnow, SetupsKnow,
   Swapping, Admin!SessionsFollowPassword

(* The invariant holds at the start and after every step.                  *)
LEMMA AdminInvStep ==
  ASSUME Admin!AdminAssumption, AdminInv, [Admin!Next]_(Admin!vars)
  PROVE  AdminInv'
<1>1. CASE \E c \in Rotations \cup Setups : Admin!Indeterminate(c)
  <2>1. PICK c \in Rotations \cup Setups : Admin!Indeterminate(c)
    BY <1>1
  <2>2. stored # None => stored' # None
    BY <2>1 DEF Admin!Indeterminate, Admin!AdminAssumption, Admin!Passwords
  <2> QED BY <2>1, <2>2, RestartSteps DEF Admin!Indeterminate
<1>2. CASE Admin!FailureAges \/ Admin!Crash \/ Admin!EditOutside
  <2>1. CASE Admin!FailureAges
    BY <2>1 DEF Admin!FailureAges, AdminInv, AdminTypes, OneChanges, LoginsKeep, RotationsKnow,
       SetupsKnow, Swapping, Admin!SessionsFollowPassword, Admin!sessionVars, Admin!loginVars,
       Admin!rotationVars, Admin!credentialVars
  <2>2. CASE Admin!Crash
    BY <2>2, RestartSteps DEF Admin!Crash
  <2>3. CASE Admin!EditOutside
    BY <2>3 DEF Admin!EditOutside, AdminInv, AdminTypes, OneChanges, LoginsKeep, RotationsKnow,
       SetupsKnow, Swapping, Admin!SessionsFollowPassword, Admin!sessionVars, Admin!loginVars,
       Admin!rotationVars, Admin!AdminAssumption, Admin!Passwords
  <2> QED BY <1>2, <2>1, <2>2, <2>3
<1>3. CASE \/ UNCHANGED Admin!vars
           \/ \E w \in Watchers : \/ Admin!ObserveSession(w) \/ Admin!WatchFires(w)
                \/ Admin!SettingsChange(w)
                                  \/ \E s \in Admin!Issuers : Admin!Subscribe(w, s)
  <2>1. UNCHANGED <<Admin!credentialVars, Admin!sessionVars, Admin!loginVars, Admin!rotationVars,
          setup>>
    BY <1>3 DEF Admin!vars, Admin!ObserveSession, Admin!WatchFires, Admin!SettingsChange,
       Admin!Subscribe
  <2> QED BY <2>1 DEF AdminInv, AdminTypes, OneChanges, LoginsKeep, RotationsKnow, SetupsKnow,
             Swapping, Admin!SessionsFollowPassword, Admin!sessionVars, Admin!loginVars,
             Admin!rotationVars, Admin!credentialVars
<1> QED BY <1>1, <1>2, <1>3, SessionSteps, LoginSteps, RotationSteps, SetupSteps DEF Admin!Next

(* Every session was issued for the password in force, and with no change  *)
(* under way the password in memory is the one in storage, however logins, *)
(* rotations, setups, restarts and commits whose outcome is unknown        *)
(* interleave (login, rotate_password, initialize_with_setup_token).       *)
THEOREM SessionsFollow ==
  ASSUME Admin!AdminAssumption
  PROVE  Admin!Spec => []SessionsFollowPassword
<1>1. Admin!Init => AdminInv
  BY DEF Admin!Init, AdminInv, AdminTypes, OneChanges, LoginsKeep, RotationsKnow, SetupsKnow,
     Swapping, Admin!SessionsFollowPassword
<1>2. AdminInv => SessionsFollowPassword
  BY DEF AdminInv, OneChanges, Swapping, SessionsFollowPassword, Admin!PasswordInStep,
     Admin!AdminAssumption, Admin!Passwords
<1>3. AdminInv /\ [Admin!Next]_(Admin!vars) => AdminInv'
  BY AdminInvStep
<1> QED BY <1>1, <1>2, <1>3, PTL DEF Admin!Spec

-----------------------------------------------------------------------------
(* The telemetry writer.  What is in the channel is there once, and what   *)
(* is queued is in the channel; the lock keeps the number of a record and  *)
(* its place in the channel together.                                      *)
Places == {"none", "open", "admit", "slot", "send", "queued", "batched", "persisted", "dropped"}
In(f, places) == {r \in Records : f[r] \in places}
RejectedIn(f, k, places) == {r \in Records : f[r] \in places /\ k[r] = "rejected"}
Pending == {"send", "queued"}
Held == {"slot", "send", "queued"}
Charged == {"send", "queued", "batched"}
Shift(from, to, places) ==
  (IF to \in places THEN 1 ELSE 0) - (IF from \in places THEN 1 ELSE 0)
Waiting(q) == {c \in Controls : \E i \in 1 .. Len(q) : q[i] = c}

TelemetryTypes ==
  /\ pc \in [Records -> Places] /\ kind \in [Records -> Telemetry!Kinds]
  /\ number \in [Records -> Nat] /\ sequence \in Nat
  /\ position \in [Controls -> Nat] /\ DOMAIN call = Controls
  /\ call = [c \in Controls |-> call[c]]
  /\ queue \in Seq(Records \cup Controls)
  /\ persisted \in Nat /\ dropped \in Nat
  /\ reply_to \in Controls \cup {None} /\ active \subseteq Records
  /\ worker \in {"idle", "batch", "flush", "stopped", "aborted"}
  /\ down \in {"no", "joining", "done"}

QueueKept ==
  /\ \A i, j \in 1 .. Len(queue) : queue[i] = queue[j] => i = j
  /\ \A i \in 1 .. Len(queue) :
       /\ queue[i] \in Records => pc[queue[i]] = "queued"
       /\ queue[i] \in Controls => call[queue[i]] = "waiting" /\ reply_to # queue[i]
  /\ \A r \in Records : pc[r] = "queued" => \E i \in 1 .. Len(queue) : queue[i] = r
  /\ reply_to # None => call[reply_to] = "waiting" /\ worker = "flush"

ShutdownKept ==
  /\ worker \in {"idle", "stopped", "aborted"} => \A r \in Records : pc[r] # "batched"
  /\ worker \in {"stopped", "aborted"} => queue = <<>> /\ ~sender
  /\ ~sender => \A r \in Records : pc[r] \notin {"slot", "send"}
  /\ down = "no" => sender
  /\ down # "no" => ~sender
  /\ down = "done" => worker \in {"stopped", "aborted"}

NumbersKept ==
  /\ \A r \in Records :
       /\ pc[r] \in {"none", "open"} => number[r] = 0
       /\ kind[r] = "oauth" /\ pc[r] \in {"admit", "slot", "send"} => sequence_lock = r
  /\ \A c \in Controls : position[c] <= sequence /\ (call[c] = "none" => position[c] = 0)

Covered(c, r) ==
  wants[c] = "quota" /\ kind[r] = "oauth" /\ number[r] \in 1 .. position[c]
FenceKept ==
  \A c \in Controls, r \in Records : Covered(c, r) =>
    /\ pc[r] \in {"queued", "batched"} \cup Telemetry!Settled
    /\ call[c] = "answered" => pc[r] \in Telemetry!Settled
    /\ reply_to = c => pc[r] # "queued"
    /\ \A i \in 1 .. Len(queue) :
         queue[i] = c /\ pc[r] = "queued" => \E j \in 1 .. (i - 1) : queue[j] = r

Counted ==
  /\ persisted + dropped = Cardinality(In(pc, Telemetry!Settled))
  /\ queued = Cardinality(In(pc, Pending))
  /\ in_flight = Cardinality(In(pc, {"batched"}))
  /\ down # "done" =>
       /\ slots = Cardinality(In(pc, Held)) + Cardinality(Waiting(queue))
       /\ rejected_slots = Cardinality(RejectedIn(pc, kind, Held))
       /\ bytes = Cardinality(In(pc, Charged))
       /\ rejected_bytes = Cardinality(RejectedIn(pc, kind, Charged))

TelemetryInv ==
  /\ TelemetryTypes /\ QueueKept /\ ShutdownKept /\ NumbersKept /\ FenceKept /\ Counted
  /\ Telemetry!NoGhosts

(* The writer's module counts with the same operators as this one.         *)
LEMMA TelemetryCounts ==
  ASSUME NEW S
  PROVE  /\ Telemetry!Cardinality(S) = Cardinality(S)
         /\ Telemetry!IsFiniteSet(S) <=> IsFiniteSet(S)
BY DEF Telemetry!Cardinality, Cardinality, Telemetry!IsFiniteSet, IsFiniteSet

(* The counts are numbers, and a record that moves changes them by one.    *)
LEMMA TelemetryFinite ==
  ASSUME Telemetry!TelemetryAssumption, NEW f, NEW k, NEW places, NEW q
  PROVE  /\ IsFiniteSet(In(f, places)) /\ Cardinality(In(f, places)) \in Nat
         /\ IsFiniteSet(RejectedIn(f, k, places)) /\ Cardinality(RejectedIn(f, k, places)) \in Nat
         /\ IsFiniteSet(Waiting(q)) /\ Cardinality(Waiting(q)) \in Nat
<1>1. IsFiniteSet(Records) /\ IsFiniteSet(Controls)
  BY TelemetryCounts DEF Telemetry!TelemetryAssumption
<1>2. /\ In(f, places) \in SUBSET Records /\ RejectedIn(f, k, places) \in SUBSET Records
      /\ Waiting(q) \in SUBSET Controls
  BY DEF In, RejectedIn, Waiting
<1>3. /\ IsFiniteSet(In(f, places)) /\ IsFiniteSet(RejectedIn(f, k, places))
      /\ IsFiniteSet(Waiting(q))
  BY <1>1, <1>2, FS_Subset
<1> QED BY <1>3, FS_CardinalityType

(* All seven counts at once: what a step of record r adds to each.         *)
Counts(f, g, k, r, settled, pending, batched, held, charged) ==
  /\ Cardinality(In(g, Telemetry!Settled)) = Cardinality(In(f, Telemetry!Settled)) + settled
  /\ Cardinality(In(g, Pending)) = Cardinality(In(f, Pending)) + pending
  /\ Cardinality(In(g, {"batched"})) = Cardinality(In(f, {"batched"})) + batched
  /\ Cardinality(In(g, Held)) = Cardinality(In(f, Held)) + held
  /\ Cardinality(In(g, Charged)) = Cardinality(In(f, Charged)) + charged
  /\ Cardinality(RejectedIn(g, k, Held)) =
       Cardinality(RejectedIn(f, k, Held)) + (IF k[r] = "rejected" THEN held ELSE 0)
  /\ Cardinality(RejectedIn(g, k, Charged)) =
       Cardinality(RejectedIn(f, k, Charged)) + (IF k[r] = "rejected" THEN charged ELSE 0)
  /\ \A places \in {Telemetry!Settled, Pending, {"batched"}, Held, Charged} :
       /\ Cardinality(In(f, places)) \in Nat
       /\ Cardinality(RejectedIn(f, k, places)) \in Nat

LEMMA CountsMove ==
  ASSUME Telemetry!TelemetryAssumption, TelemetryTypes, NEW r \in Records, NEW to \in Places,
         pc' = [pc EXCEPT ![r] = to]
  PROVE  Counts(pc, pc', kind, r, Shift(pc[r], to, Telemetry!Settled), Shift(pc[r], to, Pending),
                Shift(pc[r], to, {"batched"}), Shift(pc[r], to, Held), Shift(pc[r], to, Charged))
<1>1. ASSUME NEW places
      PROVE  /\ Cardinality(In(pc', places)) =
                  Cardinality(In(pc, places)) + Shift(pc[r], to, places)
             /\ Cardinality(RejectedIn(pc', kind, places)) =
                  Cardinality(RejectedIn(pc, kind, places))
                    + (IF kind[r] = "rejected" THEN Shift(pc[r], to, places) ELSE 0)
             /\ Cardinality(In(pc, places)) \in Nat
             /\ Cardinality(RejectedIn(pc, kind, places)) \in Nat
  <2> DEFINE I == In(pc, places)
             R == RejectedIn(pc, kind, places)
  <2>1. In(pc', places) = IF to \in places THEN I \cup {r} ELSE I \ {r}
    BY DEF In, TelemetryTypes
  <2>2. RejectedIn(pc', kind, places) =
          IF to \in places /\ kind[r] = "rejected" THEN R \cup {r} ELSE R \ {r}
    BY DEF RejectedIn, TelemetryTypes
  <2>3. (r \in I <=> pc[r] \in places) /\ (r \in R <=> pc[r] \in places /\ kind[r] = "rejected")
    BY DEF In, RejectedIn
  <2>4. IsFiniteSet(I) /\ IsFiniteSet(R) /\ Cardinality(I) \in Nat /\ Cardinality(R) \in Nat
    BY TelemetryFinite
  <2> HIDE DEF I, R
  <2>5. /\ Cardinality(I \cup {r}) = IF r \in I THEN Cardinality(I) ELSE Cardinality(I) + 1
        /\ Cardinality(I \ {r}) = IF r \in I THEN Cardinality(I) - 1 ELSE Cardinality(I)
    BY <2>4, FS_AddElement, FS_RemoveElement
  <2>6. /\ Cardinality(R \cup {r}) = IF r \in R THEN Cardinality(R) ELSE Cardinality(R) + 1
        /\ Cardinality(R \ {r}) = IF r \in R THEN Cardinality(R) - 1 ELSE Cardinality(R)
    BY <2>4, FS_AddElement, FS_RemoveElement
  <2>7. Cardinality(In(pc', places)) = Cardinality(I) + Shift(pc[r], to, places)
    BY <2>1, <2>3, <2>4, <2>5 DEF Shift
  <2>8. Cardinality(RejectedIn(pc', kind, places)) =
          Cardinality(R) + (IF kind[r] = "rejected" THEN Shift(pc[r], to, places) ELSE 0)
    BY <2>2, <2>3, <2>4, <2>6 DEF Shift
  <2> QED BY <2>4, <2>7, <2>8 DEF I, R
<1> QED BY <1>1 DEF Counts

(* A record on its way to the channel, or refused.                         *)
LEMMA ProducerKeeps ==
  ASSUME Telemetry!TelemetryAssumption, TelemetryInv, NEW r \in Records,
         Telemetry!Begin(r) \/ Telemetry!Finish(r) \/ Telemetry!Admit(r) \/ Telemetry!Charge(r)
           \/ (pc[r] = "send" /\ Telemetry!SendFailed(r)
           /\ UNCHANGED <<kind, number, sender, Telemetry!workerVars, Telemetry!controlVars,
                down, Telemetry!pruneVars>>)
  PROVE  TelemetryInv'
<1>0. /\ pc \in [Records -> Places] /\ kind \in [Records -> Telemetry!Kinds]
      /\ number \in [Records -> Nat]
      /\ sequence \in Nat /\ dropped \in Nat /\ persisted \in Nat
      /\ UNCHANGED <<queue, call, wants, position, worker, reply_to, down, sender, kind>>
  BY DEF TelemetryInv, TelemetryTypes, Telemetry!Begin, Telemetry!Finish, Telemetry!Admit,
     Telemetry!Charge, Telemetry!SendFailed, Telemetry!controlVars, Telemetry!workerVars
<1>1. PICK to \in {"open", "admit", "slot", "send", "dropped"} :
        /\ pc' = [pc EXCEPT ![r] = to]
        /\ to = "open" => pc[r] = "none" /\ UNCHANGED <<sequence, sequence_lock, number>>
        /\ to = "admit" => pc[r] = "open" /\ Telemetry!Numbered(r)
        /\ to = "slot" => pc[r] = "admit" /\ sender
        /\ to = "send" => pc[r] = "slot"
        /\ to \in {"slot", "send"} => UNCHANGED <<sequence, sequence_lock, number>>
        /\ to = "dropped" => /\ pc[r] \in {"admit", "slot", "send"} /\ Telemetry!Unlock(r)
                             /\ UNCHANGED number
        /\ active' \subseteq active \cup {r} /\ (to = "dropped" => r \notin active')
        /\ persisted' = persisted /\ dropped' \in {dropped, dropped + 1}
  BY <1>0 DEF Telemetry!Begin, Telemetry!Finish, Telemetry!Admit, Telemetry!Charge,
     Telemetry!SendFailed, Telemetry!Reject, Telemetry!sequenceVars, Telemetry!recordVars,
     Telemetry!countVars
<1>2. /\ pc[r] \in {"none", "open", "admit", "slot", "send"} /\ to \in Places
      /\ \A q \in Records : pc'[q] = IF q = r THEN to ELSE pc[q]
      /\ pc' \in [Records -> Places]
  BY <1>0, <1>1 DEF Places
<1>3. /\ sequence' \in Nat /\ sequence <= sequence' /\ number' \in [Records -> Nat]
      /\ \A q \in Records \ {r} : number'[q] = number[q]
      /\ number'[r] = number[r] \/ (number'[r] = sequence' /\ sequence' = sequence + 1)
  BY <1>0, <1>1 DEF Telemetry!Numbered, Telemetry!Unlock, Telemetry!sequenceVars
<1>4. TelemetryTypes'
  BY <1>0, <1>1, <1>2, <1>3 DEF TelemetryInv, TelemetryTypes
<1>5. QueueKept'
  <2>1. \A q \in Records : pc'[q] = "queued" <=> pc[q] = "queued"
    BY <1>1, <1>2
  <2> QED BY <1>0, <2>1 DEF TelemetryInv, QueueKept
<1>6. ShutdownKept'
  BY <1>0, <1>1, <1>2 DEF TelemetryInv, ShutdownKept
<1>7. NumbersKept'
  <2>1. ASSUME NEW q \in Records PROVE pc'[q] \in {"none", "open"} => number'[q] = 0
    BY <1>0, <1>1, <1>2, <1>3, <2>1 DEF TelemetryInv, NumbersKept
  <2>2. ASSUME NEW q \in Records, kind'[q] = "oauth", pc'[q] \in {"admit", "slot", "send"}
        PROVE  sequence_lock' = q
    <3>1. CASE q = r
      BY <1>0, <1>1, <1>2, <2>2, <3>1 DEF TelemetryInv, NumbersKept, Telemetry!Numbered
    <3>2. CASE q # r
      <4>1. sequence_lock = q /\ q # None
        BY <1>0, <1>2, <2>2, <3>2 DEF TelemetryInv, NumbersKept, Telemetry!TelemetryAssumption
      <4> QED BY <1>1, <3>2, <4>1 DEF Telemetry!Numbered, Telemetry!Unlock,
                 Telemetry!sequenceVars
    <3> QED BY <3>1, <3>2
  <2>3. \A c \in Controls : position'[c] <= sequence' /\ (call'[c] = "none" => position'[c] = 0)
    BY <1>0, <1>3 DEF TelemetryInv, TelemetryTypes, NumbersKept
  <2> QED BY <2>1, <2>2, <2>3 DEF NumbersKept
<1>8. FenceKept'
  <2>1. ASSUME NEW c \in Controls, NEW q \in Records, Covered(c, q)'
        PROVE  q # r /\ Covered(c, q)
    <3>1. position[c] <= sequence /\ position[c] \in Nat /\ (Covered(c, r) => FALSE)
      BY <1>2 DEF TelemetryInv, TelemetryTypes, NumbersKept, FenceKept, Telemetry!Settled
    <3>2. number'[q] \in 1 .. position[c] /\ wants[c] = "quota" /\ kind[q] = "oauth"
      BY <1>0, <2>1 DEF Covered
    <3>3. number'[q] = number[q]
      BY <1>0, <1>3, <3>1, <3>2
    <3> QED BY <3>1, <3>2, <3>3 DEF Covered
  <2> QED BY <1>0, <1>2, <2>1 DEF TelemetryInv, FenceKept
<1>9. Telemetry!NoGhosts'
  BY <1>1, <1>2 DEF TelemetryInv, Telemetry!NoGhosts, Telemetry!Settled
<1>10. Counted'
  <2>0. /\ TelemetryTypes /\ Counted /\ Cardinality(Waiting(queue)) \in Nat
        /\ UNCHANGED <<queue, kind, down>>
    BY <1>0, TelemetryFinite DEF TelemetryInv
  <2>1. CASE Telemetry!Begin(r)
    <3>1. pc' = [pc EXCEPT ![r] = "open"] /\ pc[r] = "none" /\ "open" \in Places
          /\ UNCHANGED <<slots, rejected_slots, bytes, rejected_bytes, queued, in_flight, dropped,
                         persisted>>
      BY <2>1 DEF Telemetry!Begin, Telemetry!slotVars, Telemetry!byteVars, Telemetry!countVars,
         Places
    <3>2. /\ Shift(pc[r], "open", Telemetry!Settled) = 0 /\ Shift(pc[r], "open", Pending) = 0
          /\ Shift(pc[r], "open", {"batched"}) = 0
          /\ Shift(pc[r], "open", Held) = 0 /\ Shift(pc[r], "open", Charged) = 0
      BY <3>1 DEF Shift, Telemetry!Settled, Pending, Held, Charged
    <3>3. Counts(pc, pc', kind, r, 0, 0, 0, 0, 0)
      BY <2>0, <3>1, <3>2, CountsMove
    <3> QED BY <2>0, <3>1, <3>3 DEF Counted, Counts
  <2>2. CASE Telemetry!Finish(r)
    <3>1. pc' = [pc EXCEPT ![r] = "admit"] /\ pc[r] = "open" /\ "admit" \in Places
          /\ UNCHANGED <<slots, rejected_slots, bytes, rejected_bytes, queued, in_flight, dropped,
                         persisted>>
      BY <2>2 DEF Telemetry!Finish, Telemetry!slotVars, Telemetry!byteVars, Telemetry!countVars,
         Places
    <3>2. /\ Shift(pc[r], "admit", Telemetry!Settled) = 0 /\ Shift(pc[r], "admit", Pending) = 0
          /\ Shift(pc[r], "admit", {"batched"}) = 0
          /\ Shift(pc[r], "admit", Held) = 0 /\ Shift(pc[r], "admit", Charged) = 0
      BY <3>1 DEF Shift, Telemetry!Settled, Pending, Held, Charged
    <3>3. Counts(pc, pc', kind, r, 0, 0, 0, 0, 0)
      BY <2>0, <3>1, <3>2, CountsMove
    <3> QED BY <2>0, <3>1, <3>3 DEF Counted, Counts
  <2>3. CASE Telemetry!Admit(r)
    <3>1. CASE /\ slots' = slots + 1
               /\ rejected_slots' = rejected_slots + Telemetry!One(r, "rejected")
               /\ pc' = [pc EXCEPT ![r] = "slot"]
               /\ UNCHANGED Telemetry!countVars
      <4>1. pc[r] = "admit" /\ UNCHANGED Telemetry!byteVars /\ "slot" \in Places
        BY <2>3 DEF Telemetry!Admit, Places
      <4>2. /\ Shift(pc[r], "slot", Telemetry!Settled) = 0 /\ Shift(pc[r], "slot", Pending) = 0
            /\ Shift(pc[r], "slot", {"batched"}) = 0
            /\ Shift(pc[r], "slot", Held) = 1 /\ Shift(pc[r], "slot", Charged) = 0
        BY <3>1, <4>1 DEF Shift, Telemetry!Settled, Pending, Held, Charged
      <4>3. Counts(pc, pc', kind, r, 0, 0, 0, 1, 0)
        BY <2>0, <3>1, <4>1, <4>2, CountsMove
      <4> QED BY <2>0, <3>1, <4>1, <4>3 DEF Counted, Counts, Telemetry!One, Telemetry!byteVars,
                 Telemetry!countVars
    <3>2. CASE Telemetry!Reject(r) /\ UNCHANGED Telemetry!slotVars
      <4>1. pc[r] = "admit" /\ UNCHANGED Telemetry!byteVars /\ "dropped" \in Places
        BY <2>3 DEF Telemetry!Admit, Places
      <4>2. /\ Shift(pc[r], "dropped", Telemetry!Settled) = 1
            /\ Shift(pc[r], "dropped", Pending) = 0
            /\ Shift(pc[r], "dropped", {"batched"}) = 0
            /\ Shift(pc[r], "dropped", Held) = 0 /\ Shift(pc[r], "dropped", Charged) = 0
        BY <3>2, <4>1 DEF Shift, Telemetry!Settled, Pending, Held, Charged
      <4>3. Counts(pc, pc', kind, r, 1, 0, 0, 0, 0)
        BY <2>0, <3>2, <4>1, <4>2, CountsMove DEF Telemetry!Reject
      <4> QED BY <1>0, <2>0, <3>2, <4>1, <4>3 DEF Telemetry!Reject, Counted, Counts,
                 Telemetry!byteVars, Telemetry!slotVars
    <3> QED BY <2>3, <3>1, <3>2 DEF Telemetry!Admit
  <2>4. CASE Telemetry!Charge(r)
    <3>1. CASE /\ bytes' = bytes + 1
               /\ rejected_bytes' = rejected_bytes + Telemetry!One(r, "rejected")
               /\ queued' = queued + 1
               /\ pc' = [pc EXCEPT ![r] = "send"]
               /\ UNCHANGED <<Telemetry!slotVars, in_flight, dropped, persisted>>
      <4>1. pc[r] = "slot" /\ "send" \in Places
        BY <2>4 DEF Telemetry!Charge, Places
      <4>2. /\ Shift(pc[r], "send", Telemetry!Settled) = 0 /\ Shift(pc[r], "send", Pending) = 1
            /\ Shift(pc[r], "send", {"batched"}) = 0
            /\ Shift(pc[r], "send", Held) = 0 /\ Shift(pc[r], "send", Charged) = 1
        BY <3>1, <4>1 DEF Shift, Telemetry!Settled, Pending, Held, Charged
      <4>3. Counts(pc, pc', kind, r, 0, 1, 0, 0, 1)
        BY <2>0, <3>1, <4>1, <4>2, CountsMove
      <4> QED BY <2>0, <3>1, <4>1, <4>3 DEF Counted, Counts, Telemetry!One, Telemetry!slotVars
    <3>2. CASE Telemetry!ReleaseSlot(r) /\ Telemetry!Reject(r) /\ UNCHANGED Telemetry!byteVars
      <4>1. pc[r] = "slot" /\ "dropped" \in Places
        BY <2>4 DEF Telemetry!Charge, Places
      <4>2. /\ Shift(pc[r], "dropped", Telemetry!Settled) = 1
            /\ Shift(pc[r], "dropped", Pending) = 0
            /\ Shift(pc[r], "dropped", {"batched"}) = 0
            /\ Shift(pc[r], "dropped", Held) = -1 /\ Shift(pc[r], "dropped", Charged) = 0
        BY <3>2, <4>1 DEF Shift, Telemetry!Settled, Pending, Held, Charged
      <4>3. Counts(pc, pc', kind, r, 1, 0, 0, -1, 0)
        BY <2>0, <3>2, <4>1, <4>2, CountsMove DEF Telemetry!Reject
      <4> QED BY <1>0, <2>0, <3>2, <4>1, <4>3 DEF Telemetry!Reject, Telemetry!ReleaseSlot,
                 Counted, Counts, Telemetry!byteVars, Telemetry!One
    <3> QED BY <2>4, <3>1, <3>2 DEF Telemetry!Charge
  <2>5. CASE pc[r] = "send" /\ Telemetry!SendFailed(r)
    <3>1. pc' = [pc EXCEPT ![r] = "dropped"] /\ "dropped" \in Places
      BY <2>5 DEF Telemetry!SendFailed, Places
    <3>2. /\ Shift(pc[r], "dropped", Telemetry!Settled) = 1
          /\ Shift(pc[r], "dropped", Pending) = -1
          /\ Shift(pc[r], "dropped", {"batched"}) = 0
          /\ Shift(pc[r], "dropped", Held) = -1 /\ Shift(pc[r], "dropped", Charged) = -1
      BY <2>5, <3>1 DEF Shift, Telemetry!Settled, Pending, Held, Charged
    <3>3. Counts(pc, pc', kind, r, 1, -1, 0, -1, -1)
      BY <2>0, <2>5, <3>1, <3>2, CountsMove
    <3>4. /\ queued' = queued - 1 /\ dropped' = dropped + 1 /\ slots' = slots - 1
          /\ rejected_slots' = rejected_slots - (IF kind[r] = "rejected" THEN 1 ELSE 0)
          /\ bytes' = bytes - 1
          /\ rejected_bytes' = rejected_bytes - (IF kind[r] = "rejected" THEN 1 ELSE 0)
          /\ UNCHANGED <<persisted, in_flight>>
      BY <2>5 DEF Telemetry!SendFailed, Telemetry!ReleaseSlot, Telemetry!One
    <3> QED BY <1>0, <2>0, <3>3, <3>4 DEF Counted, Counts
  <2> QED BY <2>1, <2>2, <2>3, <2>4, <2>5
<1> QED BY <1>4, <1>5, <1>6, <1>7, <1>8, <1>9, <1>10 DEF TelemetryInv

(* A record that enters the channel goes behind everything in it.          *)
LEMMA DeliverKeeps ==
  ASSUME Telemetry!TelemetryAssumption, TelemetryInv, NEW r \in Records, pc[r] = "send",
         Telemetry!Deliver(r),
         UNCHANGED <<kind, number, sender, Telemetry!workerVars, Telemetry!controlVars, down,
           Telemetry!pruneVars>>
  PROVE  TelemetryInv'
<1>0. /\ pc \in [Records -> Places] /\ queue \in Seq(Records \cup Controls)
      /\ pc' = [pc EXCEPT ![r] = "queued"] /\ queue' = Append(queue, r) /\ Telemetry!Unlock(r)
      /\ Telemetry!Alive
      /\ UNCHANGED <<kind, number, sender, sequence, worker, reply_to, call, wants, position,
           down,
                     active, slots, rejected_slots, bytes, rejected_bytes, queued, in_flight,
                     dropped, persisted>>
  BY DEF TelemetryInv, TelemetryTypes, Telemetry!Deliver, Telemetry!Unlock,
     Telemetry!workerVars, Telemetry!controlVars, Telemetry!slotVars, Telemetry!byteVars,
     Telemetry!countVars
<1>1. /\ Len(queue) \in Nat /\ Len(queue') = Len(queue) + 1 /\ queue'[Len(queue) + 1] = r
      /\ \A i \in 1 .. Len(queue) : queue'[i] = queue[i] /\ queue[i] # r
      /\ queue' \in Seq(Records \cup Controls)
  BY <1>0 DEF TelemetryInv, QueueKept
<1>2. /\ \A q \in Records : pc'[q] = IF q = r THEN "queued" ELSE pc[q]
      /\ pc' \in [Records -> Places] /\ "queued" \in Places /\ r \notin Controls
  BY <1>0 DEF Places, Telemetry!TelemetryAssumption
<1>4. TelemetryTypes'
  BY <1>0, <1>1, <1>2 DEF TelemetryInv, TelemetryTypes
<1>5. QueueKept'
  <2>1. \A i \in 1 .. Len(queue') : i \in 1 .. Len(queue) \/ i = Len(queue) + 1
    BY <1>1
  <2>2. \A i, j \in 1 .. Len(queue') : queue'[i] = queue'[j] => i = j
    BY <1>1, <2>1 DEF TelemetryInv, QueueKept
  <2>3. ASSUME NEW i \in 1 .. Len(queue')
        PROVE  /\ queue'[i] \in Records => pc'[queue'[i]] = "queued"
               /\ queue'[i] \in Controls => call'[queue'[i]] = "waiting" /\ reply_to' # queue'[i]
    BY <1>0, <1>1, <1>2, <2>1 DEF TelemetryInv, QueueKept
  <2>4. ASSUME NEW q \in Records, pc'[q] = "queued"
        PROVE  \E i \in 1 .. Len(queue') : queue'[i] = q
    <3>1. CASE q = r
      BY <1>1, <3>1
    <3>2. CASE q # r
      <4>1. PICK i \in 1 .. Len(queue) : queue[i] = q
        BY <1>2, <2>4, <3>2 DEF TelemetryInv, QueueKept
      <4> QED BY <1>1, <4>1
    <3> QED BY <3>1, <3>2
  <2>5. reply_to' # None => call'[reply_to'] = "waiting" /\ worker' = "flush"
    BY <1>0 DEF TelemetryInv, QueueKept
  <2> QED BY <2>2, <2>3, <2>4, <2>5 DEF QueueKept
<1>6. ShutdownKept'
  BY <1>0, <1>2 DEF TelemetryInv, ShutdownKept, Telemetry!Alive
<1>7. NumbersKept'
  <2>1. ASSUME NEW q \in Records, kind'[q] = "oauth", pc'[q] \in {"admit", "slot", "send"}
        PROVE  sequence_lock' = q
    <3>1. sequence_lock = q /\ q # r
      BY <1>0, <1>2, <2>1 DEF TelemetryInv, NumbersKept
    <3> QED BY <1>0, <3>1 DEF Telemetry!Unlock
  <2> QED BY <1>0, <1>2, <2>1 DEF TelemetryInv, NumbersKept
<1>8. FenceKept'
  <2>1. ASSUME NEW c \in Controls, NEW q \in Records, Covered(c, q)'
        PROVE  q # r /\ Covered(c, q)
    <3>1. Covered(c, q)
      BY <1>0, <2>1 DEF Covered
    <3> QED BY <3>1 DEF TelemetryInv, FenceKept, Telemetry!Settled
  <2>2. ASSUME NEW c \in Controls, NEW q \in Records, Covered(c, q)'
        PROVE  /\ pc'[q] \in {"queued", "batched"} \cup Telemetry!Settled
               /\ call'[c] = "answered" => pc'[q] \in Telemetry!Settled
               /\ reply_to' = c => pc'[q] # "queued"
    BY <1>0, <1>2, <2>1, <2>2 DEF TelemetryInv, FenceKept
  <2>3. ASSUME NEW c \in Controls, NEW q \in Records, Covered(c, q)',
               NEW i \in 1 .. Len(queue'), queue'[i] = c, pc'[q] = "queued"
        PROVE  \E j \in 1 .. (i - 1) : queue'[j] = q
    <3>1. i \in 1 .. Len(queue) /\ queue[i] = c /\ pc[q] = "queued" /\ Covered(c, q)
      BY <1>1, <1>2, <2>1, <2>3
    <3>2. PICK j \in 1 .. (i - 1) : queue[j] = q
      BY <3>1 DEF TelemetryInv, FenceKept
    <3> QED BY <1>1, <3>1, <3>2
  <2> QED BY <2>2, <2>3 DEF FenceKept
<1>9. Telemetry!NoGhosts'
  BY <1>0, <1>2 DEF TelemetryInv, Telemetry!NoGhosts, Telemetry!Settled
<1>10. Counted'
  <2>1. Waiting(queue') = Waiting(queue)
    <3>1. ASSUME NEW c \in Controls
          PROVE  (\E i \in 1 .. Len(queue') : queue'[i] = c) <=>
                   \E i \in 1 .. Len(queue) : queue[i] = c
      BY <1>1, <1>2
    <3> QED BY <3>1 DEF Waiting
  <2>2. /\ Shift(pc[r], "queued", Telemetry!Settled) = 0 /\ Shift(pc[r], "queued", Pending) = 0
        /\ Shift(pc[r], "queued", {"batched"}) = 0
        /\ Shift(pc[r], "queued", Held) = 0 /\ Shift(pc[r], "queued", Charged) = 0
    BY DEF Shift, Telemetry!Settled, Pending, Held, Charged
  <2>3. Counts(pc, pc', kind, r, 0, 0, 0, 0, 0)
    BY <1>0, <1>2, <2>2, CountsMove DEF TelemetryInv
  <2>4. Counted /\ Cardinality(Waiting(queue)) \in Nat
    BY TelemetryFinite DEF TelemetryInv
  <2> QED BY <1>0, <2>1, <2>3, <2>4 DEF Counted, Counts
<1> QED BY <1>4, <1>5, <1>6, <1>7, <1>8, <1>9, <1>10 DEF TelemetryInv

(* A control before it is sent: an observation is taken while nobody holds *)
(* a number that is not yet in the channel.                                *)
LEMMA ObserveKeeps ==
  ASSUME Telemetry!TelemetryAssumption, TelemetryInv, NEW c \in Controls, Telemetry!Observe(c)
           \/ Telemetry!CloneSender(c)
  PROVE  TelemetryInv'
<1>0. /\ UNCHANGED <<pc, kind, number, sequence, sequence_lock, queue, sender, worker, reply_to,
                     wants, down, active, slots, rejected_slots, bytes, rejected_bytes, queued,
                     in_flight, dropped, persisted>>
      /\ call[c] \in {"none", "observed"}
      /\ \E state \in {"observed", "cloned", "unavailable"} : call' = [call EXCEPT ![c] = state]
  BY DEF Telemetry!Observe, Telemetry!CloneSender, Telemetry!SetCall, Telemetry!producerVars,
     Telemetry!recordVars, Telemetry!sequenceVars, Telemetry!slotVars, Telemetry!byteVars,
     Telemetry!countVars, Telemetry!workerVars
<1>1. /\ call = [d \in Controls |-> call[d]] /\ sequence \in Nat /\ position \in [Controls -> Nat]
      /\ number \in [Records -> Nat] /\ pc \in [Records -> Places]
  BY DEF TelemetryInv, TelemetryTypes
<1>2. /\ call' = [d \in Controls |-> call'[d]] /\ DOMAIN call' = Controls
      /\ call'[c] \in {"observed", "cloned", "unavailable"}
      /\ \A d \in Controls \ {c} : call'[d] = call[d]
  BY <1>0, <1>1
<1>3. /\ position' \in [Controls -> Nat] /\ \A d \in Controls \ {c} : position'[d] = position[d]
      /\ \/ position'[c] = position[c] \/ position'[c] = 0
         \/ wants[c] = "quota" /\ sequence_lock = None /\ position'[c] = sequence
  BY <1>1 DEF Telemetry!Observe, Telemetry!CloneSender
<1>4. TelemetryTypes'
  BY <1>0, <1>2, <1>3 DEF TelemetryInv, TelemetryTypes
<1>5. QueueKept'
  <2>1. \A d \in Controls : call[d] = "waiting" => call'[d] = "waiting"
    BY <1>0, <1>2
  <2>2. reply_to # None => reply_to \in Controls
    BY DEF TelemetryInv, TelemetryTypes
  <2> QED BY <1>0, <2>1, <2>2 DEF TelemetryInv, QueueKept
<1>6. ShutdownKept'
  BY <1>0 DEF TelemetryInv, ShutdownKept
<1>7. NumbersKept'
  <2>1. \A d \in Controls : position'[d] <= sequence'
    BY <1>0, <1>1, <1>3 DEF TelemetryInv, NumbersKept
  <2>2. \A d \in Controls : call'[d] = "none" => position'[d] = 0
    BY <1>2, <1>3 DEF TelemetryInv, NumbersKept
  <2> QED BY <1>0, <2>1, <2>2 DEF TelemetryInv, NumbersKept
<1>8. FenceKept'
  <2>1. ASSUME NEW d \in Controls, d # c, NEW r \in Records
        PROVE  Covered(d, r)' <=> Covered(d, r)
    BY <1>0, <1>3, <2>1 DEF Covered
  <2>2. /\ reply_to # c
        /\ \A i \in 1 .. Len(queue) : queue[i] # c
    BY <1>0 DEF TelemetryInv, QueueKept, Telemetry!TelemetryAssumption
  <2>3. ASSUME NEW r \in Records, Covered(c, r)'
        PROVE  pc[r] \in {"queued", "batched"} \cup Telemetry!Settled
    <3>1. kind[r] = "oauth" /\ number[r] \in 1 .. position'[c] /\ wants[c] = "quota"
      BY <1>0, <2>3 DEF Covered
    <3>2. CASE position'[c] = position[c]
      BY <3>1, <3>2 DEF TelemetryInv, FenceKept, Covered
    <3>3. CASE sequence_lock = None
      <4>1. pc[r] \notin {"admit", "slot", "send"}
        BY <3>1, <3>3 DEF TelemetryInv, NumbersKept, Telemetry!TelemetryAssumption
      <4>2. pc[r] \notin {"none", "open"}
        BY <1>1, <1>3, <3>1 DEF TelemetryInv, NumbersKept
      <4> QED BY <1>1, <4>1, <4>2 DEF Places, Telemetry!Settled
    <3> QED BY <1>1, <1>3, <3>1, <3>2, <3>3
  <2>4. ASSUME NEW d \in Controls, NEW r \in Records, Covered(d, r)'
        PROVE  /\ pc'[r] \in {"queued", "batched"} \cup Telemetry!Settled
               /\ call'[d] = "answered" => pc'[r] \in Telemetry!Settled
               /\ reply_to' = d => pc'[r] # "queued"
               /\ \A i \in 1 .. Len(queue') :
                    queue'[i] = d /\ pc'[r] = "queued" => \E j \in 1 .. (i - 1) : queue'[j] = r
    <3>1. CASE d = c
      BY <1>0, <1>2, <2>2, <2>3, <2>4, <3>1
    <3>2. CASE d # c
      BY <1>0, <1>2, <2>1, <2>4, <3>2 DEF TelemetryInv, FenceKept
    <3> QED BY <3>1, <3>2
  <2> QED BY <2>4 DEF FenceKept
<1>9. Telemetry!NoGhosts'
  BY <1>0 DEF TelemetryInv, Telemetry!NoGhosts
<1>10. Counted'
  BY <1>0 DEF TelemetryInv, Counted
<1> QED BY <1>4, <1>5, <1>6, <1>7, <1>8, <1>9, <1>10 DEF TelemetryInv

(* A control in the channel is behind all that it covers.                  *)
LEMMA SendControlKeeps ==
  ASSUME Telemetry!TelemetryAssumption, TelemetryInv, NEW c \in Controls, Telemetry!SendControl(c)
  PROVE  TelemetryInv'
<1>0. /\ UNCHANGED <<pc, kind, number, sequence, sequence_lock, sender, worker, reply_to,
                     wants, position, down, active, rejected_slots, bytes, rejected_bytes, queued,
                     in_flight, dropped, persisted>>
      /\ call[c] = "cloned"
      /\ \/ /\ queue' = Append(queue, c) /\ slots' = slots + 1 /\ Telemetry!Alive
            /\ call' = [call EXCEPT ![c] = "waiting"]
         \/ UNCHANGED <<queue, slots>> /\ call' = [call EXCEPT ![c] = "unavailable"]
  BY DEF Telemetry!SendControl, Telemetry!SetCall, Telemetry!recordVars, Telemetry!sequenceVars,
     Telemetry!slotVars, Telemetry!byteVars, Telemetry!countVars, Telemetry!workerVars
<1>1. /\ call = [d \in Controls |-> call[d]] /\ queue \in Seq(Records \cup Controls)
      /\ Len(queue) \in Nat /\ Counted
  BY DEF TelemetryInv, TelemetryTypes
<1>2. /\ reply_to # c /\ c \notin Records
      /\ \A i \in 1 .. Len(queue) : queue[i] # c
  BY <1>0 DEF TelemetryInv, QueueKept, Telemetry!TelemetryAssumption
<1>3. /\ call' = [d \in Controls |-> call'[d]] /\ DOMAIN call' = Controls
      /\ call'[c] \in {"waiting", "unavailable"}
      /\ \A d \in Controls \ {c} : call'[d] = call[d]
  BY <1>0, <1>1
<1>4. CASE UNCHANGED <<queue, slots>>
  <2>1. TelemetryTypes'
    BY <1>0, <1>3, <1>4 DEF TelemetryInv, TelemetryTypes
  <2>2. QueueKept'
    <3>1. reply_to # None => reply_to \in Controls
      BY DEF TelemetryInv, TelemetryTypes
    <3> QED BY <1>0, <1>2, <1>3, <1>4, <3>1 DEF TelemetryInv, QueueKept
  <2>3. ShutdownKept'
    BY <1>0, <1>4 DEF TelemetryInv, ShutdownKept
  <2>4. NumbersKept'
    BY <1>0, <1>3 DEF TelemetryInv, NumbersKept
  <2>5. FenceKept'
    BY <1>0, <1>3, <1>4 DEF TelemetryInv, FenceKept, Covered
  <2>6. Telemetry!NoGhosts' /\ Counted'
    BY <1>0, <1>1, <1>4 DEF TelemetryInv, Telemetry!NoGhosts, Counted
  <2> QED BY <2>1, <2>2, <2>3, <2>4, <2>5, <2>6 DEF TelemetryInv
<1>5. CASE /\ queue' = Append(queue, c) /\ slots' = slots + 1 /\ Telemetry!Alive
           /\ call' = [call EXCEPT ![c] = "waiting"]
  <2>0. /\ Len(queue') = Len(queue) + 1 /\ queue'[Len(queue) + 1] = c
        /\ \A i \in 1 .. Len(queue) : queue'[i] = queue[i]
        /\ \A i \in 1 .. Len(queue') : i \in 1 .. Len(queue) \/ i = Len(queue) + 1
        /\ queue' \in Seq(Records \cup Controls) /\ call'[c] = "waiting"
    BY <1>1, <1>5
  <2>1. TelemetryTypes'
    BY <1>0, <1>3, <2>0 DEF TelemetryInv, TelemetryTypes
  <2>2. QueueKept'
    <3>2. \A i, j \in 1 .. Len(queue') : queue'[i] = queue'[j] => i = j
      BY <1>2, <2>0 DEF TelemetryInv, QueueKept
    <3>3. ASSUME NEW i \in 1 .. Len(queue')
          PROVE  /\ queue'[i] \in Records => pc'[queue'[i]] = "queued"
                 /\ queue'[i] \in Controls =>
                      call'[queue'[i]] = "waiting" /\ reply_to' # queue'[i]
      BY <1>0, <1>2, <1>3, <2>0 DEF TelemetryInv, QueueKept
    <3>4. ASSUME NEW q \in Records, pc'[q] = "queued"
          PROVE  \E i \in 1 .. Len(queue') : queue'[i] = q
      <4>1. PICK i \in 1 .. Len(queue) : queue[i] = q
        BY <1>0, <3>4 DEF TelemetryInv, QueueKept
      <4> QED BY <1>1, <2>0, <4>1
    <3>5. reply_to' # None => call'[reply_to'] = "waiting" /\ worker' = "flush"
      BY <1>0, <1>2, <1>3 DEF TelemetryInv, QueueKept, TelemetryTypes
    <3> QED BY <3>2, <3>3, <3>4, <3>5 DEF QueueKept
  <2>3. ShutdownKept'
    BY <1>0, <1>5 DEF TelemetryInv, ShutdownKept, Telemetry!Alive
  <2>4. NumbersKept'
    BY <1>0, <1>3 DEF TelemetryInv, NumbersKept
  <2>5. FenceKept'
    <3>1. ASSUME NEW d \in Controls, NEW r \in Records, Covered(d, r)'
          PROVE  /\ Covered(d, r)
                 /\ pc'[r] \in {"queued", "batched"} \cup Telemetry!Settled
                 /\ call'[d] = "answered" => pc'[r] \in Telemetry!Settled
                 /\ reply_to' = d => pc'[r] # "queued"
      BY <1>0, <1>3, <2>0, <3>1 DEF TelemetryInv, FenceKept, Covered
    <3>2. ASSUME NEW d \in Controls, NEW r \in Records, Covered(d, r)',
                 NEW i \in 1 .. Len(queue'), queue'[i] = d, pc'[r] = "queued"
          PROVE  \E j \in 1 .. (i - 1) : queue'[j] = r
      <4>1. CASE i \in 1 .. Len(queue)
        <5>1. PICK j \in 1 .. (i - 1) : queue[j] = r
          BY <1>0, <2>0, <3>1, <3>2, <4>1 DEF TelemetryInv, FenceKept
        <5> QED BY <1>1, <2>0, <4>1, <5>1
      <4>2. CASE i = Len(queue) + 1
        <5>1. PICK j \in 1 .. Len(queue) : queue[j] = r
          BY <1>0, <3>2 DEF TelemetryInv, QueueKept
        <5> QED BY <1>1, <2>0, <4>2, <5>1
      <4> QED BY <2>0, <4>1, <4>2
    <3> QED BY <3>1, <3>2 DEF FenceKept
  <2>6. Telemetry!NoGhosts'
    BY <1>0 DEF TelemetryInv, Telemetry!NoGhosts
  <2>7. Counted'
    <3>1. Waiting(queue') = Waiting(queue) \cup {c} /\ c \notin Waiting(queue)
      <4>1. ASSUME NEW d \in Controls
            PROVE  (\E i \in 1 .. Len(queue') : queue'[i] = d)
                     <=> (d = c \/ \E i \in 1 .. Len(queue) : queue[i] = d)
        BY <1>1, <2>0
      <4> QED BY <1>2, <4>1 DEF Waiting
    <3>2. IsFiniteSet(Waiting(queue)) /\ Cardinality(Waiting(queue)) \in Nat
      BY TelemetryFinite
    <3>3. Cardinality(Waiting(queue')) = Cardinality(Waiting(queue)) + 1
      BY <3>1, <3>2, FS_AddElement
    <3>4. Cardinality(In(pc, Held)) \in Nat
      BY TelemetryFinite
    <3> QED BY <1>0, <1>1, <1>5, <3>2, <3>3, <3>4 DEF Counted
  <2> QED BY <2>1, <2>2, <2>3, <2>4, <2>5, <2>6, <2>7 DEF TelemetryInv
<1> QED BY <1>0, <1>4, <1>5

(* The writer takes the first of the channel.                              *)
LEMMA ReceiveKeeps ==
  ASSUME Telemetry!TelemetryAssumption, TelemetryInv, Telemetry!Receive
  PROVE  TelemetryInv'
<1> DEFINE e == Head(queue)
<1>0. /\ UNCHANGED <<kind, number, sequence, sequence_lock, sender, call, wants, position, down,
                     active, bytes, rejected_bytes, dropped, persisted>>
      /\ worker \in {"idle", "batch"} /\ queue # <<>> /\ queue' = Tail(queue)
      /\ worker' \in {"batch", "flush"}
  BY DEF Telemetry!Receive, Telemetry!sequenceVars, Telemetry!byteVars, Telemetry!controlVars
<1>1. /\ queue \in Seq(Records \cup Controls) /\ pc \in [Records -> Places]
      /\ Records \cap Controls = {} /\ None \notin Controls /\ Counted /\ reply_to = None
      /\ down # "done" /\ ~(worker' \in {"idle", "stopped", "aborted"})
  BY <1>0 DEF TelemetryInv, TelemetryTypes, QueueKept, ShutdownKept,
     Telemetry!TelemetryAssumption
<1>2. /\ Len(queue) \in Nat \ {0} /\ Len(queue') = Len(queue) - 1 /\ e = queue[1]
      /\ \A i \in 1 .. Len(queue') : queue'[i] = queue[i + 1] /\ i + 1 \in 1 .. Len(queue)
      /\ queue' \in Seq(Records \cup Controls) /\ e \in Records \cup Controls
      /\ 1 \in 1 .. Len(queue)
  BY <1>0, <1>1
<1>3. \A i \in 1 .. Len(queue') : queue'[i] # e
  BY <1>2 DEF TelemetryInv, QueueKept
<1>4. \A q \in Records \cup Controls : q # e =>
        ((\E i \in 1 .. Len(queue) : queue[i] = q) <=> \E i \in 1 .. Len(queue') : queue'[i] = q)
  <2> SUFFICES ASSUME NEW q \in Records \cup Controls, q # e
               PROVE  (\E i \in 1 .. Len(queue) : queue[i] = q)
                        <=> \E i \in 1 .. Len(queue') : queue'[i] = q
    OBVIOUS
  <2>1. ASSUME NEW i \in 1 .. Len(queue), queue[i] = q
        PROVE \E j \in 1 .. Len(queue') : queue'[j] = q
    <3>1. i - 1 \in 1 .. Len(queue') /\ (i - 1) + 1 = i
      BY <1>2, <2>1
    <3>2. queue'[i - 1] = queue[(i - 1) + 1]
      BY <1>2, <3>1
    <3> QED BY <2>1, <3>1, <3>2
  <2> QED BY <1>2, <2>1
<1> HIDE DEF e
<1>5. NumbersKept' /\ Telemetry!NoGhosts' /\ ShutdownKept' /\ TelemetryTypes'
      /\ (\A q \in Records : pc'[q] = IF q = e THEN "batched" ELSE pc[q])
      /\ (e \in Controls => reply_to' = e /\ pc' = pc /\ worker' = "flush")
      /\ (e \in Records => reply_to' = None /\ pc[e] = "queued")
  <2>1. e \in Controls => reply_to' = e /\ pc' = pc /\ worker' = "flush"
    BY DEF Telemetry!Receive, Telemetry!IsControl, e
  <2>2. e \in Records => reply_to' = None /\ pc' = [pc EXCEPT ![e] = "batched"]
          /\ pc[e] = "queued"
    BY <1>1, <1>2 DEF Telemetry!Receive, Telemetry!IsControl, e, TelemetryInv, QueueKept
  <2>3. \A q \in Records : pc'[q] = IF q = e THEN "batched" ELSE pc[q]
    BY <1>1, <1>2, <2>1, <2>2
  <2>4. pc' \in [Records -> Places] /\ reply_to' \in Controls \cup {None}
    BY <1>1, <1>2, <2>1, <2>2 DEF Places
  <2>5. NumbersKept'
    BY <1>0, <2>3 , <2>2, <1>2, <1>1 DEF TelemetryInv, NumbersKept
  <2>6. Telemetry!NoGhosts'
    BY <1>0, <2>3 DEF TelemetryInv, TelemetryTypes, Telemetry!NoGhosts, Telemetry!Settled
  <2>7. ShutdownKept'
    BY <1>0, <1>1, <2>3 DEF TelemetryInv, ShutdownKept
  <2>8. TelemetryTypes'
    BY <1>0, <1>2, <2>4 DEF TelemetryInv, TelemetryTypes
  <2> QED BY <2>1, <2>2, <2>3, <2>5, <2>6, <2>7, <2>8
<1>6. QueueKept'
  <2>1. \A i, j \in 1 .. Len(queue') : queue'[i] = queue'[j] => i = j
    <3> SUFFICES ASSUME NEW i \in 1 .. Len(queue'), NEW j \in 1 .. Len(queue'),
                        queue'[i] = queue'[j]
                 PROVE  i = j
      OBVIOUS
    <3>1. i + 1 = j + 1
      BY <1>2 DEF TelemetryInv, QueueKept
    <3> QED BY <1>2, <3>1
  <2>2. ASSUME NEW i \in 1 .. Len(queue')
        PROVE  /\ queue'[i] \in Records => pc'[queue'[i]] = "queued"
               /\ queue'[i] \in Controls => call'[queue'[i]] = "waiting" /\ reply_to' # queue'[i]
    BY <1>0, <1>1, <1>2, <1>3, <1>5 DEF TelemetryInv, QueueKept
  <2>3. ASSUME NEW q \in Records, pc'[q] = "queued"
        PROVE \E i \in 1 .. Len(queue') : queue'[i] = q
    <3>1. q # e /\ pc[q] = "queued"
      BY <1>5, <2>3
    <3> QED BY <1>4, <3>1 DEF TelemetryInv, QueueKept
  <2>4. reply_to' # None => call'[reply_to'] = "waiting" /\ worker' = "flush"
    BY <1>0, <1>2, <1>5 DEF TelemetryInv, QueueKept
  <2> QED BY <2>1, <2>2, <2>3, <2>4 DEF QueueKept
<1>7. FenceKept'
  <2>1. ASSUME NEW c \in Controls, NEW r \in Records, Covered(c, r)'
        PROVE  /\ Covered(c, r)
               /\ pc'[r] \in {"queued", "batched"} \cup Telemetry!Settled
               /\ call'[c] = "answered" => pc'[r] \in Telemetry!Settled
    <3>1. Covered(c, r)
      BY <1>0, <2>1 DEF Covered
    <3>2. /\ pc[r] \in {"queued", "batched"} \cup Telemetry!Settled
          /\ (call[c] = "answered" => pc[r] \in Telemetry!Settled)
      BY <3>1 DEF TelemetryInv, FenceKept
    <3> QED BY <1>0, <1>5, <3>1, <3>2 DEF Telemetry!Settled
  <2>2. ASSUME NEW c \in Controls, NEW r \in Records, Covered(c, r)', reply_to' = c
        PROVE  pc'[r] # "queued"
    <3>1. SUFFICES ASSUME pc[r] = "queued", e \in Controls, c = e PROVE FALSE
      BY <1>1, <1>2, <1>5, <2>2
    <3>2. \E j \in 1 .. (1 - 1) : queue[j] = r
      BY <1>2, <2>1, <2>2, <3>1 DEF TelemetryInv, FenceKept
    <3> QED BY <3>2
  <2>3. ASSUME NEW c \in Controls, NEW r \in Records, Covered(c, r)',
               NEW i \in 1 .. Len(queue'), queue'[i] = c, pc'[r] = "queued"
        PROVE  \E j \in 1 .. (i - 1) : queue'[j] = r
    <3>1. r # e /\ pc[r] = "queued" /\ queue[i + 1] = c /\ i + 1 \in 1 .. Len(queue) /\ i \in Nat
      BY <1>2, <1>5, <2>3
    <3>2. PICK j \in 1 .. ((i + 1) - 1) : queue[j] = r
      BY <2>1, <2>3, <3>1 DEF TelemetryInv, FenceKept
    <3>3. j - 1 \in 1 .. (i - 1) /\ j - 1 \in 1 .. Len(queue') /\ (j - 1) + 1 = j
      BY <1>2, <3>1, <3>2
    <3>4. queue'[j - 1] = r
      BY <1>2, <3>2, <3>3
    <3> QED BY <3>3, <3>4
  <2> QED BY <2>1, <2>2, <2>3 DEF FenceKept
<1>8. Counted'
  <2>1. CASE e \in Controls
    <3>1. slots' = slots - 1 /\ UNCHANGED <<rejected_slots, queued, in_flight, pc>>
      BY <2>1 DEF Telemetry!Receive, Telemetry!IsControl, e
    <3>2. Waiting(queue') = Waiting(queue) \ {e} /\ e \in Waiting(queue)
      <4>1. e \in Waiting(queue) /\ e \notin Waiting(queue')
        BY <1>2, <1>3, <2>1 DEF Waiting
      <4>2. \A c \in Controls : c # e => (c \in Waiting(queue) <=> c \in Waiting(queue'))
        BY <1>4 DEF Waiting
      <4>3. Waiting(queue) \subseteq Controls /\ Waiting(queue') \subseteq Controls
        BY DEF Waiting
      <4> QED BY <4>1, <4>2, <4>3
    <3>3. IsFiniteSet(Waiting(queue)) /\ Cardinality(Waiting(queue)) \in Nat
          /\ Cardinality(In(pc, Held)) \in Nat
      BY TelemetryFinite
    <3>4. Cardinality(Waiting(queue')) = Cardinality(Waiting(queue)) - 1
      BY <3>2, <3>3, FS_RemoveElement
    <3> QED BY <1>0, <1>1, <3>1, <3>3, <3>4 DEF Counted
  <2>2. CASE e \in Records
    <3>1. /\ slots' = slots - 1
          /\ rejected_slots' = rejected_slots - (IF kind[e] = "rejected" THEN 1 ELSE 0)
          /\ queued' = queued - 1 /\ in_flight' = in_flight + 1
          /\ pc' = [pc EXCEPT ![e] = "batched"] /\ "batched" \in Places
      BY <1>1, <2>2 DEF Telemetry!Receive, Telemetry!IsControl, e, Telemetry!ReleaseSlot,
         Telemetry!One, Places
    <3>2. Waiting(queue') = Waiting(queue)
      BY <1>1, <1>4, <2>2 DEF Waiting
    <3>3. /\ Shift(pc[e], "batched", Telemetry!Settled) = 0
          /\ Shift(pc[e], "batched", Pending) = -1
          /\ Shift(pc[e], "batched", {"batched"}) = 1
          /\ Shift(pc[e], "batched", Held) = -1 /\ Shift(pc[e], "batched", Charged) = 0
      BY <1>5, <2>2 DEF Shift, Telemetry!Settled, Pending, Held, Charged
    <3>4. Counts(pc, pc', kind, e, 0, -1, 1, -1, 0)
      BY <2>2, <3>1, <3>3, CountsMove DEF TelemetryInv
    <3>5. Cardinality(Waiting(queue)) \in Nat
      BY TelemetryFinite
    <3>6. /\ slots' = slots - 1
          /\ rejected_slots' = rejected_slots - (IF kind[e] = "rejected" THEN 1 ELSE 0)
          /\ queued' = queued - 1 /\ in_flight' = in_flight + 1
      BY <3>1
    <3>7. /\ UNCHANGED <<kind, persisted, dropped, bytes, rejected_bytes>> /\ Counted
          /\ down # "done"
      BY <1>0, <1>1
    <3>8. /\ persisted' + dropped' = Cardinality(In(pc', Telemetry!Settled))
          /\ queued' = Cardinality(In(pc', Pending))
          /\ in_flight' = Cardinality(In(pc', {"batched"}))
      BY <3>6, <3>7, <3>4 DEF Counted, Counts
    <3>9. /\ slots' = Cardinality(In(pc', Held)) + Cardinality(Waiting(queue'))
          /\ rejected_slots' = Cardinality(RejectedIn(pc', kind', Held))
      BY <3>6, <3>7, <3>2, <3>4, <3>5 DEF Counted, Counts
    <3>10. /\ bytes' = Cardinality(In(pc', Charged))
          /\ rejected_bytes' = Cardinality(RejectedIn(pc', kind', Charged))
      BY <3>7, <3>4 DEF Counted, Counts
    <3> QED BY <3>8, <3>9, <3>10 DEF Counted
  <2> QED BY <1>2, <2>1, <2>2
<1> QED BY <1>5, <1>6, <1>7, <1>8 DEF TelemetryInv

(* A part of the batch is stored, or given up.                             *)
LEMMA FlushKeeps ==
  ASSUME Telemetry!TelemetryAssumption, TelemetryInv, NEW i \in 1 .. 3, NEW ok \in BOOLEAN,
         Telemetry!FlushPart(i, ok)
  PROVE  TelemetryInv'
<1> DEFINE P == Telemetry!Part(i)
           R == Telemetry!Rejected(Telemetry!Part(i))
           end == IF ok THEN "persisted" ELSE "dropped"
<1>0. /\ UNCHANGED <<kind, number, sequence, sequence_lock, sender, queue, slots, rejected_slots,
                     queued, worker, reply_to, call, wants, position, down>>
      /\ worker = "flush" /\ active' = active \ P
      /\ pc' = [r \in Records |-> IF r \in P THEN end ELSE pc[r]]
  BY DEF Telemetry!FlushPart, Telemetry!sequenceVars, Telemetry!slotVars, Telemetry!workerVars,
     Telemetry!controlVars
<1>1. /\ \A r \in P : r \in Records /\ pc[r] = "batched"
      /\ \A r \in Records : pc'[r] = IF r \in P THEN end ELSE pc[r]
      /\ end \in Telemetry!Settled /\ end \in Places /\ pc \in [Records -> Places]
      /\ R = {r \in P : kind[r] = "rejected"}
  BY <1>0 DEF Telemetry!Part, Telemetry!Where, Telemetry!Settled, Places, TelemetryInv,
     TelemetryTypes, Telemetry!Rejected
<1>2. /\ in_flight' = in_flight - Cardinality(P)
      /\ persisted' = persisted + (IF ok THEN Cardinality(P) ELSE 0)
      /\ dropped' = dropped + (IF ok THEN 0 ELSE Cardinality(P))
      /\ bytes' = bytes - Cardinality(P) /\ rejected_bytes' = rejected_bytes - Cardinality(R)
  BY TelemetryCounts DEF Telemetry!FlushPart
<1> HIDE DEF P, R, end
<1>3. /\ IsFiniteSet(P) /\ IsFiniteSet(R) /\ Cardinality(P) \in Nat /\ Cardinality(R) \in Nat
  <2>1. IsFiniteSet(Records) /\ P \in SUBSET Records /\ R \in SUBSET P
    BY <1>1, TelemetryCounts DEF Telemetry!TelemetryAssumption
  <2> QED BY <2>1, FS_Subset, FS_CardinalityType
<1>4. TelemetryTypes'
  <2>1. pc' \in [Records -> Places]
    BY <1>0, <1>1
  <2>2. persisted' \in Nat /\ dropped' \in Nat
    BY <1>2, <1>3 DEF TelemetryInv, TelemetryTypes
  <2> QED BY <1>0, <2>1, <2>2 DEF TelemetryInv, TelemetryTypes
<1>5. QueueKept'
  <2>1. \A r \in Records : pc'[r] = "queued" <=> pc[r] = "queued"
    BY <1>1 DEF Telemetry!Settled
  <2> QED BY <1>0, <2>1 DEF TelemetryInv, QueueKept
<1>6. ShutdownKept' /\ NumbersKept' /\ Telemetry!NoGhosts'
  <2>1. \A r \in Records : pc'[r] = pc[r] \/ (r \in P /\ pc'[r] \in Telemetry!Settled)
    BY <1>1
  <2>2. ShutdownKept'
    BY <1>0, <2>1 DEF TelemetryInv, ShutdownKept, Telemetry!Settled
  <2>3. NumbersKept'
    BY <1>0, <2>1 DEF TelemetryInv, NumbersKept, Telemetry!Settled
  <2>4. Telemetry!NoGhosts'
    <3>1. \A r \in active' : r \in active /\ r \in Records /\ pc'[r] = pc[r]
      BY <1>0, <1>1 DEF TelemetryInv, TelemetryTypes
    <3> QED BY <3>1 DEF TelemetryInv, Telemetry!NoGhosts
  <2> QED BY <2>2, <2>3, <2>4
<1>7. FenceKept'
  <2>1. \A r \in Records : /\ pc'[r] = "queued" => pc[r] = "queued"
                           /\ pc[r] \in Telemetry!Settled => pc'[r] \in Telemetry!Settled
                           /\ pc'[r] = pc[r] \/ pc'[r] \in Telemetry!Settled
    BY <1>1 DEF Telemetry!Settled
  <2> QED BY <1>0, <2>1 DEF TelemetryInv, FenceKept, Covered
<1>8. Counted'
  <2>1. /\ In(pc', Telemetry!Settled) = In(pc, Telemetry!Settled) \cup P
        /\ In(pc, Telemetry!Settled) \cap P = {}
        /\ In(pc', Pending) = In(pc, Pending) /\ In(pc', Held) = In(pc, Held)
        /\ In(pc', {"batched"}) = In(pc, {"batched"}) \ P /\ P \subseteq In(pc, {"batched"})
        /\ In(pc', Charged) = In(pc, Charged) \ P /\ P \subseteq In(pc, Charged)
    BY <1>1 DEF In, Telemetry!Settled, Pending, Held, Charged
  <2>2. /\ RejectedIn(pc', kind, Held) = RejectedIn(pc, kind, Held)
        /\ RejectedIn(pc', kind, Charged) = RejectedIn(pc, kind, Charged) \ R
        /\ R \subseteq RejectedIn(pc, kind, Charged)
    BY <1>1 DEF RejectedIn, Telemetry!Settled, Held, Charged
  <2>3. /\ IsFiniteSet(In(pc, Telemetry!Settled)) /\ IsFiniteSet(In(pc, {"batched"}))
        /\ IsFiniteSet(In(pc, Charged)) /\ IsFiniteSet(RejectedIn(pc, kind, Charged))
        /\ Cardinality(In(pc, Telemetry!Settled)) \in Nat
        /\ Cardinality(In(pc, {"batched"})) \in Nat
        /\ Cardinality(In(pc, Charged)) \in Nat
        /\ Cardinality(RejectedIn(pc, kind, Charged)) \in Nat
    BY TelemetryFinite
  <2>4. Cardinality(In(pc', Telemetry!Settled)) = Cardinality(In(pc,
          Telemetry!Settled)) + Cardinality(P)
    <3>1. Cardinality(In(pc, Telemetry!Settled) \cap P) = 0
      BY <2>1, FS_EmptySet
    <3>2. Cardinality(In(pc, Telemetry!Settled) \cup P) =
            Cardinality(In(pc, Telemetry!Settled)) + Cardinality(P) - Cardinality(In(pc,
              Telemetry!Settled) \cap P)
      BY <1>3, <2>3, FS_Union
    <3> QED BY <1>3, <2>1, <2>3, <3>1, <3>2
  <2>5. ASSUME NEW S, NEW T, T \subseteq S, IsFiniteSet(S)
        PROVE  Cardinality(S \ T) = Cardinality(S) - Cardinality(T)
    <3>1. S \cap T = T
      BY <2>5
    <3> QED BY <2>5, <3>1, FS_Difference
  <2>6. /\ Cardinality(In(pc', {"batched"})) = Cardinality(In(pc, {"batched"})) - Cardinality(P)
        /\ Cardinality(In(pc', Charged)) = Cardinality(In(pc, Charged)) - Cardinality(P)
        /\ Cardinality(RejectedIn(pc', kind, Charged)) =
             Cardinality(RejectedIn(pc, kind, Charged)) - Cardinality(R)
    BY <2>1, <2>2, <2>3, <2>5
  <2>7. persisted \in Nat /\ dropped \in Nat /\ Counted
    BY DEF TelemetryInv, TelemetryTypes
  <2>8. persisted' + dropped' = Cardinality(In(pc', Telemetry!Settled))
    BY <1>2, <1>3, <2>3, <2>4, <2>7 DEF Counted
  <2> QED BY <1>0, <1>2, <2>1, <2>2, <2>6, <2>7, <2>8 DEF Counted
<1> QED BY <1>4, <1>5, <1>6, <1>7, <1>8 DEF TelemetryInv

(* The writer between two events, the policy, and the sender taken away.   *)
LEMMA WriterKeeps ==
  ASSUME Telemetry!TelemetryAssumption, TelemetryInv,
         Telemetry!EndBatch \/ Telemetry!EndFlush \/ Telemetry!Prune \/ Telemetry!Drained
           \/ Telemetry!UpdatePolicy \/ Telemetry!TakeSender \/ UNCHANGED Telemetry!vars
  PROVE  TelemetryInv'
<1>0. /\ UNCHANGED <<pc, kind, number, sequence, sequence_lock, queue, wants, position, active,
                     slots, rejected_slots, bytes, rejected_bytes, queued, in_flight, dropped,
                     persisted>>
  BY DEF Telemetry!EndBatch, Telemetry!EndFlush, Telemetry!Prune, Telemetry!Drained,
     Telemetry!UpdatePolicy, Telemetry!TakeSender, Telemetry!vars, Telemetry!producerVars,
     Telemetry!recordVars, Telemetry!sequenceVars, Telemetry!slotVars, Telemetry!byteVars,
     Telemetry!countVars, Telemetry!controlVars
<1>1. /\ call = [d \in Controls |-> call[d]] /\ pc \in [Records -> Places]
      /\ reply_to \in Controls \cup {None} /\ None \notin Controls
  BY DEF TelemetryInv, TelemetryTypes, Telemetry!TelemetryAssumption
<1>2. CASE UNCHANGED call
  <2>0. /\ UNCHANGED reply_to
        /\ \/ UNCHANGED <<worker, sender, down>>
           \/ worker = "batch" /\ worker' = "flush" /\ UNCHANGED <<sender, down>>
           \/ /\ worker = "flush" /\ Telemetry!Where({"batched"}) = {} /\ reply_to = None
              /\ worker' = "idle" /\ UNCHANGED <<sender, down>>
           \/ /\ worker = "idle" /\ ~sender /\ queue = <<>> /\ worker' = "stopped"
              /\ UNCHANGED <<sender, down>>
           \/ /\ down = "no" /\ Telemetry!Where({"slot", "send"}) = {} /\ ~sender'
              /\ down' = "joining"
              /\ UNCHANGED worker
    <3>1. CASE Telemetry!EndFlush
      <4>1. CASE reply_to = None
        BY <3>1, <4>1 DEF Telemetry!EndFlush
      <4>2. CASE reply_to # None
        <5>1. call[reply_to] = "waiting" /\ call'[reply_to] = "answered"
          BY <1>1, <3>1, <4>2 DEF Telemetry!EndFlush, Telemetry!SetCall, TelemetryInv, QueueKept
        <5> QED BY <1>2, <5>1
      <4> QED BY <4>1, <4>2
    <3>2. CASE Telemetry!EndBatch \/ Telemetry!Prune \/ Telemetry!Drained
                 \/ Telemetry!UpdatePolicy \/ Telemetry!TakeSender \/ UNCHANGED Telemetry!vars
      BY <3>2 DEF Telemetry!EndBatch, Telemetry!Prune, Telemetry!Drained, Telemetry!Closed,
         Telemetry!UpdatePolicy, Telemetry!TakeSender, Telemetry!vars, Telemetry!workerVars,
         Telemetry!controlVars
    <3> QED BY <3>1, <3>2
  <2>1. TelemetryTypes'
    BY <1>0, <1>2, <2>0 DEF TelemetryInv, TelemetryTypes
  <2>2. QueueKept'
    <3>1. reply_to # None => worker' = "flush"
      BY <2>0 DEF TelemetryInv, QueueKept
    <3> QED BY <1>0, <1>2, <2>0, <3>1 DEF TelemetryInv, QueueKept
  <2>3. ShutdownKept'
    <3>1. Telemetry!Where({"batched"}) = {} => \A r \in Records : pc[r] # "batched"
      BY DEF Telemetry!Where
    <3>2. Telemetry!Where({"slot", "send"}) = {} =>
            \A r \in Records : pc[r] \notin {"slot", "send"}
      BY DEF Telemetry!Where
    <3> QED BY <1>0, <2>0, <3>1, <3>2 DEF TelemetryInv, TelemetryTypes, ShutdownKept
  <2>4. NumbersKept'
    BY <1>0, <1>2 DEF TelemetryInv, NumbersKept
  <2>5. FenceKept'
    BY <1>0, <1>2, <2>0 DEF TelemetryInv, FenceKept, Covered
  <2>6. Telemetry!NoGhosts'
    BY <1>0 DEF TelemetryInv, Telemetry!NoGhosts
  <2>7. Counted'
    <3>1. down' # "done" => down # "done"
      BY <2>0
    <3> QED BY <1>0, <3>1 DEF TelemetryInv, Counted
  <2> QED BY <2>1, <2>2, <2>3, <2>4, <2>5, <2>6, <2>7 DEF TelemetryInv
<1>3. CASE Telemetry!EndFlush /\ reply_to # None
  <2>0. /\ UNCHANGED <<sender, down>> /\ worker = "flush" /\ worker' = "batch" /\ reply_to' = None
        /\ call' = [call EXCEPT ![reply_to] = "answered"] /\ reply_to \in Controls
        /\ \A r \in Records : pc[r] # "batched"
    BY <1>1, <1>3 DEF Telemetry!EndFlush, Telemetry!SetCall, Telemetry!Where
  <2>1. /\ call' = [d \in Controls |-> call'[d]] /\ DOMAIN call' = Controls
        /\ call'[reply_to] = "answered"
        /\ \A d \in Controls : d # reply_to => call'[d] = call[d]
    BY <1>1, <2>0
  <2>2. TelemetryTypes'
    BY <1>0, <2>0, <2>1 DEF TelemetryInv, TelemetryTypes
  <2>3. QueueKept'
    <3>1. ASSUME NEW i \in 1 .. Len(queue), queue[i] \in Controls
          PROVE  call'[queue[i]] = "waiting" /\ reply_to' # queue[i]
      BY <1>1, <2>0, <2>1, <3>1 DEF TelemetryInv, QueueKept
    <3> QED BY <1>0, <2>0, <3>1 DEF TelemetryInv, QueueKept
  <2>4. ShutdownKept'
    BY <1>0, <2>0 DEF TelemetryInv, ShutdownKept
  <2>5. NumbersKept'
    BY <1>0, <2>1 DEF TelemetryInv, NumbersKept
  <2>6. FenceKept'
    <3>1. ASSUME NEW c \in Controls, NEW r \in Records, Covered(c, r)'
          PROVE  /\ pc'[r] \in {"queued", "batched"} \cup Telemetry!Settled
                 /\ call'[c] = "answered" => pc'[r] \in Telemetry!Settled
                 /\ reply_to' # c
                 /\ \A i \in 1 .. Len(queue') :
                      queue'[i] = c /\ pc'[r] = "queued" => \E j \in 1 .. (i - 1) : queue'[j] = r
      <4>1. Covered(c, r)
        BY <1>0, <3>1 DEF Covered
      <4>2. /\ pc[r] \in {"queued", "batched"} \cup Telemetry!Settled
            /\ call[c] = "answered" => pc[r] \in Telemetry!Settled
            /\ reply_to = c => pc[r] # "queued"
            /\ \A i \in 1 .. Len(queue) :
                 queue[i] = c /\ pc[r] = "queued" => \E j \in 1 .. (i - 1) : queue[j] = r
        BY <4>1 DEF TelemetryInv, FenceKept
      <4> QED BY <1>0, <1>1, <2>0, <2>1, <4>2
    <3> QED BY <3>1 DEF FenceKept
  <2>7. Telemetry!NoGhosts'
    BY <1>0 DEF TelemetryInv, Telemetry!NoGhosts
  <2>8. Counted'
    BY <1>0, <2>0 DEF TelemetryInv, Counted
  <2> QED BY <2>2, <2>3, <2>4, <2>5, <2>6, <2>7, <2>8 DEF TelemetryInv
<1>4. UNCHANGED call \/ (Telemetry!EndFlush /\ reply_to # None)
  BY DEF Telemetry!EndBatch, Telemetry!EndFlush, Telemetry!Prune, Telemetry!Drained,
     Telemetry!UpdatePolicy, Telemetry!TakeSender, Telemetry!vars, Telemetry!controlVars
<1> QED BY <1>2, <1>3, <1>4

(* Shutdown joins a writer that has stopped, or aborts it.                 *)
LEMMA StopKeeps ==
  ASSUME Telemetry!TelemetryAssumption, TelemetryInv, Telemetry!Join \/ Telemetry!Abort
  PROVE  TelemetryInv'
<1>0. /\ UNCHANGED <<kind, number, sequence, sequence_lock, sender, wants, position, persisted>>
      /\ down = "joining" /\ down' = "done" /\ active' = {}
      /\ queued' = 0 /\ in_flight' = 0 /\ dropped' = dropped + queued + in_flight
  BY DEF Telemetry!Join, Telemetry!Abort, Telemetry!WriterStopped, Telemetry!recordVars,
     Telemetry!sequenceVars, Telemetry!controlVars
<1>1. /\ pc \in [Records -> Places] /\ call = [d \in Controls |-> call[d]] /\ ~sender /\ Counted
      /\ persisted \in Nat /\ dropped \in Nat
      /\ \A r \in Records : pc[r] \notin {"slot", "send"}
  BY <1>0 DEF TelemetryInv, TelemetryTypes, ShutdownKept
<1>2. /\ queue' = <<>> /\ worker' \in {"stopped", "aborted"} /\ reply_to' = None
      /\ pc' = [r \in Records |-> IF pc[r] \in {"queued", "batched"} THEN "dropped" ELSE pc[r]]
      /\ call' = [c \in Controls |-> call'[c]] /\ DOMAIN call' = Controls
      /\ \A c \in Controls : call'[c] = call[c]
           \/ (call[c] = "waiting" /\ call'[c] = "unavailable")
  <2>1. CASE Telemetry!Join
    <3>1. /\ worker = "stopped" /\ UNCHANGED <<pc, worker, reply_to, call, queue>>
      BY <2>1 DEF Telemetry!Join, Telemetry!recordVars, Telemetry!workerVars,
         Telemetry!controlVars
    <3>2. queue = <<>> /\ reply_to = None
      BY <3>1 DEF TelemetryInv, ShutdownKept, QueueKept
    <3>3. \A r \in Records : pc[r] \notin {"queued", "batched"}
      BY <3>1, <3>2 DEF TelemetryInv, ShutdownKept, QueueKept
    <3> QED BY <1>1, <3>1, <3>2, <3>3
  <2>2. CASE Telemetry!Abort
    BY <1>1, <2>2 DEF Telemetry!Abort
  <2> QED BY <2>1, <2>2
<1>3. /\ \A r \in Records : /\ pc'[r] \notin {"queued", "batched", "slot", "send"}
                            /\ pc'[r] = pc[r]
                                 \/ (pc[r] \in {"queued", "batched"} /\ pc'[r] = "dropped")
      /\ pc' \in [Records -> Places]
  BY <1>1, <1>2 DEF Places
<1>4. /\ Cardinality(In(pc, Telemetry!Settled)) \in Nat /\ Cardinality(In(pc, Pending)) \in Nat
      /\ Cardinality(In(pc, {"batched"})) \in Nat /\ IsFiniteSet(In(pc, Telemetry!Settled))
      /\ IsFiniteSet(In(pc, Pending)) /\ IsFiniteSet(In(pc, {"batched"}))
  BY TelemetryFinite
<1>5. TelemetryTypes'
  <2>1. dropped' \in Nat
    BY <1>0, <1>1, <1>4 DEF Counted
  <2> QED BY <1>0, <1>2, <1>3, <2>1 DEF TelemetryInv, TelemetryTypes
<1>6. QueueKept'
  BY <1>2, <1>3 DEF QueueKept
<1>7. ShutdownKept'
  BY <1>0, <1>1, <1>2, <1>3 DEF ShutdownKept
<1>8. NumbersKept'
  BY <1>0, <1>2, <1>3 DEF TelemetryInv, NumbersKept
<1>9. FenceKept'
  <2>1. ASSUME NEW c \in Controls, NEW r \in Records, Covered(c, r)'
        PROVE pc'[r] \in Telemetry!Settled
    <3>1. Covered(c, r)
      BY <1>0, <2>1 DEF Covered
    <3>2. pc[r] \in {"queued", "batched"} \cup Telemetry!Settled
      BY <3>1 DEF TelemetryInv, FenceKept
    <3> QED BY <1>3, <3>2 DEF Telemetry!Settled
  <2>2. \A i \in 1 .. Len(queue') : FALSE
    BY <1>2
  <2> QED BY <2>1, <2>2 DEF FenceKept, Telemetry!Settled
<1>10. Telemetry!NoGhosts'
  BY <1>0 DEF Telemetry!NoGhosts
<1>11. Counted'
  <2> DEFINE S == In(pc, Telemetry!Settled)
             Q == In(pc, Pending)
             B == In(pc, {"batched"})
  <2>1. /\ In(pc', Telemetry!Settled) = (S \cup Q) \cup B /\ S \cap Q = {}
        /\ (S \cup Q) \cap B = {}
        /\ In(pc', Pending) = {} /\ In(pc', {"batched"}) = {}
    BY <1>1, <1>2, <1>3 DEF In, Telemetry!Settled, Pending
  <2>2. /\ IsFiniteSet(S) /\ IsFiniteSet(Q) /\ IsFiniteSet(B) /\ Cardinality(S) \in Nat
        /\ Cardinality(Q) \in Nat /\ Cardinality(B) \in Nat
        /\ persisted + dropped = Cardinality(S) /\ queued = Cardinality(Q)
        /\ in_flight = Cardinality(B)
    BY <1>1, <1>4 DEF Counted
  <2> HIDE DEF S, Q, B
  <2>3. Cardinality({}) = 0
    BY FS_EmptySet
  <2>4. /\ IsFiniteSet(S \cup Q)
        /\ Cardinality(S \cup Q) = Cardinality(S) + Cardinality(Q) - Cardinality(S \cap Q)
    BY <2>2, FS_Union
  <2>5. Cardinality((S \cup Q) \cup B) =
          Cardinality(S \cup Q) + Cardinality(B) - Cardinality((S \cup Q) \cap B)
    BY <2>2, <2>4, FS_Union
  <2>6. Cardinality((S \cup Q) \cup B) = Cardinality(S) + Cardinality(Q) + Cardinality(B)
    <3>1. Cardinality(S \cap Q) = 0 /\ Cardinality((S \cup Q) \cap B) = 0
      BY <2>1, <2>3
    <3> QED BY <2>2, <2>4, <2>5, <3>1
  <2>7. persisted' + dropped' = Cardinality((S \cup Q) \cup B)
    BY <1>0, <1>1, <2>2, <2>6
  <2> QED BY <1>0, <2>1, <2>3, <2>7 DEF Counted
<1> QED BY <1>5, <1>6, <1>7, <1>8, <1>9, <1>10, <1>11 DEF TelemetryInv

LEMMA TelemetryStarts == ASSUME Telemetry!TelemetryAssumption, Telemetry!Init PROVE TelemetryInv
<1>1. /\ queue = <<>> /\ Len(queue) = 0 /\ reply_to = None /\ worker = "idle" /\ sender
      /\ down = "no" /\ sequence = 0 /\ \A r \in Records : pc[r] = "none" /\ number[r] = 0
      /\ \A c \in Controls : position[c] = 0 /\ call[c] = "none"
  BY DEF Telemetry!Init
<1>2. TelemetryTypes
  BY DEF Telemetry!Init, TelemetryTypes, Places
<1>3. QueueKept /\ ShutdownKept /\ NumbersKept
  BY <1>1 DEF QueueKept, ShutdownKept, NumbersKept
<1>4. FenceKept
  BY <1>1 DEF FenceKept, Covered
<1>5. Telemetry!NoGhosts
  BY DEF Telemetry!Init, Telemetry!NoGhosts
<1>6. Counted
  <2>1. /\ In(pc, Telemetry!Settled) = {} /\ In(pc, Pending) = {} /\ In(pc, {"batched"}) = {}
        /\ In(pc, Held) = {} /\ In(pc, Charged) = {} /\ RejectedIn(pc, kind, Held) = {}
        /\ RejectedIn(pc, kind, Charged) = {} /\ Waiting(queue) = {}
    BY <1>1 DEF In, RejectedIn, Waiting, Telemetry!Settled, Pending, Held, Charged
  <2>2. Cardinality({}) = 0
    BY FS_EmptySet
  <2>3. /\ persisted = 0 /\ dropped = 0 /\ queued = 0 /\ in_flight = 0 /\ slots = 0
        /\ rejected_slots = 0 /\ bytes = 0 /\ rejected_bytes = 0
    BY DEF Telemetry!Init
  <2> QED BY <2>1, <2>2, <2>3 DEF Counted
<1> QED BY <1>2, <1>3, <1>4, <1>5, <1>6 DEF TelemetryInv

(* Whatever requests finish, the limits refuse, the storage fails and      *)
(* shutdown aborts: an answered quota observation covers every record      *)
(* numbered before it, the counters say what is queued, held and settled,  *)
(* and no settled request is listed as active (TelemetryWriter's channel,  *)
(* its counters and quota_observation).                                    *)
THEOREM FenceHolds ==
  ASSUME Telemetry!TelemetryAssumption
  PROVE  Telemetry!Spec => []FenceCovers
<1>1. Telemetry!Init => TelemetryInv
  BY TelemetryStarts
<1>2. TelemetryInv /\ [Telemetry!Next]_(Telemetry!vars) => TelemetryInv'
  <2> SUFFICES ASSUME TelemetryInv, [Telemetry!Next]_(Telemetry!vars) PROVE TelemetryInv'
    OBVIOUS
  <2>1. ASSUME NEW r \in Records, Telemetry!TrySend(r) PROVE TelemetryInv'
    BY <2>1, DeliverKeeps, ProducerKeeps DEF Telemetry!TrySend
  <2>2. ASSUME NEW r \in Records, Telemetry!Begin(r) \/ Telemetry!Finish(r)
                 \/ Telemetry!Admit(r) \/ Telemetry!Charge(r)
        PROVE  TelemetryInv'
    BY <2>2, ProducerKeeps
  <2>3. ASSUME NEW c \in Controls, Telemetry!Observe(c) \/ Telemetry!CloneSender(c)
                 \/ Telemetry!SendControl(c)
        PROVE  TelemetryInv'
    BY <2>3, ObserveKeeps, SendControlKeeps
  <2>4. CASE Telemetry!Receive
    BY <2>4, ReceiveKeeps
  <2>5. ASSUME NEW i \in 1 .. 3, NEW ok \in BOOLEAN, Telemetry!FlushPart(i, ok)
        PROVE TelemetryInv'
    BY <2>5, FlushKeeps
  <2>6. CASE Telemetry!EndBatch \/ Telemetry!EndFlush \/ Telemetry!Prune \/ Telemetry!Drained
               \/ Telemetry!UpdatePolicy \/ Telemetry!TakeSender \/ UNCHANGED Telemetry!vars
    BY <2>6, WriterKeeps
  <2>7. CASE Telemetry!Join \/ Telemetry!Abort
    BY <2>7, StopKeeps
  <2> QED BY <2>1, <2>2, <2>3, <2>4, <2>5, <2>6, <2>7 DEF Telemetry!Next
<1>3. TelemetryInv => FenceCovers
  <2> SUFFICES ASSUME TelemetryInv
               PROVE  Telemetry!FenceCovers /\ Telemetry!Accounted /\ Telemetry!NoGhosts
    BY DEF FenceCovers
  <2>1. Telemetry!FenceCovers
    BY DEF TelemetryInv, FenceKept, Telemetry!FenceCovers, Covered
  <2>2. Telemetry!Accounted
    <3>1. /\ \A places : Telemetry!Where(places) = In(pc, places)
          /\ \A places : Telemetry!Rejected(Telemetry!Where(places)) = RejectedIn(pc, kind,
               places)
      BY DEF Telemetry!Where, Telemetry!Rejected, In, RejectedIn
    <3> QED BY <3>1, TelemetryCounts
            DEF TelemetryInv, Counted, Telemetry!Accounted, Pending, Held, Charged, Waiting
  <2> QED BY <2>1, <2>2 DEF TelemetryInv
<1> QED BY <1>1, <1>2, <1>3, PTL DEF Telemetry!Spec
=============================================================================
