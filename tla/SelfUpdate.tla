----------------------------- MODULE SelfUpdate -----------------------------
(***************************************************************************)
(* Replacing the running executable by a new release, with a crash or a    *)
(* failed file operation possible between any two of its steps.            *)
(*                                                                         *)
(* Three directory entries matter: the executable, a link to the previous  *)
(* one, and a marker naming the version under trial.  Entries are durable  *)
(* once the directory is synced; until then a power loss brings back any   *)
(* directory since the last sync, in the order of the changes, as a        *)
(* journalling file system does.  A version stands for the file itself:    *)
(* only newer versions are installed, so equal versions are equal files.   *)
(***************************************************************************)
EXTENDS Naturals, Sequences, FiniteSets

CONSTANTS
  MaxVersion, \* bound: releases
  MaxFaults,  \* bound: crashes, power losses and failed operations
  Nothing,    \* no such entry
  Torn        \* a marker that was created but not written

VARIABLES
  disk,       \* the directory: executable, previous, pending
  journal,    \* the directories a power loss may bring back
  fate,       \* how each version starts: good, or failing early or late
  process,    \* where the process is in its life
  version,    \* the version it runs
  update_env, \* ANY2API_INTERNAL_UPDATE_RESTART
  recovery,   \* StartupUpdateRecovery was found, not confirmed
  script,     \* file operations still to be made, and what they are for
  status,     \* UpdateStatus
  task,       \* the update task
  manual,     \* a restart handler between its check and its request
  restart,    \* RestartSignal: 0, Manual = 1, Update = 2
  phase,      \* ShutdownPhase
  confirmed,  \* history: versions that have served
  faults

lifecycle == <<process, version, update_env, recovery>>
updater == <<status, task, manual, restart, phase>>
vars == <<disk, journal, fate, lifecycle, script, updater, confirmed, faults>>

Versions == 1..MaxVersion

(* An entry that is missing or torn is not a version.                      *)
UpdateAssumption ==
  /\ MaxVersion \in Nat \ {0} /\ MaxFaults \in Nat
  /\ Nothing \notin Versions /\ Torn \notin Versions \cup {Nothing}

NoScript == [for |-> "nothing", ops |-> <<>>]
Idle == script = NoScript
Active(s) == s \in {"checking", "downloading", "installing", "restarting"}

Init ==
  /\ disk = [executable |-> 1, previous |-> Nothing, pending |-> Nothing]
  /\ journal = {disk}
  /\ fate \in [Versions -> {"good", "early", "late"}] /\ fate[1] = "good"
  /\ process = "down" /\ version = 1 /\ update_env = FALSE /\ recovery = FALSE
  /\ script = NoScript
  /\ status = "idle" /\ task = "none" /\ manual = FALSE /\ restart = 0
  /\ phase = "running"
  /\ confirmed = {1} /\ faults = 0

-----------------------------------------------------------------------------
(* File operations.                                                        *)

Commit == <<"create", "write", "link", "sync", "rename", "sync">>
CleanupUncommitted == <<"drop_previous", "drop_pending", "sync">>
(* Faulty variant: the marker goes first.                                  *)
CleanupMarkerFirst == <<"drop_pending", "drop_previous", "sync">>

CleanupConfirmed == <<"drop_previous", "drop_pending", "sync">>
DiscardMarker == <<"drop_pending", "sync">>
RestorePrevious == IF disk.executable = disk.previous THEN CleanupUncommitted
                   ELSE <<"restore", "drop_pending", "sync">>

Blocked(op) ==
  \/ op = "create" /\ disk.pending # Nothing
  \/ op = "link" /\ disk.previous # Nothing

After(op) ==
  CASE op = "create"        -> [disk EXCEPT !.pending = Torn]
    [] op = "write"         -> [disk EXCEPT !.pending = version + 1]
    [] op = "link"          -> [disk EXCEPT !.previous = disk.executable]
    [] op = "rename"        -> [disk EXCEPT !.executable = version + 1]
    [] op = "restore"       -> [disk EXCEPT !.executable = disk.previous, !.previous = Nothing]
    [] op = "drop_previous" -> [disk EXCEPT !.previous = Nothing]
    [] op = "drop_pending"  -> [disk EXCEPT !.pending = Nothing]
    [] op = "sync"          -> disk

Perform ==
  /\ script.ops # <<>> /\ ~Blocked(Head(script.ops))
  /\ disk' = After(Head(script.ops))
  /\ journal' = IF Head(script.ops) = "sync" THEN {disk} ELSE journal \union {disk'}
  /\ script' = [script EXCEPT !.ops = Tail(@)]
  /\ UNCHANGED <<fate, lifecycle, updater, confirmed, faults>>

(* What commit_candidate does about a failure, by the operation that       *)
(* failed; a failure while cleaning up is the end of it.                   *)
Undo ==
  LET left == Len(script.ops) IN
  IF script.for # "commit" THEN <<>>
  ELSE CASE left = 6 -> <<>>
         [] left \in {5, 4} -> <<"drop_pending">>
         [] left \in {3, 2} -> CleanupUncommitted
         [] left = 1 -> RestorePrevious

OperationFails ==
  /\ script.ops # <<>>
  /\ \/ Blocked(Head(script.ops)) /\ UNCHANGED faults
     \/ faults < MaxFaults /\ faults' = faults + 1
  /\ script' = [for |-> CASE script.for = "commit" -> "undo"
                          [] script.for = "rollback" -> "failed rollback"
                          [] OTHER -> script.for,
                ops |-> Undo]
  /\ UNCHANGED <<disk, journal, fate, lifecycle, updater, confirmed>>

Begin(for, ops) == script' = [for |-> for, ops |-> ops]

-----------------------------------------------------------------------------
(* Life and death of the process.  Nothing in memory survives.             *)

Down ==
  /\ process' = "down" /\ update_env' = FALSE /\ recovery' = FALSE
  /\ script' = NoScript
  /\ status' = "idle" /\ task' = "none" /\ manual' = FALSE /\ restart' = 0
  /\ phase' = "running"

Exec(v, env) ==
  /\ process' = "early" /\ version' = v /\ update_env' = env /\ recovery' = FALSE
  /\ script' = NoScript
  /\ status' = "idle" /\ task' = "none" /\ manual' = FALSE /\ restart' = 0
  /\ phase' = "running"

(* The supervisor, or an operator, starts the executable.                  *)
Boot ==
  /\ process = "down"
  /\ Exec(disk.executable, FALSE)
  /\ UNCHANGED <<disk, journal, fate, confirmed, faults>>

Crash ==
  /\ process # "down" /\ faults < MaxFaults
  /\ faults' = faults + 1
  /\ Down
  /\ UNCHANGED <<disk, journal, fate, version, confirmed>>

PowerLoss ==
  /\ faults < MaxFaults
  /\ faults' = faults + 1
  /\ disk' \in journal /\ journal' = {disk'}
  /\ Down
  /\ UNCHANGED <<fate, version, confirmed>>

-----------------------------------------------------------------------------
(* Startup.                                                                *)

(* StartupUpdateRecovery::discover.                                        *)
Discovered ==
  CASE disk.pending = Nothing -> "nothing"
    [] disk.pending = Torn -> "invalid"
    [] OTHER -> IF disk.previous = Nothing THEN "incomplete" ELSE "pending"

(* Before the instance lock is held: command line, tracing, environment,   *)
(* the lock itself.  Only a process started by an update undoes it here.   *)
EarlyFails ==
  /\ process = "early" /\ Idle /\ fate[version] = "early"
  /\ IF update_env /\ Discovered \in {"incomplete", "pending"}
     THEN /\ IF Discovered = "pending" THEN Begin("rollback", RestorePrevious)
             ELSE Begin("give up", DiscardMarker)
          /\ UNCHANGED <<lifecycle, updater>>
     ELSE Down /\ UNCHANGED version
  /\ UNCHANGED <<disk, journal, fate, confirmed, faults>>

AcquireInstanceLock ==
  /\ process = "early" /\ Idle /\ fate[version] # "early"
  /\ process' = "locked"
  /\ UNCHANGED <<disk, journal, fate, version, update_env, recovery, script, updater, confirmed, faults>>

(* A marker for another version means the commit was cut short.            *)
DiscoverRecovery ==
  /\ process = "locked" /\ Idle
  /\ CASE Discovered = "incomplete" ->
            process' = "application" /\ recovery' = FALSE /\ Begin("tidy", DiscardMarker)
       [] Discovered = "pending" /\ disk.pending # version ->
            Begin("rollback", RestorePrevious) /\ UNCHANGED <<process, recovery>>
       [] OTHER ->
            /\ process' = "application" /\ recovery' = (Discovered = "pending")
            /\ UNCHANGED script
  /\ UNCHANGED <<disk, journal, fate, version, update_env, updater, confirmed, faults>>

(* An early return of the application's run: its storage, configuration,   *)
(* services, listener, workers or signals do not come up.                  *)
RunFails == fate[version] = "late"

(* Faulty variant: a late failure is an ordinary error.                    *)
ApplicationJustFails ==
  /\ process = "application" /\ Idle /\ RunFails
  /\ Down
  /\ UNCHANGED <<disk, journal, fate, version, confirmed, faults>>

ApplicationFails ==
  /\ process = "application" /\ Idle /\ RunFails
  /\ IF recovery THEN Begin("rollback", RestorePrevious) /\ UNCHANGED <<lifecycle, updater>>
     ELSE Down /\ UNCHANGED version
  /\ UNCHANGED <<disk, journal, fate, confirmed, faults>>

(* Storage, configuration, listener, workers and signals are ready.        *)
ConfirmStartup ==
  /\ process = "application" /\ Idle /\ fate[version] = "good"
  /\ process' = "serving" /\ recovery' = FALSE
  /\ confirmed' = confirmed \union {version}
  /\ IF recovery THEN Begin("confirm", CleanupConfirmed) ELSE UNCHANGED script
  /\ UNCHANGED <<disk, journal, fate, version, update_env, updater, faults>>

(* The end of a file script that began during startup or an exec.          *)
ScriptEnds ==
  /\ script.for \notin {"nothing", "commit", "undo"} /\ script.ops = <<>>
  /\ CASE script.for = "rollback" -> Exec(disk.executable, FALSE)
       [] script.for \in {"failed rollback", "give up"} -> Down /\ UNCHANGED version
       [] OTHER -> script' = NoScript /\ UNCHANGED <<lifecycle, updater>>
  /\ UNCHANGED <<disk, journal, fate, confirmed, faults>>

-----------------------------------------------------------------------------
(* While it serves: the update task, restart requests, draining.           *)

Serving == process = "serving" /\ script.for # "confirm"

StartInstall ==
  /\ Serving /\ phase = "running" /\ ~Active(status) /\ task = "none"
  /\ status' = "checking" /\ task' = "admitted"
  /\ UNCHANGED <<disk, journal, fate, lifecycle, script, manual, restart, phase, confirmed, faults>>

(* Draining may have begun since the admission.                            *)
TrySpawn ==
  /\ Serving /\ task = "admitted"
  /\ IF phase = "running" THEN task' = "preparing" /\ UNCHANGED status
     ELSE task' = "none" /\ status' = "idle"
  /\ UNCHANGED <<disk, journal, fate, lifecycle, script, manual, restart, phase, confirmed, faults>>

(* install_latest: the newest release must be newer than this process.     *)
LatestCheck ==
  /\ Serving /\ task = "preparing" /\ status = "checking"
  /\ \/ version < MaxVersion /\ status' = "downloading" /\ UNCHANGED task
     \/ status' = "failed" /\ task' = "none"
  /\ UNCHANGED <<disk, journal, fate, lifecycle, script, manual, restart, phase, confirmed, faults>>

(* The archive has the announced size and the published checksum.          *)
PrepareFromRelease ==
  /\ Serving /\ task = "preparing" /\ status = "downloading"
  /\ \/ status' = "installing" /\ task' = "commit"
     \/ status' = "failed" /\ task' = "none"
  /\ UNCHANGED <<disk, journal, fate, lifecycle, script, manual, restart, phase, confirmed, faults>>

(* The archive holds one executable, and that answers --version.           *)
ExtractAndReplace ==
  /\ Serving /\ task = "commit" /\ Idle
  /\ \/ Begin("commit", Commit) /\ UNCHANGED <<status, task>>
     \/ status' = "failed" /\ task' = "none" /\ UNCHANGED script
  /\ UNCHANGED <<disk, journal, fate, lifecycle, manual, restart, phase, confirmed, faults>>

(* Forcing cancels a task that can be cancelled; a commit runs on.         *)
CancelTask ==
  /\ Serving /\ phase = "forced" /\ task = "preparing"
  /\ task' = "none"
  /\ UNCHANGED <<disk, journal, fate, lifecycle, script, status, manual, restart, phase, confirmed, faults>>

(* Faulty variant: the last request decides.                               *)
StoreRestart(kind) == restart' = kind

RaiseRestart(kind) == restart' = IF kind > restart THEN kind ELSE restart

FinishCommit ==
  /\ script.for \in {"commit", "undo"} /\ script.ops = <<>>
  /\ IF script.for = "commit" THEN status' = "restarting" /\ RaiseRestart(2)
     ELSE status' = "failed" /\ UNCHANGED restart
  /\ task' = "none" /\ script' = NoScript
  /\ UNCHANGED <<disk, journal, fate, lifecycle, manual, phase, confirmed, faults>>

CheckManualRestart ==
  /\ Serving /\ phase = "running" /\ ~Active(status) /\ ~manual
  /\ manual' = TRUE
  /\ UNCHANGED <<disk, journal, fate, lifecycle, script, status, task, restart, phase, confirmed, faults>>

RequestManualRestart ==
  /\ manual
  /\ manual' = FALSE /\ RaiseRestart(1)
  /\ UNCHANGED <<disk, journal, fate, lifecycle, script, status, task, phase, confirmed, faults>>

(* A signal or a restart request ends serving.                             *)
BeginDraining ==
  /\ Serving /\ phase = "running"
  /\ phase' = "draining"
  /\ UNCHANGED <<disk, journal, fate, lifecycle, script, status, task, manual, restart, confirmed, faults>>

Force ==
  /\ Serving /\ phase = "draining"
  /\ phase' = "forced"
  /\ UNCHANGED <<disk, journal, fate, lifecycle, script, status, task, manual, restart, confirmed, faults>>

(* Finalization waited for requests and background tasks: stop, restart,   *)
(* or restart into the update.                                             *)
Finalize ==
  /\ Serving /\ phase # "running" /\ task = "none" /\ ~manual
  /\ CASE restart = 0 -> Down /\ UNCHANGED version
       [] restart = 1 -> Exec(disk.executable, FALSE)
       [] restart = 2 -> Exec(disk.executable, TRUE)
  /\ UNCHANGED <<disk, journal, fate, confirmed, faults>>

(* exec refuses the updated executable: the old process undoes the update. *)
ExecFails ==
  /\ Serving /\ phase # "running" /\ task = "none" /\ ~manual /\ restart = 2
  /\ faults < MaxFaults /\ faults' = faults + 1
  /\ CASE Discovered = "pending" -> Begin("rollback", RestorePrevious)
       [] Discovered = "incomplete" -> Begin("give up", DiscardMarker)
       [] OTHER -> Begin("give up", <<>>)
  /\ process' = "exec"
  /\ UNCHANGED <<disk, journal, fate, version, update_env, recovery, updater, confirmed>>

(* Finalization runs into its timeout: the process exits as it is.         *)
FinalizeTimesOut ==
  /\ Serving /\ phase = "forced" /\ task # "none"
  /\ Down
  /\ UNCHANGED <<disk, journal, fate, version, confirmed, faults>>

-----------------------------------------------------------------------------
Progress ==
  \/ Boot \/ Perform \/ ScriptEnds \/ EarlyFails \/ AcquireInstanceLock \/ DiscoverRecovery
  \/ ApplicationFails \/ ConfirmStartup

Next ==
  \/ Progress
  \/ OperationFails \/ Crash \/ PowerLoss
  \/ StartInstall \/ TrySpawn \/ LatestCheck \/ PrepareFromRelease \/ ExtractAndReplace
  \/ CancelTask \/ FinishCommit
  \/ CheckManualRestart \/ RequestManualRestart
  \/ BeginDraining \/ Force \/ Finalize \/ ExecFails \/ FinalizeTimesOut

(* Startup goes on by itself, and a supervisor restarts what has stopped.  *)
Fairness == WF_vars(Progress)

Spec == Init /\ [][Next]_vars /\ Fairness

-----------------------------------------------------------------------------
TypeOK ==
  /\ disk \in [executable : Versions, previous : Versions \union {Nothing},
               pending : Versions \union {Nothing, Torn}]
  /\ disk \in journal
  /\ version \in Versions /\ restart \in 0..2 /\ faults \in 0..MaxFaults
  /\ confirmed \subseteq Versions

(* Whatever directory a crash or a power loss leaves behind, an executable *)
(* that has never served has its predecessor and the marker beside it; and *)
(* a predecessor is never left without a marker, since then nothing would  *)
(* remove it and every later update would fail on it.                      *)
WayBack ==
  \A d \in journal :
    /\ d.executable \notin confirmed => d.previous \in confirmed /\ d.pending = d.executable
    /\ d.previous # Nothing => d.pending # Nothing

(* A process that has replaced its executable restarts with the recovery   *)
(* environment set, although others ask for plain restarts meanwhile.      *)
UpdateRestartWins ==
  [][status = "restarting" /\ version' # version => update_env']_vars

(* Left to itself the service comes back, on the new version or the old    *)
(* one.  A version that fails before it holds the instance lock is undone  *)
(* only in the process the update started.                                 *)
ServiceReturns ==
  (process = "down") ~> (process = "serving" \/ fate[disk.executable] = "early")
=============================================================================
