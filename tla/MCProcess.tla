----------------------------- MODULE MCProcess -----------------------------
(***************************************************************************)
(* The process around the requests: how it ends, how it replaces itself,   *)
(* the writer of its telemetry and the sessions of its administrator.      *)
(* They share nothing, so each is explored in behaviours of its own.       *)
(***************************************************************************)
EXTENDS ProcessProofs

VARIABLE part

updateVars ==
  <<disk, journal, fate, process, version, update_env, recovery, script, status, task,
    manual, restart, update_phase, confirmed, faults>>
telemetryVars ==
  <<pc, kind, sequence, sequence_lock, number, sender, queue, slots, rejected_slots,
    bytes, rejected_bytes, queued, in_flight, dropped, persisted, active, worker, taken,
    reply_to, call, wants, position, down, policy, pruned, prune_permit>>
adminVars ==
  <<stored, hash, setup_token, credential_lock, readers, checks, hashing, failures,
    sessions, older, password, touched, expired, login, tried, rotation, known, setup, watch,
    watched, seen, edited>>
mcVars == <<part, vars, updateVars, telemetryVars, adminVars>>

(* One part moves in a behaviour; the others stay as they begin.           *)
LifecycleMoves ==
  part = "lifecycle" /\ UNCHANGED <<part, updateVars, telemetryVars, adminVars>>
UpdateMoves ==
  part = "update" /\ UNCHANGED <<part, telemetryVars, adminVars, vars>>
TelemetryMoves ==
  part = "telemetry" /\ UNCHANGED <<part, updateVars, adminVars, vars>>
AdminMoves ==
  part = "admin" /\ UNCHANGED <<part, updateVars, telemetryVars, vars>>

MCInit ==
  /\ part \in {"lifecycle", "update", "telemetry", "admin"}
  /\ Init /\ Update!Init /\ Telemetry!Init /\ Admin!Init
  /\ part # "update" => fate = [v \in 1 .. MaxVersion |-> "good"]
  /\ part # "telemetry" => kind = [r \in Records |-> "oauth"] /\ wants["c1"] = "clear"
  /\ kind["r1"] = "oauth" \/ kind = [r \in Records |-> "rejected"]
  /\ part # "admin" => tried["l1"] = "s1"
  /\ tried["l2"] = "s1" /\ tried["l1"] # "o1"

MCNext ==
  \/ LifecycleMoves /\ Next
  \/ UpdateMoves /\ Update!Next
  \/ TelemetryMoves /\ Telemetry!Next
  \/ AdminMoves /\ Admin!Next

MCSpec ==
  /\ MCInit /\ [][MCNext]_mcVars
  /\ WF_mcVars(LifecycleMoves /\ Reclaimer)
  /\ WF_mcVars(UpdateMoves /\ Update!Progress)
  /\ WF_mcVars(TelemetryMoves /\ Telemetry!Receive)
  /\ WF_mcVars(TelemetryMoves /\ Telemetry!EndBatch)
  /\ WF_mcVars(TelemetryMoves /\ Telemetry!EndFlush)
  /\ WF_mcVars(TelemetryMoves /\ Telemetry!Drained)
  /\ SF_mcVars(TelemetryMoves /\ Telemetry!Prune /\ prune_permit)
  /\ \A i \in 1 .. 3 : WF_mcVars(TelemetryMoves /\ \E ok \in BOOLEAN : Telemetry!FlushPart(i, ok))
  /\ WF_mcVars(TelemetryMoves /\ Telemetry!CloneSender("c1"))
  /\ SF_mcVars(TelemetryMoves /\ Telemetry!SendControl("c1"))
  /\ WF_mcVars(AdminMoves /\ Admin!ObserveSession("w1"))
  /\ WF_mcVars(AdminMoves /\ Admin!WatchFires("w1"))

-----------------------------------------------------------------------------
ASSUME Update!UpdateAssumption /\ Admin!AdminAssumption /\ Telemetry!TelemetryAssumption

(* What is owed is done: idle memory is given back, a service that is down *)
(* comes back on the new version or the old one, the telemetry writer      *)
(* answers and prunes, and an event stream ends with its session.          *)
Owed ==
  CASE part = "lifecycle" ->
         blockers = {} /\ last_reclaimed < activity_epoch /\ ~draining
    [] part = "update" -> process \notin {"serving", "exec"} /\ fate[disk.executable] # "early"
    [] part = "telemetry" ->
         call["c1"] \in {"observed", "cloned", "waiting"} \/ (policy = 1 /\ pruned = 0 /\ Telemetry!Alive)
    [] part = "admin" ->
         /\ watch["w1"] \in {"observe", "wait"}
         /\ watched["w1"] \notin sessions \ expired
WhatIsOwedIsDone == Owed ~> ~Owed
=============================================================================
