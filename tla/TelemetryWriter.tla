-------------------------- MODULE TelemetryWriter --------------------------
(***************************************************************************)
(* Request telemetry (runtime/src/request_telemetry).                      *)
(*                                                                         *)
(* Requests finish on many threads and hand their records to one writer    *)
(* over a bounded channel.  A record is admitted against a policy's slots  *)
(* and bytes, with a quarter of both for rejected gateway keys; the slot   *)
(* is held while it is queued, the bytes until it is stored or dropped.    *)
(* The writer collects batches.  A clear of the access logs and a quota    *)
(* flush travel through the same channel and flush the batch before they   *)
(* answer.  Records of OAuth accounts are numbered; a quota observation    *)
(* reads the number and then waits for a flush, so that everything up to   *)
(* it is settled.                                                          *)
(*                                                                         *)
(* A record is one unit of bytes.  Atomic steps: what one thread does to   *)
(* one group of counters, and a repository call.                           *)
(***************************************************************************)
EXTENDS Naturals, Sequences, FiniteSets

CONSTANTS
  Records,          \* records; each names the request it is of
  Controls,         \* calls of clear_http_access_logs and quota_observation
  Capacity,         \* policy.queue_capacity
  MaxBytes,         \* policy.queue_max_bytes
  RejectedCapacity, \* gateway_auth_rejected_capacity of both
  ChannelCapacity,  \* MAX_TELEMETRY_QUEUE_CAPACITY
  BatchSize,        \* WRITE_BATCH_SIZE
  MaxRevision,      \* bound on the policy's revisions
  None

VARIABLES
  pc,             \* pc[r]: where record r is
  kind,           \* kind[r]: oauth, request, rejected (an access log) or usage
  sequence,       \* quota_sequence
  sequence_lock,  \* its holder
  number,         \* number[r]: telemetry_position
  sender,         \* the channel's sender is still there
  queue,          \* the channel
  slots, rejected_slots, bytes, rejected_bytes,
  queued, in_flight, dropped, persisted,
  active,         \* ActiveRequestRegistry
  worker,         \* idle, batch, flush, stopped or aborted
  taken,          \* events received for this batch
  reply_to,       \* the control that asked for this flush
  call,           \* call[c]: where control c is
  wants,          \* wants[c]: quota or clear
  position,       \* position[c]: sequence observed
  down,           \* shutdown: no, joining or done
  policy, pruned, \* revision of the policy, and of the last prune
  prune_permit    \* prune_wakeup holds a permit

recordVars == <<pc, kind, number>>
sequenceVars == <<sequence, sequence_lock>>
slotVars == <<slots, rejected_slots>>
byteVars == <<bytes, rejected_bytes>>
countVars == <<queued, in_flight, dropped, persisted>>
workerVars == <<worker, taken, reply_to>>
controlVars == <<call, wants, position>>
pruneVars == <<policy, pruned, prune_permit>>
vars == <<recordVars, sequenceVars, sender, queue, slotVars, byteVars, countVars, active,
          workerVars, controlVars, down, pruneVars>>

(* Records and calls are finite in number and told apart.                  *)
TelemetryAssumption ==
  /\ IsFiniteSet(Records) /\ IsFiniteSet(Controls)
  /\ Records \cap Controls = {} /\ None \notin Records \cup Controls

Kinds == {"oauth", "request", "rejected", "usage"}
LogKinds == {"oauth", "request"}
Settled == {"persisted", "dropped"}
Where(places) == {r \in Records : pc[r] \in places}
Rejected(set) == {r \in set : kind[r] = "rejected"}
Alive == worker \in {"idle", "batch", "flush"}
IsControl(event) == event \in Controls
One(r, k) == IF kind[r] = k THEN 1 ELSE 0

TypeOK ==
  /\ pc \in [Records -> {"none", "open", "admit", "slot", "send", "queued", "batched"} \cup Settled]
  /\ kind \in [Records -> Kinds]
  /\ sequence \in Nat /\ sequence_lock \in Records \cup {None}
  /\ number \in [Records -> Nat]
  /\ sender \in BOOLEAN /\ queue \in Seq(Records \cup Controls)
  /\ {slots, rejected_slots, bytes, rejected_bytes, queued, in_flight, dropped, persisted}
       \subseteq Nat
  /\ active \subseteq Records
  /\ worker \in {"idle", "batch", "flush", "stopped", "aborted"} /\ taken \in 0..BatchSize
  /\ reply_to \in Controls \cup {None}
  /\ call \in [Controls -> {"none", "observed", "cloned", "waiting", "answered", "unavailable"}]
  /\ wants \in [Controls -> {"quota", "clear"}] /\ position \in [Controls -> Nat]
  /\ down \in {"no", "joining", "done"}
  /\ policy \in 0..MaxRevision /\ pruned \in 0..MaxRevision /\ prune_permit \in BOOLEAN

Init ==
  /\ pc = [r \in Records |-> "none"] /\ kind \in [Records -> Kinds]
  /\ number = [r \in Records |-> 0]
  /\ sequence = 0 /\ sequence_lock = None /\ sender = TRUE /\ queue = <<>>
  /\ slots = 0 /\ rejected_slots = 0 /\ bytes = 0 /\ rejected_bytes = 0
  /\ queued = 0 /\ in_flight = 0 /\ dropped = 0 /\ persisted = 0
  /\ active = {} /\ worker = "idle" /\ taken = 0 /\ reply_to = None
  /\ call = [c \in Controls |-> "none"] /\ wants \in [Controls -> {"quota", "clear"}]
  /\ position = [c \in Controls |-> 0]
  /\ down = "no" /\ policy = 0 /\ pruned = 0 /\ prune_permit = FALSE

-----------------------------------------------------------------------------
(* Producers.                                                              *)

(* RequestRecorder::new: the request is listed as active.                  *)
Begin(r) ==
  /\ pc[r] = "none"
  /\ pc' = [pc EXCEPT ![r] = "open"]
  /\ active' = active \cup (IF kind[r] \in LogKinds THEN {r} ELSE {})
  /\ UNCHANGED <<kind, number, sequenceVars, sender, queue, slotVars, byteVars, countVars,
                 workerVars, controlVars, down, pruneVars>>

\* Faulty variant: the lock is let go before the record is sent.
NumberedOnly(r) ==
  IF kind[r] = "oauth"
  THEN /\ sequence_lock = None
       /\ sequence' = sequence + 1 /\ sequence_lock' = None
       /\ number' = [number EXCEPT ![r] = sequence + 1]
  ELSE UNCHANGED <<sequenceVars, number>>

(* finish, or the recorder's Drop: a record of an OAuth account takes the  *)
(* next number and keeps the lock until it is sent.                        *)
Numbered(r) ==
  IF kind[r] = "oauth"
  THEN /\ sequence_lock = None
       /\ sequence' = sequence + 1 /\ sequence_lock' = r
       /\ number' = [number EXCEPT ![r] = sequence + 1]
  ELSE UNCHANGED <<sequenceVars, number>>

Finish(r) ==
  /\ pc[r] = "open"
  /\ Numbered(r)
  /\ pc' = [pc EXCEPT ![r] = "admit"]
  /\ UNCHANGED <<kind, sender, queue, slotVars, byteVars, countVars, active, workerVars,
                 controlVars, down, pruneVars>>

Unlock(r) ==
  /\ sequence_lock' = IF sequence_lock = r THEN None ELSE sequence_lock
  /\ UNCHANGED sequence

(* counters.rejected, and the request leaves the active list.              *)
Reject(r) ==
  /\ pc' = [pc EXCEPT ![r] = "dropped"]
  /\ dropped' = dropped + 1
  /\ active' = active \ {r}
  /\ Unlock(r)
  /\ UNCHANGED <<queued, in_flight, persisted>>

SlotFree(r) ==
  /\ slots + 1 <= Capacity
  /\ kind[r] = "rejected" => rejected_slots + 1 <= RejectedCapacity

BytesFree(r) ==
  /\ bytes + 1 <= MaxBytes
  /\ kind[r] = "rejected" => rejected_bytes + 1 <= RejectedCapacity

\* Faulty variant: the share of the rejected keys is not given back.
ReleaseOnlySlot(r) ==
  /\ slots' = slots - 1
  /\ UNCHANGED rejected_slots

ReleaseSlot(r) ==
  /\ slots' = slots - 1
  /\ rejected_slots' = rejected_slots - One(r, "rejected")

(* try_send_event takes the sender's read lock and reserves a slot.        *)
Admit(r) ==
  /\ pc[r] = "admit"
  /\ \/ /\ sender /\ SlotFree(r)
        /\ slots' = slots + 1
        /\ rejected_slots' = rejected_slots + One(r, "rejected")
        /\ pc' = [pc EXCEPT ![r] = "slot"]
        /\ UNCHANGED <<sequenceVars, countVars, active>>
     \/ /\ ~(sender /\ SlotFree(r))
        /\ Reject(r)
        /\ UNCHANGED slotVars
  /\ UNCHANGED <<kind, number, sender, queue, byteVars, workerVars, controlVars, down, pruneVars>>

(* The bytes; without them the slot is given back.                         *)
Charge(r) ==
  /\ pc[r] = "slot"
  /\ \/ /\ BytesFree(r)
        /\ bytes' = bytes + 1
        /\ rejected_bytes' = rejected_bytes + One(r, "rejected")
        /\ queued' = queued + 1
        /\ pc' = [pc EXCEPT ![r] = "send"]
        /\ UNCHANGED <<sequenceVars, slotVars, in_flight, dropped, persisted, active>>
     \/ /\ ~BytesFree(r)
        /\ ReleaseSlot(r)
        /\ Reject(r)
        /\ UNCHANGED byteVars
  /\ UNCHANGED <<kind, number, sender, queue, workerVars, controlVars, down, pruneVars>>

(* try_send: a full or a closed channel undoes everything.                 *)
Deliver(r) ==
  /\ Alive /\ Len(queue) < ChannelCapacity
  /\ queue' = Append(queue, r)
  /\ pc' = [pc EXCEPT ![r] = "queued"]
  /\ Unlock(r)
  /\ UNCHANGED <<slotVars, byteVars, countVars, active>>

SendFailed(r) ==
  /\ ~Alive \/ Len(queue) = ChannelCapacity
  /\ ReleaseSlot(r)
  /\ bytes' = bytes - 1
  /\ rejected_bytes' = rejected_bytes - One(r, "rejected")
  /\ queued' = queued - 1
  /\ dropped' = dropped + 1
  /\ pc' = [pc EXCEPT ![r] = "dropped"]
  /\ active' = active \ {r}
  /\ Unlock(r)
  /\ UNCHANGED <<queue, in_flight, persisted>>

TrySend(r) ==
  /\ pc[r] = "send"
  /\ Deliver(r) \/ SendFailed(r)
  /\ UNCHANGED <<kind, number, sender, workerVars, controlVars, down, pruneVars>>

-----------------------------------------------------------------------------
(* Control calls.                                                          *)

SetCall(c, state) == call' = [call EXCEPT ![c] = state]
producerVars == <<recordVars, sequenceVars, slotVars, byteVars, countVars, active>>

(* quota_observation reads the sequence under its lock.                    *)
Observe(c) ==
  /\ call[c] = "none"
  /\ wants[c] = "quota" => sequence_lock = None
  /\ SetCall(c, "observed")
  /\ position' = [position EXCEPT ![c] = IF wants[c] = "quota" THEN sequence ELSE 0]
  /\ UNCHANGED <<wants, producerVars, sender, queue, workerVars, down, pruneVars>>

CloneSender(c) ==
  /\ call[c] = "observed"
  /\ SetCall(c, IF sender THEN "cloned" ELSE "unavailable")
  /\ UNCHANGED <<wants, position, producerVars, sender, queue, workerVars, down, pruneVars>>

(* reserve().await, then the control slot and the send.                    *)
SendControl(c) ==
  /\ call[c] = "cloned"
  /\ \/ /\ Alive /\ Len(queue) < ChannelCapacity
        /\ slots' = slots + 1
        /\ queue' = Append(queue, c)
        /\ SetCall(c, "waiting")
     \/ /\ ~Alive
        /\ SetCall(c, "unavailable")
        /\ UNCHANGED <<slots, queue>>
  /\ UNCHANGED <<wants, position, recordVars, sequenceVars, rejected_slots, byteVars, countVars,
                 active, sender, workerVars, down, pruneVars>>

-----------------------------------------------------------------------------
(* The writer.                                                             *)

(* counters.received, then the event joins the batch or asks for a flush.  *)
Receive ==
  /\ worker \in {"idle", "batch"} /\ taken < BatchSize /\ queue # <<>>
  /\ queue' = Tail(queue)
  /\ taken' = taken + 1
  /\ LET event == Head(queue) IN
       IF IsControl(event)
       THEN /\ slots' = slots - 1
            /\ worker' = "flush" /\ reply_to' = event
            /\ UNCHANGED <<rejected_slots, queued, in_flight, pc>>
       ELSE /\ ReleaseSlot(event)
            /\ queued' = queued - 1 /\ in_flight' = in_flight + 1
            /\ pc' = [pc EXCEPT ![event] = "batched"]
            /\ worker' = "batch" /\ UNCHANGED reply_to
  /\ UNCHANGED <<kind, number, sequenceVars, sender, byteVars, dropped, persisted, active,
                 controlVars, down, pruneVars>>

(* The coalescing interval passes, or the batch is full.                   *)
EndBatch ==
  /\ worker = "batch" /\ (queue = <<>> \/ taken = BatchSize)
  /\ worker' = "flush"
  /\ UNCHANGED <<taken, reply_to, producerVars, sender, queue, controlVars, down, pruneVars>>

(* The three kinds of records are written in this order.                   *)
Parts == <<LogKinds, {"rejected"}, {"usage"}>>
Part(i) == {r \in Where({"batched"}) : kind[r] \in Parts[i]}

\* Faulty variant: what could not be stored stays on the active list.
FlushPartKeepsActive(i, ok) ==
  /\ worker = "flush"
  /\ Part(i) # {} /\ \A j \in 1..(i - 1) : Part(j) = {}
  /\ LET n == Cardinality(Part(i)) IN
       /\ in_flight' = in_flight - n
       /\ persisted' = persisted + IF ok THEN n ELSE 0
       /\ dropped' = dropped + IF ok THEN 0 ELSE n
       /\ bytes' = bytes - n
       /\ rejected_bytes' = rejected_bytes - Cardinality(Rejected(Part(i)))
  /\ pc' = [r \in Records |-> IF r \in Part(i) THEN (IF ok THEN "persisted" ELSE "dropped")
                                               ELSE pc[r]]
  /\ active' = IF ok THEN active \ Part(i) ELSE active
  /\ UNCHANGED <<kind, number, sequenceVars, sender, queue, slotVars, queued, workerVars,
                 controlVars, down, pruneVars>>

(* flush_request_logs, flush_http_access_logs, flush_gateway_usage.        *)
FlushPart(i, ok) ==
  /\ worker = "flush"
  /\ Part(i) # {} /\ \A j \in 1..(i - 1) : Part(j) = {}
  /\ LET n == Cardinality(Part(i)) IN
       /\ in_flight' = in_flight - n
       /\ persisted' = persisted + IF ok THEN n ELSE 0
       /\ dropped' = dropped + IF ok THEN 0 ELSE n
       /\ bytes' = bytes - n
       /\ rejected_bytes' = rejected_bytes - Cardinality(Rejected(Part(i)))
  /\ pc' = [r \in Records |-> IF r \in Part(i) THEN (IF ok THEN "persisted" ELSE "dropped")
                                               ELSE pc[r]]
  /\ active' = active \ Part(i)
  /\ UNCHANGED <<kind, number, sequenceVars, sender, queue, slotVars, queued, workerVars,
                 controlVars, down, pruneVars>>

\* Faulty variant: only a batch with room left is gone on with, and the
\* answer is forgotten otherwise.
EndFlushForgetsReply ==
  /\ worker = "flush" /\ Where({"batched"}) = {}
  /\ IF reply_to # None /\ taken < BatchSize
     THEN /\ SetCall(reply_to, "answered")
          /\ reply_to' = None /\ worker' = "batch" /\ UNCHANGED taken
     ELSE /\ worker' = "idle" /\ taken' = 0 /\ reply_to' = None /\ UNCHANGED call
  /\ UNCHANGED <<wants, position, producerVars, sender, queue, down, pruneVars>>

(* Nothing is left: answer the control and go on with the batch, or wait   *)
(* for the next event.                                                     *)
EndFlush ==
  /\ worker = "flush" /\ Where({"batched"}) = {}
  /\ IF reply_to # None
     THEN /\ SetCall(reply_to, "answered")
          /\ reply_to' = None /\ worker' = "batch" /\ UNCHANGED taken
     ELSE /\ worker' = "idle" /\ taken' = 0 /\ UNCHANGED <<reply_to, call>>
  /\ UNCHANGED <<wants, position, producerVars, sender, queue, down, pruneVars>>

(* The interval or the permit of prune_wakeup.                             *)
Prune ==
  /\ worker = "idle" /\ (prune_permit \/ pruned # policy)
  /\ prune_permit' = FALSE
  /\ pruned' = policy
  /\ UNCHANGED <<policy, producerVars, sender, queue, workerVars, controlVars, down>>

(* A control that waits for a clear still holds its clone of the sender.   *)
Closed ==
  /\ ~sender
  /\ \A c \in Controls : ~(call[c] = "cloned" \/ (wants[c] = "clear" /\ call[c] = "waiting"))

(* recv returns None: the channel is closed and drained.                   *)
Drained ==
  /\ worker = "idle" /\ Closed /\ queue = <<>>
  /\ worker' = "stopped" /\ pruned' = policy
  /\ UNCHANGED <<taken, reply_to, producerVars, sender, queue, controlVars, down, policy,
                 prune_permit>>

-----------------------------------------------------------------------------
(* Configuration and shutdown.                                             *)

\* Faulty variant: the writer is told only while it waits.
UpdatePolicyTellsWaiter ==
  /\ policy < MaxRevision
  /\ policy' = policy + 1
  /\ prune_permit' = (prune_permit \/ worker = "idle")
  /\ UNCHANGED <<pruned, producerVars, sender, queue, workerVars, controlVars, down>>

(* update_policy with a newer revision and other limits.                   *)
UpdatePolicy ==
  /\ policy < MaxRevision
  /\ policy' = policy + 1
  /\ prune_permit' = TRUE
  /\ UNCHANGED <<pruned, producerVars, sender, queue, workerVars, controlVars, down>>

(* shutdown takes the sender once no thread is sending.                    *)
TakeSender ==
  /\ down = "no" /\ Where({"slot", "send"}) = {}
  /\ sender' = FALSE /\ down' = "joining"
  /\ UNCHANGED <<producerVars, queue, workerVars, controlVars, pruneVars>>

(* counters.writer_stopped and the end of the active list.                 *)
WriterStopped ==
  /\ queued' = 0 /\ in_flight' = 0 /\ dropped' = dropped + queued + in_flight
  /\ slots' = 0 /\ rejected_slots' = 0 /\ bytes' = 0 /\ rejected_bytes' = 0
  /\ active' = {} /\ down' = "done"
  /\ UNCHANGED persisted

Join ==
  /\ down = "joining" /\ worker = "stopped"
  /\ WriterStopped
  /\ UNCHANGED <<recordVars, sequenceVars, sender, queue, workerVars, controlVars, pruneVars>>

(* The shutdown timeout: the writer is aborted at an await, and everything *)
(* it or the channel still holds is dropped, the answers included.         *)
Abort ==
  /\ down = "joining" /\ Alive
  /\ worker' = "aborted" /\ taken' = 0 /\ reply_to' = None /\ queue' = <<>>
  /\ pc' = [r \in Records |-> IF pc[r] \in {"queued", "batched"} THEN "dropped" ELSE pc[r]]
  /\ call' = [c \in Controls |-> IF call[c] = "waiting" THEN "unavailable" ELSE call[c]]
  /\ WriterStopped
  /\ UNCHANGED <<kind, number, sequenceVars, sender, wants, position, pruneVars>>

Next ==
  \/ \E r \in Records : Begin(r) \/ Finish(r) \/ Admit(r) \/ Charge(r) \/ TrySend(r)
  \/ \E c \in Controls : Observe(c) \/ CloneSender(c) \/ SendControl(c)
  \/ Receive \/ EndBatch \/ EndFlush \/ Prune \/ Drained
  \/ \E i \in 1..3, ok \in BOOLEAN : FlushPart(i, ok)
  \/ UpdatePolicy \/ TakeSender \/ Join \/ Abort

(* The writer is a task that runs on, its repository answers, and a call   *)
(* that was started is polled to its end.                                  *)
Fairness ==
  /\ WF_vars(Receive) /\ WF_vars(EndBatch) /\ WF_vars(EndFlush)
  /\ WF_vars(Drained) /\ SF_vars(Prune /\ prune_permit)
  /\ \A i \in 1..3 : WF_vars(\E ok \in BOOLEAN : FlushPart(i, ok))
  /\ \A c \in Controls : WF_vars(CloneSender(c)) /\ SF_vars(SendControl(c))
Spec == Init /\ [][Next]_vars /\ Fairness

-----------------------------------------------------------------------------
(* What is queued, held and settled is what the counters say, on every     *)
(* path a record or a control can take: refusal at each limit, a full      *)
(* channel, failing storage, and an aborted writer.                        *)
Accounted ==
  /\ persisted + dropped = Cardinality(Where(Settled))
  /\ queued = Cardinality(Where({"send", "queued"}))
  /\ in_flight = Cardinality(Where({"batched"}))
  /\ down # "done" =>
       /\ slots = Cardinality(Where({"slot", "send", "queued"}))
                    + Cardinality({c \in Controls : \E i \in 1..Len(queue) : queue[i] = c})
       /\ rejected_slots = Cardinality(Rejected(Where({"slot", "send", "queued"})))
       /\ bytes = Cardinality(Where({"send", "queued", "batched"}))
       /\ rejected_bytes = Cardinality(Rejected(Where({"send", "queued", "batched"})))

(* A quota observation that was answered covers its position: every record *)
(* of an OAuth account numbered up to it is stored or given up, none is    *)
(* still under way to be counted twice.                                    *)
FenceCovers ==
  \A c \in Controls, r \in Records :
    (/\ wants[c] = "quota" /\ call[c] = "answered"
     /\ kind[r] = "oauth" /\ number[r] \in 1..position[c]) => pc[r] \in Settled

(* A request leaves the active list exactly when its record is settled:    *)
(* never a ghost that is already stored or dropped.                        *)
NoGhosts == \A r \in active : pc[r] \notin Settled

(* A clear and a quota observation return, whatever shutdown does, and new *)
(* limits are pruned to although the writer is busy when they arrive.      *)
WriterServes ==
  /\ \A c \in Controls : call[c] = "observed" ~> call[c] \in {"answered", "unavailable"}
  /\ \A v \in 1..MaxRevision : policy = v ~> (pruned >= v \/ ~Alive)
=============================================================================
