---------------------------- MODULE StreamCommit ----------------------------
(***************************************************************************)
(* A streaming response (public_request/stream, upstream/streaming.rs).    *)
(*                                                                         *)
(* A GuardedBody owns everything an attempt holds: the health permit, the  *)
(* credential's permit, the quota guard, the recorder of the attempt and   *)
(* the lease of a continuation.  It is primed first: frames are buffered   *)
(* until one of them means something to the client, and up to that point   *)
(* the attempt may fail and be retried elsewhere.  Then it is bound,       *)
(* handed to the client and polled; it ends by a terminal event, by the    *)
(* end of the upstream, by an error, by silence, or by being dropped.      *)
(*                                                                         *)
(* An event of the upstream is a record of what the pipeline looks at, and *)
(* a chunk is one event.  What the code does between two awaits may take   *)
(* several steps here, but Drop never comes between them (AtAwait).        *)
(***************************************************************************)
EXTENDS Naturals, Sequences, WellFoundedInduction, TLAPS

CONSTANTS
  MaxEvents,     \* bound on the events the upstream sends
  MaxBytes,      \* precommit byte budget, in events
  ResponseIds,   \* continuation ids the upstream may name
  None           \* no id

ASSUME BoundsAssumption == MaxEvents \in Nat /\ MaxBytes \in Nat
ASSUME NoneAssumption == None \notin ResponseIds

VARIABLES
  bridged,       \* the exchange has a continuation state of its own
  strict,        \* StreamCompletionPolicy::TerminalEventRequired
  phase,         \* priming, primed, bound, streaming or finished
  wire,          \* events the upstream has sent
  upstream_done, \* it has ended
  decoder_finished,
  pending,       \* frames for the client
  error,         \* kind of pending_error, or "none"
  failure,       \* precommit_upstream_failure is set
  ready,         \* precommit_commit_ready
  committed,     \* the precommit budget is committed
  used,          \* bytes charged to it
  late,          \* the precommit deadline has passed
  terminal_seen,
  lease,         \* continuation_lease is held
  response_id,   \* continuation_id
  staged,        \* precommit_continuation
  registry,      \* the affinity registry's entry of each id
  health,        \* held, or what was reported: success, failure, nothing
  permit,        \* the permit and the quota guard are held
  attempt,       \* outcomes the attempt recorder was given
  request,       \* outcomes the request recorder was given
  owns,          \* owns_request_completion
  seen,          \* response ids the client has received
  told,          \* it has received anything, or a completed response
  timer,         \* idle timer: off, armed or elapsed
  result         \* what priming returned

vars ==
  <<bridged, strict, phase, wire, upstream_done, decoder_finished, pending, error,
    failure, ready, committed, used, late, terminal_seen, lease, response_id, staged, registry,
    health, permit, attempt, request, owns, seen, told, timer, result>>
upstreamVars == <<wire, upstream_done>>
pipelineVars == <<pending, error, failure, ready, committed, used, terminal_seen>>
continuationVars == <<lease, response_id, staged, registry>>
guardVars == <<health, permit, attempt>>
clientVars == <<request, owns, seen, told, timer>>
choiceVars == <<bridged, strict>>

(* opaque: the event has content, or is not transparent to a retry.        *)
Terminations == {"none", "completed", "failed"}
Events == [opaque : BOOLEAN, end : Terminations, evidence : BOOLEAN,
           id : ResponseIds \cup {None}, state : {"stateless", "pending", "ready"},
           valid : BOOLEAN]
Terminal(event) == event.end # "none"

(* What the exchange can make of an upstream: a bridge's continuation is   *)
(* pending until it completes; only a failure carries evidence.            *)
Plausible(event) ==
  /\ event.state # "stateless" <=> bridged
  /\ event.evidence => event.end = "failed"
  /\ event.opaque => ~Terminal(event)
  /\ event.state = "ready" => event.end = "completed"
  /\ ~event.valid => event.id = None /\ event.end = "none" /\ ~event.opaque

-----------------------------------------------------------------------------
(* Guards.                                                                 *)

ReleaseLease ==
  /\ lease' = FALSE /\ staged' = "none"
  /\ registry' = IF lease /\ response_id # None /\ registry[response_id] = "pending"
                   THEN [registry EXCEPT ![response_id] = "none"] ELSE registry
  /\ UNCHANGED response_id

Report(outcome) == health' = IF health = "held" THEN outcome ELSE health
Record(outcome) == attempt' = Append(attempt, outcome)

(* GuardedBody::finish.  An error or a cancellation after the commit says  *)
(* nothing about the endpoint.                                             *)
Finish(outcome) ==
  /\ phase' = "finished" /\ upstream_done' = TRUE
  /\ ReleaseLease
  /\ Report(CASE outcome = "success" -> "success"
              [] outcome = "upstream_failure" -> "failure"
              [] OTHER -> "nothing")
  /\ Record(outcome)
  /\ request' = IF owns THEN Append(request, outcome) ELSE request
  /\ permit' = FALSE

(* finish_precommit_failure: what each kind of failure says about the      *)
(* endpoint.                                                               *)
PrecommitReport(kind) ==
  CASE kind \in {"transport", "invalid", "none"} -> "failure"
    [] kind \in {"budget", "local"} -> "success"
    [] kind = "timeout" -> "nothing"

\* A faulty variant: the lease is left to the registry's expiry.
PrecommitFailsKeepingLease(report, outcome, returned) ==
  /\ phase' = "finished" /\ upstream_done' = TRUE /\ result' = returned
  /\ UNCHANGED continuationVars
  /\ Report(report) /\ Record(outcome)
  /\ permit' = FALSE
  /\ UNCHANGED <<choiceVars, wire, decoder_finished, pipelineVars, late, clientVars>>

PrecommitFails(report, outcome, returned) ==
  /\ phase' = "finished" /\ upstream_done' = TRUE /\ result' = returned
  /\ ReleaseLease
  /\ Report(report) /\ Record(outcome)
  /\ permit' = FALSE
  /\ UNCHANGED <<choiceVars, wire, decoder_finished, pipelineVars, late, clientVars>>

-----------------------------------------------------------------------------
(* The frame pipeline.                                                     *)

SetError(kind) == error' = IF error = "none" THEN kind ELSE error

Conflicts(id) ==
  id # None /\ \/ response_id # None /\ response_id # id
               \/ \E k \in DOMAIN pending : pending[k].id # None /\ pending[k].id # id

(* commit_continuation_state, after the commit: an id without state is     *)
(* bound at once, one whose state is pending is leased, and a state that   *)
(* is ready is published.  bindable: what the registry answers.            *)
CommitContinuation(event, bindable) ==
  LET named     == event.id # None
      conflicts == named /\ response_id # None /\ event.id # response_id
      leases    == event.state = "pending" /\ named /\ ~lease
      publishes == event.state = "ready" /\ lease
      binds     == named /\ (event.state = "stateless" \/ (event.state = "ready" /\ ~lease))
      nameless  == event.state = "ready" /\ ~lease /\ ~named /\ response_id = None
  IN IF conflicts \/ nameless \/ ((leases \/ publishes \/ binds) /\ ~bindable)
       THEN SetError("local") /\ UNCHANGED continuationVars
       ELSE /\ registry' = CASE leases    -> [registry EXCEPT ![event.id] = "pending"]
                             [] publishes -> [registry EXCEPT ![response_id] = "ready"]
                             [] binds     -> [registry EXCEPT ![event.id] = "ready"]
                             [] OTHER     -> registry
            /\ response_id' = IF leases \/ binds THEN event.id ELSE response_id
            /\ lease' = (leases \/ (lease /\ ~publishes))
            /\ UNCHANGED <<staged, error>>

Incomplete(event) == event.end = "completed" /\ event.state = "pending"

CommitsStream(event) ==
  (event.opaque \/ Terminal(event))
  /\ ~(event.end = "failed" /\ event.evidence /\ ~ready)

(* push_event before the commit: deadline, budget and identities are       *)
(* checked, nothing is bound, and a failure the upstream reports before    *)
(* anything meant something is kept for the retry decision.                *)
PushDeferred(event) ==
  /\ UNCHANGED continuationVars
  /\ CASE late -> SetError("timeout") /\ UNCHANGED <<pending, failure, ready, used, terminal_seen>>
       [] ~late /\ (~event.valid \/ Incomplete(event)) ->
            SetError("invalid") /\ UNCHANGED <<pending, failure, ready, used, terminal_seen>>
       [] ~late /\ event.valid /\ ~Incomplete(event) /\ used + 1 > MaxBytes ->
            SetError("budget") /\ UNCHANGED <<pending, failure, ready, used, terminal_seen>>
       [] OTHER ->
            /\ used' = used + 1
            /\ IF Conflicts(event.id)
                 THEN SetError("local") /\ UNCHANGED <<pending, failure, ready, terminal_seen>>
                 ELSE /\ pending' = Append(pending, event)
                      /\ terminal_seen' = (terminal_seen \/ Terminal(event))
                      /\ failure' = (event.end = "failed" /\ event.evidence /\ ~ready)
                      /\ ready' = (ready \/ CommitsStream(event))
                      /\ UNCHANGED error
  /\ UNCHANGED committed

PushCommitted(event, bindable) ==
  /\ IF ~event.valid \/ Incomplete(event)
       THEN SetError("invalid") /\ UNCHANGED continuationVars
       ELSE CommitContinuation(event, bindable)
  /\ pending' = IF error' = error THEN Append(pending, event) ELSE pending
  /\ terminal_seen' = (terminal_seen \/ (error' = error /\ Terminal(event)))
  /\ UNCHANGED <<failure, ready, used, committed>>

PushEvent(event, bindable) ==
  IF committed THEN PushCommitted(event, bindable) ELSE PushDeferred(event)

(* finish_decoder: a stream that must end by a terminal event and did not  *)
(* is an invalid response.                                                 *)
FinishDecoder ==
  /\ decoder_finished' = TRUE
  /\ IF strict /\ ~terminal_seen THEN SetError("invalid") ELSE UNCHANGED error
  /\ UNCHANGED <<pending, failure, ready, committed, used, terminal_seen, continuationVars>>

-----------------------------------------------------------------------------
(* Priming.                                                                *)

PrimeOver == ready \/ failure \/ error # "none" \/ decoder_finished

(* Both loops poll the upstream only when nothing else is left to do.      *)
ReadsUpstream ==
  /\ ~upstream_done /\ error = "none"
  /\ \/ phase = "priming" /\ ~PrimeOver
     \/ phase = "streaming" /\ pending = <<>>

Chunk(event, bindable) ==
  /\ ReadsUpstream /\ wire < MaxEvents /\ Plausible(event)
  /\ wire' = wire + 1
  /\ PushEvent(event, bindable)
  /\ timer' = IF phase = "streaming" THEN "armed" ELSE timer
  /\ UNCHANGED <<choiceVars, phase, upstream_done, decoder_finished, late, guardVars,
                 request, owns, seen, told, result>>

TransportError ==
  /\ ReadsUpstream
  /\ SetError("transport")
  /\ UNCHANGED <<choiceVars, phase, upstreamVars, decoder_finished, pending, failure, ready,
                 committed, used, late, terminal_seen, continuationVars, guardVars, clientVars,
                 result>>

Eof ==
  /\ ReadsUpstream
  /\ upstream_done' = TRUE
  /\ UNCHANGED <<choiceVars, phase, wire, decoder_finished, pipelineVars, late,
                 continuationVars, guardVars, clientVars, result>>

(* What the decoder or the bridge still had in hand.                       *)
TailEvent(event, bindable) ==
  /\ phase \in {"priming", "streaming"} /\ upstream_done /\ ~decoder_finished
  /\ error = "none" /\ ~terminal_seen /\ wire < MaxEvents /\ Plausible(event)
  /\ wire' = wire + 1
  /\ PushEvent(event, bindable)
  /\ UNCHANGED <<choiceVars, phase, upstream_done, decoder_finished, late, guardVars,
                 clientVars, result>>

EndDecoder ==
  /\ phase \in {"priming", "streaming"} /\ upstream_done /\ ~decoder_finished
  /\ FinishDecoder
  /\ UNCHANGED <<choiceVars, phase, upstreamVars, late, guardVars, clientVars, result>>

DeadlinePasses ==
  /\ phase = "priming" /\ ~late
  /\ late' = TRUE
  /\ UNCHANGED <<choiceVars, phase, upstreamVars, decoder_finished, pipelineVars,
                 continuationVars, guardVars, clientVars, result>>

PrimeTimesOut ==
  /\ phase = "priming" /\ ReadsUpstream /\ late
  /\ SetError("timeout")
  /\ UNCHANGED <<choiceVars, phase, upstreamVars, decoder_finished, pending, failure, ready,
                 committed, used, late, terminal_seen, continuationVars, guardVars, clientVars,
                 result>>

-----------------------------------------------------------------------------
(* The end of prime_attempt.                                               *)

PrimeFailsUpstream ==
  /\ phase = "priming" /\ failure
  /\ PrecommitFails("failure", "upstream_failure", "retry")

PrimeFailsPublic ==
  /\ phase = "priming" /\ PrimeOver /\ ~failure
  /\ \/ error # "none" /\ ~ready
     \/ pending = <<>>
  /\ PrecommitFails(PrecommitReport(error), "error", "public")

(* commit_precommit_frames stages the continuation of the buffered frames  *)
(* one after the other: the first id takes a lease, the last state counts. *)
(* A state that is ready before any id was named has no place to go.       *)
Identified == {k \in DOMAIN pending : pending[k].id # None}
FirstId == CHOOSE k \in Identified : \A j \in Identified : k <= j
StagedState ==
  IF Identified = {} THEN "none"
  ELSE IF pending[Len(pending)].state = "pending" THEN "pending" ELSE "ready"
Unplaced ==
  \E k \in DOMAIN pending :
    pending[k].state = "ready" /\ \A j \in Identified : k < j

(* binding_error: the registry's shard was not reached before the          *)
(* deadline, or it refused; an error that is already pending stays.        *)
BindingFails(kind) ==
  PrecommitFails(PrecommitReport(IF error = "none" THEN kind ELSE error), "error", "public")

CommitFrames(bindable) ==
  /\ phase = "priming" /\ PrimeOver /\ ~failure /\ pending # <<>>
  /\ error # "none" => ready
  /\ IF Unplaced \/ (Identified # {} /\ ~bindable)
       THEN BindingFails("local") \/ (~bindable /\ BindingFails("timeout"))
       ELSE /\ phase' = "primed" /\ committed' = TRUE
            /\ staged' = StagedState
            /\ IF Identified = {} THEN UNCHANGED <<lease, response_id, registry>>
               ELSE /\ lease' = TRUE /\ response_id' = pending[FirstId].id
                    /\ registry' = [registry EXCEPT ![pending[FirstId].id] = "pending"]
            /\ result' = "primed"
            /\ UNCHANGED <<choiceVars, upstreamVars, decoder_finished, pending, error, failure,
                           ready, used, late, terminal_seen, guardVars, clientVars>>

(* commit_binding_before: the session's binding may be lost or the         *)
(* deadline missed; fail_before_handoff then says nothing of the endpoint. *)
BindSession ==
  /\ phase = "primed"
  /\ phase' = "bound"
  /\ UNCHANGED <<choiceVars, upstreamVars, decoder_finished, pipelineVars, late,
                 continuationVars, guardVars, clientVars, result>>

BindingLost ==
  /\ phase = "primed"
  /\ PrecommitFails("nothing", "error", "public")

\* A faulty variant: the client gets the stream before its continuation is bound.
HandOverUnbound(bindable) ==
  /\ phase = "bound"
  /\ phase' = "streaming" /\ owns' = TRUE
  /\ UNCHANGED <<choiceVars, upstreamVars, decoder_finished, pipelineVars, late,
                 continuationVars, guardVars, request, seen, told, timer, result>>

(* commit_precommit_continuation publishes a state that is ready, then     *)
(* into_stream hands the body to the client.                               *)
HandOver(bindable) ==
  /\ phase = "bound"
  /\ IF staged = "ready" /\ ~bindable
       THEN BindingFails("local") \/ BindingFails("timeout")
       ELSE /\ phase' = "streaming" /\ owns' = TRUE
            /\ staged' = "none"
            /\ IF staged = "ready"
                 THEN /\ registry' = [registry EXCEPT ![response_id] = "ready"]
                      /\ lease' = FALSE
                 ELSE UNCHANGED <<registry, lease>>
            /\ UNCHANGED <<choiceVars, upstreamVars, decoder_finished, pipelineVars, late,
                           response_id, guardVars, request, seen, told, timer, result>>

-----------------------------------------------------------------------------
(* poll_next.                                                              *)

Frozen == UNCHANGED <<choiceVars, wire, decoder_finished, failure, ready, committed, used,
                      late, terminal_seen, owns, result>>

\* A faulty variant: only a chunk arms the timer.
StartsNoTimer == UNCHANGED timer

StartIdleTimer == timer' = IF timer = "off" THEN "armed" ELSE timer

(* A terminal frame ends the stream in the poll that hands it out.         *)
DeliverFrame ==
  LET frame == Head(pending) IN
  /\ phase = "streaming" /\ pending # <<>>
  /\ pending' = Tail(pending)
  /\ seen' = seen \cup ({frame.id} \ {None})
  /\ told' = IF frame.end = "completed" THEN "completed" ELSE "something"
  /\ IF Terminal(frame)
       THEN /\ Finish(IF frame.end = "completed" THEN "success"
                      ELSE IF frame.evidence THEN "upstream_failure" ELSE "error")
            /\ timer' = "off"
       ELSE /\ StartIdleTimer
            /\ UNCHANGED <<phase, upstream_done, continuationVars, guardVars, request>>
  /\ UNCHANGED error /\ Frozen

DeliverError ==
  /\ phase = "streaming" /\ pending = <<>> /\ error # "none"
  /\ Finish("error")
  /\ error' = "none"
  /\ UNCHANGED <<pending, seen, told, timer>> /\ Frozen

DeliverEnd ==
  /\ phase = "streaming" /\ pending = <<>> /\ error = "none"
  /\ upstream_done /\ decoder_finished
  /\ Finish("success")
  /\ UNCHANGED <<pending, error, seen, told, timer>> /\ Frozen

TimerElapses ==
  /\ phase = "streaming" /\ timer = "armed"
  /\ timer' = "elapsed"
  /\ UNCHANGED <<choiceVars, phase, upstreamVars, decoder_finished, pipelineVars, late,
                 continuationVars, guardVars, request, owns, seen, told, result>>

IdleTimeout ==
  /\ phase = "streaming" /\ ReadsUpstream /\ timer = "elapsed"
  /\ SetError("transport")
  /\ UNCHANGED <<choiceVars, phase, upstreamVars, decoder_finished, pending, failure, ready,
                 committed, used, late, terminal_seen, continuationVars, guardVars, clientVars,
                 result>>

(* The future that primes, or the client's body, is dropped.               *)
AtAwait ==
  \/ phase = "priming" /\ ReadsUpstream
  \/ phase = "streaming" /\ (upstream_done => decoder_finished)

\* A faulty variant: Drop does not look at the state.
DropTwice ==
  /\ \/ AtAwait
     \/ phase = "finished" /\ Len(attempt) < 2
  /\ Finish("cancelled")
  /\ UNCHANGED <<pending, error, seen, told, timer>> /\ Frozen

Drop ==
  /\ AtAwait
  /\ Finish("cancelled")
  /\ UNCHANGED <<pending, error, seen, told, timer>> /\ Frozen

-----------------------------------------------------------------------------
Init ==
  /\ bridged \in BOOLEAN /\ strict \in BOOLEAN
  /\ phase = "priming" /\ wire = 0
  /\ upstream_done = FALSE /\ decoder_finished = FALSE
  /\ pending = <<>> /\ error = "none" /\ failure = FALSE /\ ready = FALSE
  /\ committed = FALSE /\ used = 0 /\ late = FALSE /\ terminal_seen = FALSE
  /\ lease = FALSE /\ response_id = None /\ staged = "none"
  /\ registry = [i \in ResponseIds |-> "none"]
  /\ health = "held" /\ permit = TRUE /\ attempt = <<>>
  /\ request = <<>> /\ owns = FALSE /\ seen = {} /\ told = "nothing" /\ timer = "off" /\ result = "none"

Poll ==
  \/ EndDecoder \/ DeliverFrame \/ DeliverError \/ DeliverEnd \/ IdleTimeout

Next ==
  \/ Poll \/ Eof \/ TransportError \/ DeadlinePasses \/ PrimeTimesOut
  \/ PrimeFailsUpstream \/ PrimeFailsPublic \/ BindSession \/ BindingLost
  \/ TimerElapses \/ Drop
  \/ \E bindable \in BOOLEAN :
       \/ CommitFrames(bindable) \/ HandOver(bindable)
       \/ \E event \in Events : Chunk(event, bindable) \/ TailEvent(event, bindable)

(* The client polls, timers fire.  The upstream owes nothing.              *)
Spec == Init /\ [][Next]_vars /\ WF_vars(Poll) /\ WF_vars(TimerElapses)

-----------------------------------------------------------------------------
TypeOK ==
  /\ phase \in {"priming", "primed", "bound", "streaming", "finished"}
  /\ error \in {"none", "transport", "invalid", "budget", "timeout", "local"}
  /\ staged \in {"none", "pending", "ready"}
  /\ \A i \in ResponseIds : registry[i] \in {"none", "pending", "ready"}
  /\ health \in {"held", "success", "failure", "nothing"}
  /\ wire \in 0..MaxEvents /\ used \in 0..MaxBytes

(* However a stream ends, each guard is settled exactly once: one outcome  *)
(* for the attempt, one for the request if the client had the body and     *)
(* none if not, the permit and the lease released and nothing left pending *)
(* in the registry; and an attempt that will be retried has shown the      *)
(* client nothing and bound nothing.                                       *)
SettledOnce ==
  IF phase = "finished"
    THEN /\ Len(attempt) = 1 /\ health # "held" /\ ~permit /\ ~lease
         /\ Len(request) = (IF owns THEN 1 ELSE 0)
         /\ \A i \in ResponseIds : registry[i] # "pending"
         /\ result \in {"retry", "public"} =>
              told = "nothing" /\ ~owns /\ \A i \in ResponseIds : registry[i] = "none"
    ELSE attempt = <<>> /\ request = <<>> /\ health = "held" /\ permit

(* When the client has seen that its response is complete, or any frame    *)
(* that names a response without state, the response can be continued: the *)
(* id is bound in the registry before the frame leaves, across the commit. *)
BoundBeforeSeen ==
  told = "completed" \/ ~bridged => \A i \in seen : registry[i] = "ready"

(* A body the client keeps polling ends, even when the upstream falls      *)
(* silent after any frame.                                                 *)
StreamsEnd == (phase = "streaming") ~> (phase = "finished")
-----------------------------------------------------------------------------
(* Proofs.  SettledOnce is not inductive: what a finished stream owes      *)
(* depends on what it held before, and an error before the handoff leaves  *)
(* the registry empty only because nothing was published until then.       *)

TypeOKStrong ==
  /\ TypeOK
  /\ registry \in [ResponseIds -> {"none", "pending", "ready"}]
  /\ lease \in BOOLEAN /\ owns \in BOOLEAN /\ permit \in BOOLEAN

(* A pending entry belongs to the lease this stream holds.                 *)
PendingIsLeased ==
  \A i \in ResponseIds : registry[i] = "pending" => lease /\ i = response_id

(* Until the handoff the client owns nothing, was told nothing, and no     *)
(* entry is published; while frames are buffered nothing is even leased.   *)
NothingBeforeHandoff ==
  /\ phase = "priming" => ~lease /\ ~committed
  /\ phase \in {"priming", "primed", "bound"} =>
       ~owns /\ told = "nothing" /\ \A i \in ResponseIds : registry[i] # "ready"

StreamInvariant ==
  /\ TypeOKStrong
  /\ PendingIsLeased
  /\ NothingBeforeHandoff
  /\ phase # "finished" => result \in {"none", "primed"}
  /\ SettledOnce

(* Releasing the lease leaves nothing pending, and nothing at all if       *)
(* nothing was published.                                                  *)
LEMMA ReleaseClearsPending ==
  ASSUME TypeOKStrong, PendingIsLeased, ReleaseLease
  PROVE  /\ registry' \in [ResponseIds -> {"none", "pending", "ready"}]
         /\ ~lease' /\ lease' \in BOOLEAN /\ staged' = "none"
         /\ \A i \in ResponseIds : registry'[i] # "pending"
         /\ (\A i \in ResponseIds : registry[i] # "ready") =>
              \A i \in ResponseIds : registry'[i] = "none"
<1>1. registry' \in [ResponseIds -> {"none", "pending", "ready"}]
  BY DEF TypeOKStrong, ReleaseLease
<1>2. ASSUME NEW i \in ResponseIds
      PROVE  /\ registry'[i] # "pending"
             /\ registry[i] # "ready" => registry'[i] = "none"
  <2>1. CASE registry[i] = "pending"
    <3>1. lease /\ i = response_id
      BY <2>1 DEF PendingIsLeased
    <3>2. i # None
      BY NoneAssumption
    <3>3. registry' = [registry EXCEPT ![i] = "none"]
      BY <2>1, <3>1, <3>2 DEF ReleaseLease
    <3> QED
      BY <2>1, <3>3 DEF TypeOKStrong
  <2>2. CASE registry[i] # "pending"
    <3>1. registry'[i] \in {registry[i], "none"}
      BY DEF ReleaseLease, TypeOKStrong
    <3> QED
      BY <2>2, <3>1 DEF TypeOKStrong
  <2> QED
    BY <2>1, <2>2
<1> QED
  BY <1>1, <1>2 DEF ReleaseLease

(* finish() settles everything a live stream holds.                        *)
LEMMA FinishSettles ==
  ASSUME StreamInvariant, NEW outcome, phase \in {"priming", "streaming"}, Finish(outcome),
         error' \in {error, "none"},
         UNCHANGED <<wire, used, owns, result>>
  PROVE  StreamInvariant'
<1>1. /\ registry' \in [ResponseIds -> {"none", "pending", "ready"}]
      /\ ~lease' /\ lease' \in BOOLEAN /\ staged' = "none"
      /\ \A i \in ResponseIds : registry'[i] # "pending"
  BY ReleaseClearsPending DEF StreamInvariant, Finish
<1>2. attempt = <<>> /\ request = <<>> /\ health = "held" /\ result \in {"none", "primed"}
  BY DEF StreamInvariant, SettledOnce
<1>3. health' \in {"success", "failure", "nothing"}
  BY <1>2 DEF Finish, Report
<1>4. Len(attempt') = 1
  BY <1>2 DEF Finish, Record
<1>5. Len(request') = (IF owns' THEN 1 ELSE 0)
  BY <1>2 DEF Finish
<1>6. phase' = "finished" /\ permit' = FALSE
  BY DEF Finish
<1>7. SettledOnce'
  BY <1>1, <1>2, <1>3, <1>4, <1>5, <1>6 DEF SettledOnce
<1>8. TypeOKStrong'
  BY <1>1, <1>3, <1>6 DEF StreamInvariant, TypeOKStrong, TypeOK
<1> QED
  BY <1>1, <1>6, <1>7, <1>8 DEF StreamInvariant, PendingIsLeased, NothingBeforeHandoff

(* A failure before the handoff settles the attempt, and leaves neither a  *)
(* binding nor a client that was told anything.                            *)
LEMMA PrecommitFailureSettles ==
  ASSUME StreamInvariant, NEW report \in {"success", "failure", "nothing"},
         NEW outcome, NEW returned, phase \in {"priming", "primed", "bound"},
         PrecommitFails(report, outcome, returned)
  PROVE  StreamInvariant'
<1>1. /\ registry' \in [ResponseIds -> {"none", "pending", "ready"}]
      /\ ~lease' /\ lease' \in BOOLEAN /\ staged' = "none"
      /\ \A i \in ResponseIds : registry'[i] = "none"
  BY ReleaseClearsPending DEF StreamInvariant, NothingBeforeHandoff, PrecommitFails
<1>2. /\ attempt = <<>> /\ request = <<>> /\ health = "held"
      /\ ~owns /\ told = "nothing"
  BY DEF StreamInvariant, SettledOnce, NothingBeforeHandoff
<1>3. health' = report /\ attempt' = <<outcome>>
  BY <1>2 DEF PrecommitFails, Report, Record
<1>4. /\ request' = request /\ owns' = owns /\ told' = told
      /\ phase' = "finished" /\ permit' = FALSE
      /\ error' = error /\ wire' = wire /\ used' = used
  BY DEF PrecommitFails, clientVars, pipelineVars
<1>5. SettledOnce'
  BY <1>1, <1>2, <1>3, <1>4 DEF SettledOnce
<1>6. TypeOKStrong'
  BY <1>1, <1>3, <1>4 DEF StreamInvariant, TypeOKStrong, TypeOK
<1> QED
  BY <1>1, <1>4, <1>5, <1>6 DEF StreamInvariant, PendingIsLeased, NothingBeforeHandoff

LEMMA ReportsAreReports ==
  ASSUME NEW kind \in {"none", "transport", "invalid", "budget", "timeout", "local"}
  PROVE  PrecommitReport(kind) \in {"success", "failure", "nothing"}
BY DEF PrecommitReport

(* After the commit an event may move the lease, publish or bind, and      *)
(* never leaves a pending entry without its lease.                         *)
LEMMA CommitKeepsTheLease ==
  ASSUME TypeOKStrong, PendingIsLeased, NEW event \in Events, NEW bindable \in BOOLEAN,
         CommitContinuation(event, bindable)
  PROVE  /\ registry' \in [ResponseIds -> {"none", "pending", "ready"}]
         /\ lease' \in BOOLEAN /\ staged' = staged
         /\ error' \in {error, "local"}
         /\ PendingIsLeased'
<1> USE NoneAssumption
<1> DEFINE named     == event.id # None
           conflicts == named /\ response_id # None /\ event.id # response_id
           leases    == event.state = "pending" /\ named /\ ~lease
           publishes == event.state = "ready" /\ lease
           binds     == named /\ (event.state = "stateless" \/ (event.state = "ready" /\ ~lease))
<1>1. event.id \in ResponseIds \cup {None}
  BY DEF Events
<1>2. CASE UNCHANGED continuationVars /\ error' \in {error, "local"}
  BY <1>2 DEF continuationVars, TypeOKStrong, PendingIsLeased
<1>3. CASE /\ ~conflicts
           /\ registry' = CASE leases    -> [registry EXCEPT ![event.id] = "pending"]
                            [] publishes -> [registry EXCEPT ![response_id] = "ready"]
                            [] binds     -> [registry EXCEPT ![event.id] = "ready"]
                            [] OTHER     -> registry
           /\ response_id' = IF leases \/ binds THEN event.id ELSE response_id
           /\ lease' = (leases \/ (lease /\ ~publishes))
           /\ UNCHANGED <<staged, error>>
  <2>1. CASE leases
    <3>1. /\ registry' = [registry EXCEPT ![event.id] = "pending"]
          /\ response_id' = event.id /\ lease' = TRUE /\ ~lease
      BY <1>3, <2>1
    <3> QED
      BY <1>1, <1>3, <3>1 DEF TypeOKStrong, PendingIsLeased
  <2>2. CASE publishes
    <3>1. /\ registry' = [registry EXCEPT ![response_id] = "ready"]
          /\ response_id' = response_id /\ lease' = FALSE
      BY <1>3, <2>2
    <3> QED
      BY <1>3, <3>1 DEF TypeOKStrong, PendingIsLeased
  <2>3. CASE binds
    <3>1. /\ registry' = [registry EXCEPT ![event.id] = "ready"]
          /\ response_id' = event.id /\ lease' = lease
          /\ response_id # None => event.id = response_id
      BY <1>3, <2>3 DEF TypeOKStrong
    <3> QED
      BY <1>1, <1>3, <3>1 DEF TypeOKStrong, PendingIsLeased
  <2>4. CASE ~leases /\ ~publishes /\ ~binds
    <3>1. registry' = registry /\ response_id' = response_id /\ lease' = lease
      BY <1>3, <2>4 DEF TypeOKStrong
    <3> QED
      BY <1>3, <3>1 DEF TypeOKStrong, PendingIsLeased
  <2> QED
    BY <2>1, <2>2, <2>3, <2>4
<1> QED
  BY <1>2, <1>3 DEF CommitContinuation, SetError

(* An event, buffered or committed, keeps the types and the lease; before  *)
(* the commit it binds nothing.                                            *)
LEMMA PushKeepsTheLease ==
  ASSUME TypeOKStrong, PendingIsLeased, NEW event \in Events, NEW bindable \in BOOLEAN,
         PushEvent(event, bindable)
  PROVE  /\ registry' \in [ResponseIds -> {"none", "pending", "ready"}]
         /\ lease' \in BOOLEAN /\ staged' = staged
         /\ error' \in {error, "local", "timeout", "invalid", "budget"}
         /\ used' \in 0..MaxBytes /\ committed' = committed
         /\ PendingIsLeased'
         /\ ~committed => UNCHANGED continuationVars
<1>1. CASE committed
  <2>1. PushCommitted(event, bindable)
    BY <1>1 DEF PushEvent
  <2>2. used' = used /\ committed' = committed /\ used \in 0..MaxBytes
    BY <2>1 DEF PushCommitted, TypeOKStrong, TypeOK
  <2>3. CASE ~event.valid \/ Incomplete(event)
    <3>1. UNCHANGED continuationVars /\ error' \in {error, "invalid"}
      BY <2>1, <2>3 DEF PushCommitted, SetError
    <3> QED
      BY <1>1, <2>2, <3>1 DEF continuationVars, TypeOKStrong, PendingIsLeased
  <2>4. CASE ~(~event.valid \/ Incomplete(event))
    <3>1. CommitContinuation(event, bindable)
      BY <2>1, <2>4 DEF PushCommitted
    <3> QED
      BY <1>1, <2>2, <3>1, CommitKeepsTheLease
  <2> QED
    BY <2>3, <2>4
<1>2. CASE ~committed
  <2>1. PushDeferred(event)
    BY <1>2 DEF PushEvent
  <2>2. UNCHANGED continuationVars /\ committed' = committed
    BY <2>1 DEF PushDeferred
  <2>3. used' = used \/ (used' = used + 1 /\ ~(used + 1 > MaxBytes))
    BY <2>1 DEF PushDeferred
  <2>4. error' \in {error, "local", "timeout", "invalid", "budget"}
    BY <2>1 DEF PushDeferred, SetError
  <2>5. used' \in 0..MaxBytes
    BY <2>3, BoundsAssumption DEF TypeOKStrong, TypeOK
  <2> QED
    BY <2>2, <2>4, <2>5 DEF continuationVars, TypeOKStrong, PendingIsLeased
<1> QED
  BY <1>1, <1>2

(* A step that neither ends the stream nor hands it over.                  *)
LEMMA QuietStep ==
  ASSUME StreamInvariant, phase # "finished", phase' = phase,
         UNCHANGED <<guardVars, request, owns, result, committed>>,
         UNCHANGED continuationVars,
         told' = told \/ phase = "streaming",
         error' \in {"none", "transport", "invalid", "budget", "timeout", "local"},
         wire' \in 0..MaxEvents, used' \in 0..MaxBytes
  PROVE  StreamInvariant'
<1>1. TypeOKStrong'
  BY DEF StreamInvariant, TypeOKStrong, TypeOK, guardVars, continuationVars
<1>2. PendingIsLeased'
  BY DEF StreamInvariant, PendingIsLeased, continuationVars
<1>3. NothingBeforeHandoff'
  BY DEF StreamInvariant, NothingBeforeHandoff, continuationVars
<1>4. SettledOnce'
  BY DEF StreamInvariant, SettledOnce, guardVars
<1> QED
  BY <1>1, <1>2, <1>3, <1>4 DEF StreamInvariant

LEMMA EventStep ==
  ASSUME StreamInvariant, NEW event \in Events, NEW bindable \in BOOLEAN,
         Chunk(event, bindable) \/ TailEvent(event, bindable)
  PROVE  StreamInvariant'
<1>1. /\ phase \in {"priming", "streaming"} /\ phase' = phase
      /\ wire < MaxEvents /\ wire' = wire + 1
      /\ PushEvent(event, bindable)
      /\ UNCHANGED guardVars
      /\ request' = request /\ owns' = owns /\ told' = told /\ result' = result
  BY DEF Chunk, TailEvent, ReadsUpstream, clientVars
<1>2. wire' \in 0..MaxEvents
  BY <1>1, BoundsAssumption DEF StreamInvariant, TypeOKStrong, TypeOK
<1>3. /\ registry' \in [ResponseIds -> {"none", "pending", "ready"}]
      /\ lease' \in BOOLEAN /\ staged' = staged
      /\ error' \in {error, "local", "timeout", "invalid", "budget"}
      /\ used' \in 0..MaxBytes /\ committed' = committed
      /\ PendingIsLeased'
      /\ ~committed => UNCHANGED continuationVars
  BY <1>1, PushKeepsTheLease DEF StreamInvariant
<1>4. CASE phase = "priming"
  <2>1. UNCHANGED continuationVars
    BY <1>3, <1>4 DEF StreamInvariant, NothingBeforeHandoff
  <2> QED
    BY <1>1, <1>2, <1>3, <1>4, <2>1, QuietStep DEF StreamInvariant, TypeOKStrong, TypeOK
<1>5. CASE phase = "streaming"
  <2>1. TypeOKStrong'
    BY <1>1, <1>2, <1>3 DEF StreamInvariant, TypeOKStrong, TypeOK, guardVars
  <2>2. SettledOnce'
    BY <1>1, <1>5 DEF StreamInvariant, SettledOnce, guardVars
  <2> QED
    BY <1>1, <1>3, <1>5, <2>1, <2>2 DEF StreamInvariant, NothingBeforeHandoff
<1> QED
  BY <1>1, <1>4, <1>5

LEMMA CommitStep ==
  ASSUME StreamInvariant, NEW bindable \in BOOLEAN, CommitFrames(bindable)
  PROVE  StreamInvariant'
<1>1. phase = "priming"
  BY DEF CommitFrames
<1>2. CASE Unplaced \/ (Identified # {} /\ ~bindable)
  <2>1. PICK kind \in {"none", "transport", "invalid", "budget", "timeout", "local"} :
          PrecommitFails(PrecommitReport(kind), "error", "public")
    <3>1. PICK cause \in {"local", "timeout"} : BindingFails(cause)
      BY <1>2 DEF CommitFrames
    <3> DEFINE kind == IF error = "none" THEN cause ELSE error
    <3>2. kind \in {"none", "transport", "invalid", "budget", "timeout", "local"}
      BY DEF StreamInvariant, TypeOKStrong, TypeOK
    <3>3. PrecommitFails(PrecommitReport(kind), "error", "public")
      BY <3>1 DEF BindingFails
    <3> HIDE DEF kind
    <3> QED
      BY <3>2, <3>3
  <2> QED
    BY <1>1, <2>1, ReportsAreReports, PrecommitFailureSettles
<1>3. CASE ~(Unplaced \/ (Identified # {} /\ ~bindable))
  <2>1. /\ phase' = "primed" /\ committed' = TRUE /\ staged' = StagedState
        /\ \/ UNCHANGED <<lease, response_id, registry>>
           \/ /\ lease' = TRUE /\ response_id' = pending[FirstId].id
              /\ registry' = [registry EXCEPT ![pending[FirstId].id] = "pending"]
        /\ result' = "primed" /\ UNCHANGED guardVars
        /\ wire' = wire /\ error' = error /\ used' = used
        /\ request' = request /\ owns' = owns /\ told' = told
    BY <1>3 DEF CommitFrames, upstreamVars, clientVars
  <2>2. /\ ~lease /\ ~owns /\ told = "nothing"
        /\ \A i \in ResponseIds : registry[i] = "none"
    BY <1>1 DEF StreamInvariant, NothingBeforeHandoff, PendingIsLeased, TypeOKStrong
  <2>3. staged' \in {"none", "pending", "ready"}
    BY <2>1 DEF StagedState
  <2>4. /\ registry' \in [ResponseIds -> {"none", "pending", "ready"}]
        /\ lease' \in BOOLEAN /\ PendingIsLeased'
        /\ \A i \in ResponseIds : registry'[i] # "ready"
    BY <2>1, <2>2 DEF StreamInvariant, TypeOKStrong, PendingIsLeased
  <2>5. TypeOKStrong'
    BY <2>1, <2>3, <2>4 DEF StreamInvariant, TypeOKStrong, TypeOK, guardVars
  <2>6. SettledOnce'
    BY <1>1, <2>1 DEF StreamInvariant, SettledOnce, guardVars
  <2> QED
    BY <2>1, <2>2, <2>4, <2>5, <2>6 DEF StreamInvariant, NothingBeforeHandoff
<1> QED
  BY <1>2, <1>3

LEMMA HandOverStep ==
  ASSUME StreamInvariant, NEW bindable \in BOOLEAN, HandOver(bindable)
  PROVE  StreamInvariant'
<1>1. phase = "bound"
  BY DEF HandOver
<1>2. CASE staged = "ready" /\ ~bindable
  <2>1. PICK kind \in {"none", "transport", "invalid", "budget", "timeout", "local"} :
          PrecommitFails(PrecommitReport(kind), "error", "public")
    <3>1. PICK cause \in {"local", "timeout"} : BindingFails(cause)
      BY <1>2 DEF HandOver
    <3> DEFINE kind == IF error = "none" THEN cause ELSE error
    <3>2. kind \in {"none", "transport", "invalid", "budget", "timeout", "local"}
      BY DEF StreamInvariant, TypeOKStrong, TypeOK
    <3>3. PrecommitFails(PrecommitReport(kind), "error", "public")
      BY <3>1 DEF BindingFails
    <3> HIDE DEF kind
    <3> QED
      BY <3>2, <3>3
  <2> QED
    BY <1>1, <2>1, ReportsAreReports, PrecommitFailureSettles
<1>3. CASE ~(staged = "ready" /\ ~bindable)
  <2>1. /\ phase' = "streaming" /\ owns' = TRUE /\ staged' = "none"
        /\ response_id' = response_id
        /\ \/ registry' = [registry EXCEPT ![response_id] = "ready"] /\ lease' = FALSE
           \/ UNCHANGED <<registry, lease>>
        /\ UNCHANGED guardVars
        /\ wire' = wire /\ error' = error /\ used' = used
        /\ request' = request /\ told' = told /\ result' = result
    BY <1>3 DEF HandOver, upstreamVars, pipelineVars
  <2>2. /\ registry' \in [ResponseIds -> {"none", "pending", "ready"}]
        /\ lease' \in BOOLEAN /\ PendingIsLeased'
    BY <2>1 DEF StreamInvariant, TypeOKStrong, PendingIsLeased
  <2>3. TypeOKStrong'
    BY <2>1, <2>2 DEF StreamInvariant, TypeOKStrong, TypeOK, guardVars
  <2>4. SettledOnce'
    BY <1>1, <2>1 DEF StreamInvariant, SettledOnce, guardVars
  <2> QED
    BY <1>1, <2>1, <2>2, <2>3, <2>4 DEF StreamInvariant, NothingBeforeHandoff
<1> QED
  BY <1>2, <1>3

LEMMA DeliveryStep ==
  ASSUME StreamInvariant, DeliverFrame
  PROVE  StreamInvariant'
<1> DEFINE frame == Head(pending)
<1>1. /\ phase = "streaming" /\ error' = error
      /\ UNCHANGED <<wire, used, owns, result, committed>>
  BY DEF DeliverFrame, Frozen
<1>2. CASE Terminal(frame)
  <2>1. PICK outcome : Finish(outcome)
    BY <1>2 DEF DeliverFrame
  <2> QED
    BY <1>1, <2>1, FinishSettles
<1>3. CASE ~Terminal(frame)
  <2>1. UNCHANGED <<phase, upstream_done, continuationVars, guardVars, request>>
    BY <1>3 DEF DeliverFrame
  <2> QED
    BY <1>1, <2>1, QuietStep DEF StreamInvariant, TypeOKStrong, TypeOK
<1> QED
  BY <1>2, <1>3

LEMMA EndingStep ==
  ASSUME StreamInvariant, DeliverError \/ DeliverEnd \/ Drop
  PROVE  StreamInvariant'
<1>1. /\ phase \in {"priming", "streaming"} /\ error' \in {error, "none"}
      /\ UNCHANGED <<wire, used, owns, result>>
  BY DEF DeliverError, DeliverEnd, Drop, AtAwait, Frozen
<1>2. PICK outcome : Finish(outcome)
  BY DEF DeliverError, DeliverEnd, Drop
<1> QED
  BY <1>1, <1>2, FinishSettles

LEMMA PrimeFailureStep ==
  ASSUME StreamInvariant, PrimeFailsUpstream \/ PrimeFailsPublic \/ BindingLost
  PROVE  StreamInvariant'
<1>1. CASE PrimeFailsUpstream
  BY <1>1, PrecommitFailureSettles DEF PrimeFailsUpstream
<1>2. CASE PrimeFailsPublic
  <2>1. PrecommitReport(error) \in {"success", "failure", "nothing"}
    BY ReportsAreReports DEF StreamInvariant, TypeOKStrong, TypeOK
  <2> QED
    BY <1>2, <2>1, PrecommitFailureSettles DEF PrimeFailsPublic
<1>3. CASE BindingLost
  BY <1>3, PrecommitFailureSettles DEF BindingLost
<1> QED
  BY <1>1, <1>2, <1>3

LEMMA BindStep ==
  ASSUME StreamInvariant, BindSession
  PROVE  StreamInvariant'
<1>1. /\ phase = "primed" /\ phase' = "bound" /\ UNCHANGED guardVars
      /\ UNCHANGED continuationVars /\ wire' = wire /\ error' = error /\ used' = used
      /\ request' = request /\ owns' = owns /\ told' = told /\ result' = result
  BY DEF BindSession, upstreamVars, pipelineVars, clientVars
<1>2. TypeOKStrong'
  BY <1>1 DEF StreamInvariant, TypeOKStrong, TypeOK, guardVars, continuationVars
<1>3. PendingIsLeased' /\ NothingBeforeHandoff'
  BY <1>1 DEF StreamInvariant, PendingIsLeased, NothingBeforeHandoff, continuationVars
<1>4. SettledOnce'
  BY <1>1 DEF StreamInvariant, SettledOnce, guardVars
<1> QED
  BY <1>1, <1>2, <1>3, <1>4 DEF StreamInvariant

LEMMA ReadStep ==
  ASSUME StreamInvariant,
         \/ Eof \/ TransportError \/ DeadlinePasses \/ PrimeTimesOut
         \/ EndDecoder \/ IdleTimeout \/ TimerElapses
  PROVE  StreamInvariant'
<1>1. /\ phase # "finished" /\ phase' = phase
      /\ UNCHANGED <<guardVars, request, owns, result, committed>>
      /\ UNCHANGED continuationVars
      /\ told' = told /\ wire' = wire /\ used' = used
  BY DEF Eof, TransportError, DeadlinePasses, PrimeTimesOut, EndDecoder, IdleTimeout,
         TimerElapses, ReadsUpstream, FinishDecoder, upstreamVars, pipelineVars, clientVars
<1>2. error' \in {error, "transport", "timeout", "invalid"}
  BY DEF Eof, TransportError, DeadlinePasses, PrimeTimesOut, EndDecoder, IdleTimeout,
         TimerElapses, FinishDecoder, SetError, pipelineVars
<1> QED
  BY <1>1, <1>2, QuietStep DEF StreamInvariant, TypeOKStrong, TypeOK

(* The invariant of a stream: types, leases, and what is settled when.     *)
THEOREM StreamInvariantHolds == Spec => []StreamInvariant
<1>1. Init => StreamInvariant
  <2> SUFFICES ASSUME Init PROVE StreamInvariant
    OBVIOUS
  <2>1. registry \in [ResponseIds -> {"none", "pending", "ready"}]
    BY DEF Init
  <2>2. \A i \in ResponseIds : registry[i] = "none"
    BY DEF Init
  <2>3. TypeOKStrong
    <3>1. wire \in 0..MaxEvents /\ used \in 0..MaxBytes
      BY BoundsAssumption DEF Init
    <3>2. lease \in BOOLEAN /\ owns \in BOOLEAN /\ permit \in BOOLEAN
      BY Zenon DEF Init
    <3>3. /\ phase = "priming" /\ error = "none" /\ staged = "none" /\ health = "held"
      BY DEF Init
    <3> QED
      BY <2>1, <2>2, <3>1, <3>2, <3>3 DEF TypeOKStrong, TypeOK
  <2>4. PendingIsLeased /\ NothingBeforeHandoff
    BY <2>2 DEF Init, PendingIsLeased, NothingBeforeHandoff
  <2>5. SettledOnce /\ result \in {"none", "primed"}
    BY DEF Init, SettledOnce
  <2> QED
    BY <2>3, <2>4, <2>5 DEF StreamInvariant
<1>2. StreamInvariant /\ [Next]_vars => StreamInvariant'
  <2> SUFFICES ASSUME StreamInvariant, [Next]_vars
               PROVE  StreamInvariant'
    OBVIOUS
  <2>1. CASE \/ Eof \/ TransportError \/ DeadlinePasses \/ PrimeTimesOut
             \/ EndDecoder \/ IdleTimeout \/ TimerElapses
    BY <2>1, ReadStep
  <2>2. CASE DeliverFrame
    BY <2>2, DeliveryStep
  <2>3. CASE DeliverError \/ DeliverEnd \/ Drop
    BY <2>3, EndingStep
  <2>4. CASE PrimeFailsUpstream \/ PrimeFailsPublic \/ BindingLost
    BY <2>4, PrimeFailureStep
  <2>5. CASE BindSession
    BY <2>5, BindStep
  <2>6. ASSUME NEW bindable \in BOOLEAN, CommitFrames(bindable) PROVE StreamInvariant'
    BY <2>6, CommitStep
  <2>7. ASSUME NEW bindable \in BOOLEAN, HandOver(bindable) PROVE StreamInvariant'
    BY <2>7, HandOverStep
  <2>8. ASSUME NEW bindable \in BOOLEAN, NEW event \in Events,
               Chunk(event, bindable) \/ TailEvent(event, bindable)
        PROVE  StreamInvariant'
    BY <2>8, EventStep
  <2>9. CASE UNCHANGED vars
    BY <2>9
       DEF vars, StreamInvariant, TypeOKStrong, TypeOK, PendingIsLeased, NothingBeforeHandoff,
           SettledOnce
  <2> QED
    BY <2>1, <2>2, <2>3, <2>4, <2>5, <2>6, <2>7, <2>8, <2>9 DEF Next, Poll
<1> QED
  BY <1>1, <1>2, PTL DEF Spec

(* However a stream ends (a terminal frame, the end of the upstream, an    *)
(* error, silence, a failure before the handoff, or the drop of its body), *)
(* its guards are settled exactly once, no continuation is left pending,   *)
(* and an attempt given back for a retry has shown and bound nothing.      *)
THEOREM EveryEndSettlesOnce == Spec => []SettledOnce
BY StreamInvariantHolds, PTL DEF StreamInvariant

-----------------------------------------------------------------------------
(* What the client can see of its continuation.                            *)

Completed(k) == pending[k].end = "completed"

(* Frames are what the exchange can make of an upstream, and none of them  *)
(* completes a response whose state is still pending.                      *)
FramesOK ==
  /\ pending \in Seq(Events)
  /\ \A k \in DOMAIN pending : Plausible(pending[k]) /\ ~Incomplete(pending[k])
  /\ response_id \in ResponseIds \cup {None}

(* While frames are buffered they name one response at most, and one that  *)
(* completes it is the last.                                               *)
BufferedFrames ==
  phase = "priming" =>
    /\ response_id = None
    /\ \A j, k \in Identified : pending[j].id = pending[k].id
    /\ \A k \in DOMAIN pending : Completed(k) => ready /\ terminal_seen /\ k = Len(pending)

(* Once committed, a named response is leased, and what is staged says     *)
(* what the handoff will publish.                                          *)
StagedFrames ==
  phase \in {"primed", "bound"} =>
    /\ response_id # None => lease
    /\ lease => response_id # None /\ staged # "none"
    /\ staged = "pending" => bridged /\ \A k \in DOMAIN pending : ~Completed(k)

CommittedFrames ==
  phase \in {"primed", "bound", "streaming"} =>
    /\ committed
    /\ \A k \in DOMAIN pending :
         /\ pending[k].id \in {None, response_id}
         /\ Completed(k) => terminal_seen

(* In the client's hands, a response that is named and no longer leased is *)
(* published, and one that is leased belongs to a bridge and is not        *)
(* complete.                                                               *)
StreamedFrames ==
  phase = "streaming" =>
    /\ told # "completed" /\ seen \subseteq {response_id}
    /\ response_id # None /\ ~lease => registry[response_id] = "ready"
    /\ lease => /\ bridged /\ response_id # None
                /\ \A k \in DOMAIN pending : ~Completed(k)

ContinuationInvariant ==
  /\ FramesOK
  /\ BufferedFrames
  /\ StagedFrames
  /\ CommittedFrames
  /\ StreamedFrames
  /\ None \notin seen
  /\ phase \in {"priming", "primed", "bound"} => seen = {}
  /\ BoundBeforeSeen

(* Both invariants are about one stream; the second rests on the first.    *)
Both == StreamInvariant /\ ContinuationInvariant

LEMMA FirstNamed ==
  ASSUME pending \in Seq(Events), Identified # {}
  PROVE  FirstId \in Identified
<1> DEFINE R == OpToRel(<, Nat)
<1>1. IsWellFoundedOn(R, Nat)
  BY NatLessThanWellFounded
<1>2. \A j, k \in Nat : j < k => <<j, k>> \in R
  BY DEF OpToRel
<1> HIDE DEF R
<1>3. Identified \subseteq Nat
  BY DEF Identified
<1>4. PICK k \in Identified : \A j \in Identified : ~(<<j, k>> \in R)
  BY <1>1, <1>3, WFMin
<1>5. \A j \in Identified : j \in Nat /\ k \in Nat /\ ~(j < k)
  BY <1>2, <1>3, <1>4, Zenon
<1>6. \A j \in Identified : k <= j
  BY <1>5
<1> QED
  BY <1>6 DEF FirstId

(* A step that touches neither the frames nor the continuation.            *)
LEMMA QuietFrames ==
  ASSUME ContinuationInvariant,
         UNCHANGED <<bridged, phase, pending, ready, committed, terminal_seen, lease, response_id,
                     staged, registry, seen, told>>
  PROVE  ContinuationInvariant'
<1>1. FramesOK' /\ BufferedFrames'
  BY DEF ContinuationInvariant, FramesOK, BufferedFrames, Plausible, Incomplete, Identified, Completed
<1>2. StagedFrames' /\ CommittedFrames' /\ StreamedFrames'
  BY DEF ContinuationInvariant, StagedFrames, CommittedFrames, StreamedFrames, Completed
<1>3. BoundBeforeSeen'
  BY DEF ContinuationInvariant, BoundBeforeSeen
<1> QED
  BY <1>1, <1>2, <1>3 DEF ContinuationInvariant

(* A stream that ends: all that is left to show is what the client saw.    *)
LEMMA EndedFrames ==
  ASSUME ContinuationInvariant, phase' = "finished", bridged' = bridged, response_id' = response_id,
         \/ pending' = pending
         \/ pending # <<>> /\ pending' = Tail(pending),
         BoundBeforeSeen', None \notin seen'
  PROVE  ContinuationInvariant'
<1>1. /\ pending' \in Seq(Events)
      /\ \A k \in DOMAIN pending' : \E j \in DOMAIN pending : pending'[k] = pending[j]
  BY DEF ContinuationInvariant, FramesOK
<1>2. FramesOK'
  BY <1>1 DEF ContinuationInvariant, FramesOK, Plausible, Incomplete, Terminal
<1> QED
  BY <1>2 DEF ContinuationInvariant, BufferedFrames, StagedFrames, CommittedFrames, StreamedFrames

(* A failure before the handoff: the client has seen no id.                *)
LEMMA PrecommitFailureShowsNothing ==
  ASSUME Both, NEW report, NEW outcome, NEW returned, phase \in {"priming", "primed", "bound"},
         PrecommitFails(report, outcome, returned)
  PROVE  ContinuationInvariant'
<1>1. /\ phase' = "finished" /\ bridged' = bridged /\ response_id' = response_id
      /\ pending' = pending /\ seen' = seen /\ seen = {}
  BY DEF PrecommitFails, ReleaseLease, choiceVars, pipelineVars, clientVars, Both,
         ContinuationInvariant
<1>2. BoundBeforeSeen'
  BY <1>1 DEF BoundBeforeSeen
<1> QED
  BY <1>1, <1>2, EndedFrames DEF Both, ContinuationInvariant

(* finish() in the client's hands: what was seen stays bound, since only a *)
(* leased entry is withdrawn.                                              *)
LEMMA FinishKeepsWhatWasSeen ==
  ASSUME Both, NEW outcome, phase \in {"priming", "streaming"}, Finish(outcome),
         bridged' = bridged,
         \/ /\ pending' = pending /\ seen' = seen /\ told' = told
         \/ /\ phase = "streaming" /\ pending # <<>> /\ pending' = Tail(pending)
            /\ seen' = seen \cup ({Head(pending).id} \ {None})
            /\ told' = "completed" => Head(pending).end = "completed"
  PROVE  ContinuationInvariant'
<1>1. phase' = "finished" /\ response_id' = response_id
  BY DEF Finish, ReleaseLease
<1>2. ~lease => registry' = registry
  BY DEF Finish, ReleaseLease
<1>3. None \notin seen'
  BY DEF Both, ContinuationInvariant
<1>4. BoundBeforeSeen'
  <2>1. CASE phase = "priming"
    BY <2>1 DEF Both, ContinuationInvariant, BoundBeforeSeen
  <2>2. CASE phase = "streaming"
    <3>1. pending # <<>> => 1 \in DOMAIN pending /\ Head(pending) = pending[1]
      BY DEF Both, ContinuationInvariant, FramesOK
    <3>2. seen' \subseteq {response_id} /\ None \notin seen'
      BY <1>3, <2>2, <3>1 DEF Both, ContinuationInvariant, StreamedFrames, CommittedFrames
    <3>3. CASE ~lease
      <4>1. response_id # None => registry'[response_id] = "ready"
        BY <1>2, <2>2, <3>3 DEF Both, ContinuationInvariant, StreamedFrames
      <4> QED
        BY <3>2, <4>1 DEF BoundBeforeSeen
    <3>4. CASE lease
      <4>1. bridged /\ told # "completed" /\ (pending # <<>> => Head(pending).end # "completed")
        BY <2>2, <3>1, <3>4 DEF Both, ContinuationInvariant, StreamedFrames, Completed
      <4>2. told' # "completed" /\ bridged'
        BY <4>1
      <4> QED
        BY <4>2 DEF BoundBeforeSeen
    <3> QED
      BY <3>3, <3>4 DEF Both, StreamInvariant, TypeOKStrong
  <2> QED
    BY <2>1, <2>2
<1> QED
  BY <1>1, <1>3, <1>4, EndedFrames DEF Both

LEMMA DeliveryShowsWhatIsBound ==
  ASSUME Both, DeliverFrame
  PROVE  ContinuationInvariant'
<1> DEFINE frame == Head(pending)
<1>1. /\ phase = "streaming" /\ pending # <<>> /\ pending' = Tail(pending)
      /\ seen' = seen \cup ({frame.id} \ {None})
      /\ told' = IF frame.end = "completed" THEN "completed" ELSE "something"
      /\ bridged' = bridged /\ committed' = committed /\ terminal_seen' = terminal_seen
      /\ ready' = ready
  BY DEF DeliverFrame, Frozen, choiceVars
<1>2. CASE Terminal(frame)
  <2>1. PICK outcome : Finish(outcome)
    BY <1>2 DEF DeliverFrame
  <2> QED
    BY <1>1, <2>1, FinishKeepsWhatWasSeen
<1>3. CASE ~Terminal(frame)
  <2>1. phase' = phase /\ UNCHANGED <<lease, response_id, staged, registry>>
    BY <1>3 DEF DeliverFrame, continuationVars
  <2>2. frame.end = "none"
    BY <1>3 DEF Terminal
  <2>3. /\ pending' \in Seq(Events)
        /\ \A k \in DOMAIN pending' : \E j \in DOMAIN pending : pending'[k] = pending[j]
        /\ 1 \in DOMAIN pending /\ frame = pending[1]
    BY <1>1 DEF Both, ContinuationInvariant, FramesOK
  <2>4. FramesOK'
    BY <1>1, <2>1, <2>3 DEF Both, ContinuationInvariant, FramesOK, Plausible, Incomplete, Terminal
  <2>5. CommittedFrames'
    BY <1>1, <2>1, <2>3 DEF Both, ContinuationInvariant, CommittedFrames, Completed
  <2>6. seen' \subseteq {response_id} /\ None \notin seen' /\ told' = "something"
    BY <1>1, <2>2, <2>3 DEF Both, ContinuationInvariant, CommittedFrames, StreamedFrames
  <2>7. StreamedFrames'
    BY <1>1, <2>1, <2>3, <2>6 DEF Both, ContinuationInvariant, StreamedFrames, Completed
  <2>8. BoundBeforeSeen'
    <3>1. ~bridged => ~lease
      BY <1>1 DEF Both, ContinuationInvariant, StreamedFrames
    <3> QED
      BY <1>1, <2>1, <2>6, <3>1 DEF Both, ContinuationInvariant, StreamedFrames, BoundBeforeSeen
  <2> QED
    BY <1>1, <2>1, <2>4, <2>5, <2>6, <2>7, <2>8
       DEF ContinuationInvariant, BufferedFrames, StagedFrames
<1> QED
  BY <1>2, <1>3

LEMMA HandOverBinds ==
  ASSUME Both, NEW bindable \in BOOLEAN, HandOver(bindable)
  PROVE  ContinuationInvariant'
<1>1. phase = "bound"
  BY DEF HandOver
<1>2. CASE staged = "ready" /\ ~bindable
  <2>1. PICK report : PrecommitFails(report, "error", "public")
    BY <1>2 DEF HandOver, BindingFails
  <2> QED
    BY <1>1, <2>1, PrecommitFailureShowsNothing
<1>3. CASE ~(staged = "ready" /\ ~bindable)
  <2>1. /\ phase' = "streaming" /\ bridged' = bridged /\ response_id' = response_id
        /\ pending' = pending /\ committed' = committed /\ terminal_seen' = terminal_seen
        /\ seen' = seen /\ told' = told
        /\ IF staged = "ready"
             THEN registry' = [registry EXCEPT ![response_id] = "ready"] /\ lease' = FALSE
             ELSE registry' = registry /\ lease' = lease
    BY <1>3 DEF HandOver, choiceVars, pipelineVars
  <2>2. seen = {} /\ told = "nothing" /\ registry \in [ResponseIds -> {"none", "pending", "ready"}]
    BY <1>1 DEF Both, StreamInvariant, TypeOKStrong, NothingBeforeHandoff, ContinuationInvariant
  <2>3. FramesOK'
    BY <2>1 DEF Both, ContinuationInvariant, FramesOK, Plausible, Incomplete, Terminal
  <2>4. CommittedFrames'
    BY <1>1, <2>1 DEF Both, ContinuationInvariant, CommittedFrames, Completed
  <2>5. StreamedFrames'
    <3>1. CASE staged = "ready"
      BY <2>1, <2>2, <3>1
         DEF Both, ContinuationInvariant, StreamedFrames, FramesOK
    <3>2. CASE staged # "ready"
      <4>1. /\ response_id # None => lease
            /\ lease => staged = "pending"
        BY <1>1, <3>2 DEF Both, StreamInvariant, TypeOKStrong, TypeOK, ContinuationInvariant,
                          StagedFrames
      <4> QED
        BY <1>1, <2>1, <2>2, <3>2, <4>1
           DEF Both, ContinuationInvariant, StagedFrames, StreamedFrames, Completed
    <3> QED
      BY <3>1, <3>2
  <2> QED
    BY <2>1, <2>2, <2>3, <2>4, <2>5
       DEF ContinuationInvariant, BufferedFrames, StagedFrames, BoundBeforeSeen
<1> QED
  BY <1>2, <1>3

LEMMA CommitStagesTheResponse ==
  ASSUME Both, NEW bindable \in BOOLEAN, CommitFrames(bindable)
  PROVE  ContinuationInvariant'
<1>1. phase = "priming" /\ pending # <<>>
  BY DEF CommitFrames
<1>2. CASE Unplaced \/ (Identified # {} /\ ~bindable)
  <2>1. PICK report : PrecommitFails(report, "error", "public")
    BY <1>2 DEF CommitFrames, BindingFails
  <2> QED
    BY <1>1, <2>1, PrecommitFailureShowsNothing
<1>3. CASE ~(Unplaced \/ (Identified # {} /\ ~bindable))
  <2>1. /\ phase' = "primed" /\ committed' = TRUE /\ staged' = StagedState
        /\ IF Identified = {} THEN UNCHANGED <<lease, response_id, registry>>
           ELSE lease' = TRUE /\ response_id' = pending[FirstId].id
        /\ bridged' = bridged /\ pending' = pending /\ terminal_seen' = terminal_seen
        /\ seen' = seen
    BY <1>3 DEF CommitFrames, choiceVars, clientVars
  <2>2. seen = {} /\ ~lease /\ response_id = None
    BY <1>1 DEF Both, StreamInvariant, NothingBeforeHandoff, ContinuationInvariant, BufferedFrames
  <2>3. pending \in Seq(Events) /\ Len(pending) \in DOMAIN pending
    BY <1>1 DEF Both, ContinuationInvariant, FramesOK
  <2>4. ASSUME NEW k \in DOMAIN pending
        PROVE  pending[k].id \in ResponseIds \cup {None}
    <3>1. pending[k] \in Events
      BY <2>3
    <3> QED
      BY <3>1 DEF Events
  <2>5. \A k \in DOMAIN pending : pending[k].id \in {None, response_id'}
    <3>1. CASE Identified = {}
      BY <3>1 DEF Identified
    <3>2. CASE Identified # {}
      <4>1. FirstId \in Identified
        BY <2>3, <3>2, FirstNamed
      <4>2. \A k \in Identified : pending[k].id = pending[FirstId].id
        BY <1>1, <4>1 DEF Both, ContinuationInvariant, BufferedFrames
      <4> QED
        BY <2>1, <3>2, <4>2 DEF Identified
    <3> QED
      BY <3>1, <3>2
  <2>6. response_id' \in ResponseIds \cup {None}
    <3>1. CASE Identified = {}
      BY <2>1, <2>2, <3>1
    <3>2. CASE Identified # {}
      <4>1. FirstId \in DOMAIN pending
        BY <2>3, <3>2, FirstNamed DEF Identified
      <4> QED
        BY <2>1, <2>4, <3>2, <4>1
    <3> QED
      BY <3>1, <3>2
  <2>7. FramesOK'
    BY <2>1, <2>6 DEF Both, ContinuationInvariant, FramesOK, Plausible, Incomplete, Terminal
  <2>8. CommittedFrames'
    BY <1>1, <2>1, <2>5 DEF Both, ContinuationInvariant, BufferedFrames, CommittedFrames, Completed
  <2>9. StagedFrames'
    <3>1. Identified = {} => lease' = lease /\ response_id' = None /\ staged' = "none"
      BY <2>1, <2>2 DEF StagedState
    <3>2. Identified # {} => lease' /\ response_id' # None /\ staged' # "none"
      BY <2>1, <2>3, FirstNamed DEF StagedState, Identified
    <3>3. staged' = "pending" => pending[Len(pending)].state = "pending"
      BY <2>1 DEF StagedState
    <3>4. ASSUME pending[Len(pending)].state = "pending"
          PROVE  bridged /\ \A k \in DOMAIN pending : ~Completed(k)
      <4>1. bridged /\ ~Completed(Len(pending))
        BY <2>3, <3>4 DEF Both, ContinuationInvariant, FramesOK, Plausible, Incomplete, Completed
      <4> QED
        BY <1>1, <4>1 DEF Both, ContinuationInvariant, BufferedFrames
    <3> QED
      BY <2>1, <2>2, <3>1, <3>2, <3>3, <3>4 DEF StagedFrames, Completed
  <2> QED
    BY <2>1, <2>2, <2>7, <2>8, <2>9
       DEF ContinuationInvariant, BufferedFrames, StreamedFrames, BoundBeforeSeen
<1> QED
  BY <1>2, <1>3

(* An event that is buffered names the response the others name, and comes *)
(* after none that completes it.                                           *)
LEMMA BufferedEvent ==
  ASSUME Both, phase = "priming", NEW event \in Events, NEW bindable \in BOOLEAN,
         Chunk(event, bindable) \/ TailEvent(event, bindable)
  PROVE  ContinuationInvariant'
<1>1. /\ phase' = phase /\ bridged' = bridged /\ seen' = seen /\ told' = told
      /\ Plausible(event) /\ (~ready \/ ~terminal_seen)
      /\ PushEvent(event, bindable)
  BY DEF Chunk, TailEvent, ReadsUpstream, PrimeOver, choiceVars, clientVars
<1>2. ~committed
  BY DEF Both, StreamInvariant, NothingBeforeHandoff
<1>3. PushDeferred(event)
  BY <1>1, <1>2 DEF PushEvent
<1>4. /\ UNCHANGED <<lease, response_id, staged, registry, committed>>
      /\ \/ UNCHANGED <<pending, ready, terminal_seen>>
         \/ /\ event.valid /\ ~Incomplete(event) /\ ~Conflicts(event.id)
            /\ pending' = Append(pending, event)
            /\ terminal_seen' = (terminal_seen \/ Terminal(event))
            /\ ready' = (ready \/ CommitsStream(event))
  BY <1>3 DEF PushDeferred, continuationVars
<1>5. CASE UNCHANGED <<pending, ready, terminal_seen>>
  BY <1>1, <1>4, <1>5, QuietFrames DEF Both
<1>6. CASE /\ event.valid /\ ~Incomplete(event) /\ ~Conflicts(event.id)
           /\ pending' = Append(pending, event)
           /\ terminal_seen' = (terminal_seen \/ Terminal(event))
           /\ ready' = (ready \/ CommitsStream(event))
  <2>1. pending \in Seq(Events) /\ response_id = None /\ seen = {}
    BY DEF Both, ContinuationInvariant, FramesOK, BufferedFrames
  <2>2. /\ pending' \in Seq(Events) /\ Len(pending') = Len(pending) + 1
        /\ \A k \in DOMAIN pending' :
             \/ k \in DOMAIN pending /\ pending'[k] = pending[k]
             \/ k = Len(pending') /\ pending'[k] = event
    BY <1>6, <2>1
  <2>3. FramesOK'
    <3>1. \A k \in DOMAIN pending : Plausible(pending[k]) /\ ~Incomplete(pending[k])
      BY DEF Both, ContinuationInvariant, FramesOK
    <3>2. \A k \in DOMAIN pending' : Plausible(pending'[k]) /\ ~Incomplete(pending'[k])
      BY <1>1, <1>6, <2>2, <3>1
    <3>3. \A k \in DOMAIN pending' : (Plausible(pending[k]) /\ ~Incomplete(pending[k]))'
      BY <1>1, <3>2 DEF Plausible, Incomplete, Terminal
    <3> QED
      BY <1>4, <2>1, <2>2, <3>3 DEF FramesOK
  <2>4. \A k \in DOMAIN pending : event.id # None /\ pending[k].id # None => pending[k].id = event.id
    BY <1>6 DEF Conflicts
  <2>5. \A j, k \in DOMAIN pending' :
          pending'[j].id # None /\ pending'[k].id # None => pending'[j].id = pending'[k].id
    <3>1. \A j, k \in DOMAIN pending :
            pending[j].id # None /\ pending[k].id # None => pending[j].id = pending[k].id
      BY DEF Both, ContinuationInvariant, BufferedFrames, Identified
    <3> QED
      BY <2>2, <2>4, <3>1
  <2>6. \A k \in DOMAIN pending : pending[k].end # "completed"
    BY <1>1 DEF Both, ContinuationInvariant, BufferedFrames, Completed
  <2>7. event.end = "completed" => ready' /\ terminal_seen'
    BY <1>6 DEF CommitsStream, Terminal
  <2>8. BufferedFrames'
    BY <1>4, <2>1, <2>2, <2>5, <2>6, <2>7 DEF BufferedFrames, Identified, Completed
  <2> QED
    BY <1>1, <2>1, <2>3, <2>8
       DEF ContinuationInvariant, StagedFrames, CommittedFrames, StreamedFrames, BoundBeforeSeen
<1> QED
  BY <1>4, <1>5, <1>6

(* An event of a committed stream is bound as far as it says, before its   *)
(* frame is queued.                                                        *)
LEMMA CommittedEvent ==
  ASSUME Both, phase = "streaming", NEW event \in Events, NEW bindable \in BOOLEAN,
         Chunk(event, bindable) \/ TailEvent(event, bindable)
  PROVE  ContinuationInvariant'
<1> USE NoneAssumption
<1>1. /\ phase' = phase /\ bridged' = bridged /\ seen' = seen /\ told' = told
      /\ Plausible(event) /\ error = "none" /\ (pending = <<>> \/ ~terminal_seen)
      /\ PushEvent(event, bindable)
  BY DEF Chunk, TailEvent, ReadsUpstream, choiceVars, clientVars
<1>2. committed
  BY DEF Both, ContinuationInvariant, CommittedFrames
<1>3. PushCommitted(event, bindable)
  BY <1>1, <1>2 DEF PushEvent
<1>4. committed' = committed /\ ready' = ready
  BY <1>3 DEF PushCommitted
<1>5. CASE error' # error /\ UNCHANGED continuationVars
  <2>1. pending' = pending /\ (terminal_seen' <=> terminal_seen)
    BY <1>3, <1>5 DEF PushCommitted
  <2> QED
    BY <1>1, <1>4, <1>5, <2>1
       DEF Both, continuationVars, ContinuationInvariant, FramesOK, BufferedFrames, StagedFrames,
           CommittedFrames, StreamedFrames, BoundBeforeSeen, Plausible, Incomplete, Completed
<1> DEFINE named     == event.id # None
           conflicts == named /\ response_id # None /\ event.id # response_id
           leases    == event.state = "pending" /\ named /\ ~lease
           publishes == event.state = "ready" /\ lease
           binds     == named /\ (event.state = "stateless" \/ (event.state = "ready" /\ ~lease))
<1>6. CASE /\ event.valid /\ ~Incomplete(event) /\ ~conflicts
           /\ registry' = CASE leases    -> [registry EXCEPT ![event.id] = "pending"]
                            [] publishes -> [registry EXCEPT ![response_id] = "ready"]
                            [] binds     -> [registry EXCEPT ![event.id] = "ready"]
                            [] OTHER     -> registry
           /\ response_id' = IF leases \/ binds THEN event.id ELSE response_id
           /\ lease' = (leases \/ (lease /\ ~publishes))
           /\ staged' = staged /\ error' = error
  <2>1. /\ pending' = Append(pending, event)
        /\ terminal_seen \/ Terminal(event) => terminal_seen'
    BY <1>3, <1>6 DEF PushCommitted
  <2>2. /\ registry \in [ResponseIds -> {"none", "pending", "ready"}] /\ lease \in BOOLEAN
        /\ pending \in Seq(Events) /\ response_id \in ResponseIds \cup {None}
    BY DEF Both, StreamInvariant, TypeOKStrong, ContinuationInvariant, FramesOK
  <2>3. /\ event.id \in ResponseIds \cup {None} /\ event.state \in {"stateless", "pending", "ready"}
    BY DEF Events
  <2>4. /\ pending' \in Seq(Events)
        /\ \A k \in DOMAIN pending' :
             \/ k \in DOMAIN pending /\ pending'[k] = pending[k]
             \/ pending'[k] = event
    BY <2>1, <2>2
  <2>5. \A k \in DOMAIN pending : pending[k].end # "completed"
    BY <1>1 DEF Both, ContinuationInvariant, CommittedFrames, Completed
  <2>6. lease => bridged /\ response_id # None
    BY DEF Both, ContinuationInvariant, StreamedFrames
  <2>7. /\ response_id' \in ResponseIds \cup {None}
        /\ response_id # None => response_id' = response_id
        /\ event.id \in {None, response_id'}
    BY <1>6, <2>2, <2>3, <2>6
  <2>8. response_id' # None /\ ~lease' => registry'[response_id'] = "ready"
    <3>1. CASE leases
      BY <1>6, <3>1
    <3>2. CASE publishes
      <4>1. registry' = [registry EXCEPT ![response_id] = "ready"] /\ response_id' = response_id
        BY <1>6, <3>2
      <4> QED
        BY <2>2, <4>1
    <3>3. CASE binds
      <4>1. registry' = [registry EXCEPT ![event.id] = "ready"] /\ response_id' = event.id
        BY <1>6, <3>3
      <4> QED
        BY <2>2, <2>3, <3>3, <4>1
    <3>4. CASE ~leases /\ ~publishes /\ ~binds
      <4>1. registry' = registry /\ response_id' = response_id /\ lease' = lease
        BY <1>6, <2>2, <3>4
      <4> QED
        BY <4>1 DEF Both, ContinuationInvariant, StreamedFrames
    <3> QED
      BY <3>1, <3>2, <3>3, <3>4
  <2>9. lease' => bridged /\ response_id' # None /\ event.end # "completed"
    <3>1. event.state # "stateless" <=> bridged
      BY <1>1 DEF Plausible
    <3>2. event.state = "pending" => event.end # "completed"
      BY <1>6 DEF Incomplete
    <3> QED
      BY <1>6, <2>2, <2>3, <2>6, <2>7, <3>1, <3>2
  <2>10. FramesOK'
    <3>1. \A k \in DOMAIN pending : Plausible(pending[k]) /\ ~Incomplete(pending[k])
      BY DEF Both, ContinuationInvariant, FramesOK
    <3>2. \A k \in DOMAIN pending' : Plausible(pending'[k]) /\ ~Incomplete(pending'[k])
      BY <1>1, <1>6, <2>4, <3>1
    <3>3. \A k \in DOMAIN pending' : (Plausible(pending[k]) /\ ~Incomplete(pending[k]))'
      BY <1>1, <3>2 DEF Plausible, Incomplete, Terminal
    <3> QED
      BY <2>4, <2>7, <3>3 DEF FramesOK
  <2>11. CommittedFrames'
    <3>1. \A k \in DOMAIN pending : pending[k].id \in {None, response_id}
      BY DEF Both, ContinuationInvariant, CommittedFrames
    <3>2. \A k \in DOMAIN pending' : pending'[k].id \in {None, response_id'}
      BY <2>4, <2>7, <3>1
    <3>3. \A k \in DOMAIN pending' : pending'[k].end = "completed" => terminal_seen'
      BY <2>1, <2>4, <2>5 DEF Terminal
    <3> QED
      BY <1>2, <1>4, <3>2, <3>3 DEF CommittedFrames, Completed
  <2>12. told # "completed" /\ seen \subseteq {response_id'} /\ None \notin seen
    BY <2>7 DEF Both, ContinuationInvariant, StreamedFrames
  <2>13. StreamedFrames'
    BY <1>1, <2>4, <2>5, <2>8, <2>9, <2>12 DEF StreamedFrames, Completed
  <2>14. BoundBeforeSeen'
    BY <1>1, <2>8, <2>9, <2>12 DEF BoundBeforeSeen
  <2> QED
    BY <1>1, <2>10, <2>11, <2>12, <2>13, <2>14
       DEF ContinuationInvariant, BufferedFrames, StagedFrames
<1>7. CASE ~event.valid \/ Incomplete(event)
  <2>1. SetError("invalid") /\ UNCHANGED continuationVars
    BY <1>3, <1>7 DEF PushCommitted
  <2> QED
    BY <1>1, <1>5, <2>1 DEF SetError
<1>8. CASE ~(~event.valid \/ Incomplete(event))
  <2>1. CommitContinuation(event, bindable)
    BY <1>3, <1>8 DEF PushCommitted
  <2>2. CASE SetError("local") /\ UNCHANGED continuationVars
    BY <1>1, <1>5, <2>2 DEF SetError
  <2>3. CASE ~(SetError("local") /\ UNCHANGED continuationVars)
    BY <1>6, <1>8, <2>1, <2>3 DEF CommitContinuation
  <2> QED
    BY <2>2, <2>3
<1> QED
  BY <1>7, <1>8

(* The client never sees an id it cannot continue from: the invariant of   *)
(* the frames and of the binding, from the first buffered event to the end.*)
THEOREM ContinuationInvariantHolds == Spec => []ContinuationInvariant
<1>1. Init => ContinuationInvariant
  BY DEF Init, ContinuationInvariant, FramesOK, BufferedFrames, StagedFrames, CommittedFrames,
         StreamedFrames, BoundBeforeSeen, Identified
<1>2. Both /\ [Next]_vars => ContinuationInvariant'
  <2> SUFFICES ASSUME Both, [Next]_vars
               PROVE  ContinuationInvariant'
    OBVIOUS
  <2>1. CASE \/ Eof \/ TransportError \/ DeadlinePasses \/ PrimeTimesOut
             \/ EndDecoder \/ IdleTimeout \/ TimerElapses
    <3>1. UNCHANGED <<bridged, phase, pending, ready, committed, terminal_seen, lease,
                      response_id, staged, registry, seen, told>>
      BY <2>1 DEF Eof, TransportError, DeadlinePasses, PrimeTimesOut, EndDecoder, IdleTimeout,
         TimerElapses, FinishDecoder, choiceVars, pipelineVars, continuationVars, clientVars
    <3> QED
      BY <3>1, QuietFrames DEF Both
  <2>2. CASE DeliverFrame
    BY <2>2, DeliveryShowsWhatIsBound
  <2>3. CASE DeliverError \/ DeliverEnd \/ Drop
    <3>1. /\ phase \in {"priming", "streaming"} /\ bridged' = bridged
          /\ pending' = pending /\ seen' = seen /\ told' = told
      BY <2>3 DEF DeliverError, DeliverEnd, Drop, AtAwait, Frozen, choiceVars
    <3>2. PICK outcome : Finish(outcome)
      BY <2>3 DEF DeliverError, DeliverEnd, Drop
    <3> QED
      BY <3>1, <3>2, FinishKeepsWhatWasSeen
  <2>4. CASE PrimeFailsUpstream \/ PrimeFailsPublic \/ BindingLost
    BY <2>4, PrecommitFailureShowsNothing DEF PrimeFailsUpstream, PrimeFailsPublic, BindingLost
  <2>5. CASE BindSession
    <3>1. /\ phase = "primed" /\ phase' = "bound"
          /\ UNCHANGED <<bridged, pending, ready, committed, terminal_seen, lease,
                         response_id, staged, registry, seen, told>>
      BY <2>5 DEF BindSession, choiceVars, pipelineVars, continuationVars, clientVars
    <3> QED
      BY <3>1 DEF Both, ContinuationInvariant, FramesOK, BufferedFrames, StagedFrames, CommittedFrames,
                  StreamedFrames, BoundBeforeSeen, Plausible, Incomplete, Terminal, Completed
  <2>6. ASSUME NEW bindable \in BOOLEAN, CommitFrames(bindable) PROVE ContinuationInvariant'
    BY <2>6, CommitStagesTheResponse
  <2>7. ASSUME NEW bindable \in BOOLEAN, HandOver(bindable) PROVE ContinuationInvariant'
    BY <2>7, HandOverBinds
  <2>8. ASSUME NEW bindable \in BOOLEAN, NEW event \in Events,
               Chunk(event, bindable) \/ TailEvent(event, bindable)
        PROVE  ContinuationInvariant'
    <3>1. phase \in {"priming", "streaming"}
      BY <2>8 DEF Chunk, TailEvent, ReadsUpstream
    <3> QED
      BY <2>8, <3>1, BufferedEvent, CommittedEvent
  <2>9. CASE UNCHANGED vars
    BY <2>9, QuietFrames DEF vars, Both
  <2> QED
    BY <2>1, <2>2, <2>3, <2>4, <2>5, <2>6, <2>7, <2>8, <2>9 DEF Next, Poll
<1> QED
  BY <1>1, <1>2, StreamInvariantHolds, PTL DEF Spec, Both

(* When the client has seen that its response is complete, or any frame    *)
(* that names a response without state, the response can be continued,     *)
(* whatever ended the stream and whenever its binding was made.            *)
THEOREM SeenResponsesAreBound == Spec => []BoundBeforeSeen
BY ContinuationInvariantHolds, PTL DEF ContinuationInvariant
=============================================================================
