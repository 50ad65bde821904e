---------------------------- MODULE BridgeStream ----------------------------
(***************************************************************************)
(* How the bridge turns the chunks of a streamed Chat completion into the  *)
(* events of a Responses stream, and into the assistant message that the   *)
(* continuation keeps. Texts and payloads are counted in fragments; the    *)
(* first error ends the stream. ConvertWhole is the conversion of the      *)
(* message that the chunks add up to, when it is not streamed.             *)
(***************************************************************************)
EXTENDS Naturals, Sequences, FiniteSets, FiniteSetsExt, SequencesExt

CONSTANTS Active,      \* Active[name]: "function", "custom" or "search", for callable tools
          Native,      \* custom_tools: the target has custom tools
          Whole,       \* the fragments of a complete JSON payload
          Chunks,      \* what the target may send
          MaxChunks,
          Base,        \* bytes of the conversation so far
          MaxBytes,    \* MAX_BRIDGE_CONTINUATION_STATE_BYTES
          Nil

VARIABLES st,     \* ChatToResponsesStream
          out,    \* the events sent to the client
          kept,   \* the continuation's assistant message, or Nil
          heard,  \* chunks received
          answer  \* the message they add up to (history)

vars == <<st, out, kept, heard, answer>>

----------------------------------------------------------------------------
(* The continuation the answer will become is limited while it arrives.    *)

TurnBytes      == 3     \* the message around its fields, with its separator
ReasoningBytes == 1     \* the name of the reasoning field
CallsBytes     == 1     \* the name of the tool_calls field
CallBytes      == 2     \* an empty call, with its separator

Fail(s) == [s EXCEPT !.err = TRUE]

Reserve(s, n) == [s EXCEPT !.bytes = @ + n, !.err = @ \/ s.bytes + n > MaxBytes]

Emit(s, events) == [s EXCEPT !.events = @ \o events]

----------------------------------------------------------------------------
(* items.rs: text and reasoning.                                           *)

Event(kind, index, size) == [kind |-> kind, index |-> index, size |-> size, seq |-> 0, output |-> <<>>]

NewText == [index |-> Nil, text |-> 0, done |-> FALSE]

AllocateOutput(s) == [s EXCEPT !.next = @ + 1]

\* field is "message" or "reasoning"; size fragments arrive.
PushText(s, field, size) ==
  IF s.err \/ size = 0 THEN s
  ELSE LET first    == s[field].index = Nil
           reserved == Reserve(s, size + (IF first /\ field = "reasoning" THEN ReasoningBytes ELSE 0))
           index    == IF first THEN s.next ELSE s[field].index
           opened   == IF first THEN Emit(AllocateOutput(reserved),
                                          <<Event("added", index, 0), Event("part_added", index, 0)>>)
                       ELSE reserved
       IN  IF reserved.err THEN reserved
           ELSE Emit([opened EXCEPT ![field].index = index, ![field].text = @ + size],
                     <<Event("delta", index, size)>>)

FinishText(s, field) ==
  LET t == s[field]
  IN  IF t.index = Nil \/ t.done THEN s
      ELSE Emit([s EXCEPT ![field].done = TRUE,
                          !.items = Append(@, [index |-> t.index, type |-> field, size |-> t.text, id |-> Nil])],
                <<Event("text_done", t.index, t.text), Event("part_done", t.index, t.text),
                  Event("item_done", t.index, t.text)>>)

----------------------------------------------------------------------------
(* tools.rs: calls, put together by their index.                           *)

NewTool == [index |-> Nil, kind |-> Nil, id |-> Nil, name |-> Nil, payload |-> 0, emitted |-> 0,
            identity |-> Nil, done |-> FALSE]

ToolOf(s, key) == IF key \in DOMAIN s.tools THEN s.tools[key] ELSE NewTool

\* The kind under which the target knows a tool.
KindOf(identity) == IF identity = "custom" /\ Native THEN "custom" ELSE "function"

\* active_identity: Nil for a tool that may not be called.
ActiveIdentity(kind, name) ==
  IF name \in DOMAIN Active THEN (IF KindOf(Active[name]) = kind THEN Active[name] ELSE Nil) ELSE Nil

\* A payload that is an envelope or the arguments of a search is complete JSON.
Restores(identity, payload) ==
  CASE identity = Nil -> FALSE
    [] identity = "search" \/ (identity = "custom" /\ ~Native) -> payload = Whole
    [] OTHER -> TRUE

Streamable(t) ==
  t.id # Nil /\ (t.identity = "function" \/ (t.identity = "custom" /\ t.kind = "custom"))

\* What is seen of a call's kind, id and name may not change.
Changed(old, new) == new # Nil /\ old # Nil /\ old # new

Observed(old, new) == IF new = Nil THEN old ELSE new

Opened(s, key) ==
  LET t == s.tools[key]
  IN  IF t.index # Nil THEN s
      ELSE Emit([AllocateOutput(s) EXCEPT !.tools[key].index = s.next], <<Event("added", s.next, 0)>>)

\* Search arguments and envelopes are not shown while they arrive.
EmitPayloadDelta(s, key) ==
  LET t    == s.tools[key]
      size == t.payload - t.emitted
  IN  IF t.index = Nil \/ size = 0 THEN s
      ELSE LET noted == [s EXCEPT !.tools[key].emitted = t.payload]
           IN  IF Streamable(t) THEN Emit(noted, <<Event("delta", t.index, size)>>) ELSE noted

\* A fragment names its kind, or shows it by the object it carries; name and
\* payload are in that object, and an absent payload adds nothing.
FragmentKind(call) == Observed(call.body, call.type)
Size(payload) == IF payload = Nil THEN 0 ELSE payload

\* A faulty variant: the name of a call is not accounted for.
ToolBytesNameless(s, t, call, kind) ==
    (IF s.tools = <<>> THEN CallsBytes ELSE 0)
  + (IF t.kind = Nil /\ kind # Nil THEN CallBytes ELSE 0)
  + (IF t.id = Nil /\ call.id # Nil THEN 1 ELSE 0) + Size(call.payload)

\* What a fragment of a call adds to the continuation.
ToolBytes(s, t, call, kind) ==
    (IF s.tools = <<>> THEN CallsBytes ELSE 0)
  + (IF t.kind = Nil /\ kind # Nil THEN CallBytes ELSE 0)
  + (IF t.id = Nil /\ call.id # Nil THEN 1 ELSE 0)
  + (IF t.name = Nil /\ call.name # Nil THEN 1 ELSE 0) + Size(call.payload)

PushTool(s, call) ==
  LET t        == ToolOf(s, call.key)
      kind     == Observed(t.kind, FragmentKind(call))
      name     == Observed(t.name, call.name)
      identity == IF t.identity # Nil \/ kind = Nil \/ name = Nil THEN t.identity ELSE ActiveIdentity(kind, name)
      reserved == Reserve(s, ToolBytes(s, t, call, kind))
      bad      == \/ Changed(call.type, call.body) \/ Changed(t.kind, FragmentKind(call))
                  \/ Changed(t.id, call.id) \/ Changed(t.name, call.name)
                  \/ kind # Nil /\ name # Nil /\ identity = Nil
      tool     == [t EXCEPT !.kind = kind, !.id = Observed(@, call.id), !.name = name,
                            !.payload = @ + Size(call.payload), !.identity = identity]
      noted    == [reserved EXCEPT !.tools = (call.key :> tool) @@ @]
  IN  IF s.err THEN s
      ELSE IF bad \/ reserved.err THEN Fail(reserved)
      ELSE EmitPayloadDelta(IF Streamable(tool) THEN Opened(noted, call.key) ELSE noted, call.key)

Keys(s) == SetToSortSeq(DOMAIN s.tools, <)

\* A faulty variant: two calls may have the same id.
ValidateEachCall(s) ==
  LET ok == \A k \in DOMAIN s.tools :
              LET t == s.tools[k]
              IN  /\ t.kind # Nil /\ t.id # Nil /\ t.name # Nil
                  /\ Restores(ActiveIdentity(t.kind, t.name), t.payload)
  IN  IF s.err \/ ok THEN s ELSE Fail(s)

ValidateToolIdentities(s) ==
  LET ids == [k \in DOMAIN s.tools |-> s.tools[k].id]
      ok  == /\ \A k \in DOMAIN s.tools :
                  LET t == s.tools[k]
                  IN  /\ t.kind # Nil /\ t.id # Nil /\ t.name # Nil
                      /\ Restores(ActiveIdentity(t.kind, t.name), t.payload)
             /\ \A j, k \in DOMAIN s.tools : j # k => ids[j] # ids[k]
  IN  IF s.err \/ ok THEN s ELSE Fail(s)

\* finish_tool, for a call that has been validated.
FinishTool(s, key) ==
  LET opened   == EmitPayloadDelta(Opened(s, key), key)
      t        == opened.tools[key]
      envelope == t.identity = "custom" /\ t.kind = "function"
      input    == IF envelope THEN <<Event("delta", t.index, t.payload)>> ELSE <<>>
      closed   == IF t.identity = "search" THEN <<>> ELSE <<Event("text_done", t.index, t.payload)>>
  IN  IF t.done THEN s
      ELSE Emit([opened EXCEPT !.tools[key].done = TRUE,
                               !.items = Append(@, [index |-> t.index, type |-> t.identity,
                                                    size |-> t.payload, id |-> t.id])],
                input \o closed \o <<Event("item_done", t.index, t.payload)>>)

----------------------------------------------------------------------------
(* state.rs and chunk.rs.                                                  *)

EnsureStarted(s) ==
  IF s.started THEN s ELSE Emit([s EXCEPT !.started = TRUE], <<Event("created", Nil, 0), Event("in_progress", Nil, 0)>>)

\* tool_calls of a chunk may be null.
CallsOf(c) == IF c.calls = Nil THEN <<>> ELSE c.calls

\* apply_choices: role, reasoning, text, calls and finish reason of a chunk.
ApplyChoices(s, c) ==
  LET role     == [s EXCEPT !.role = @ \/ c.role]
      texts    == PushText(PushText(role, "reasoning", c.reasoning), "message", c.text)
      tools    == FoldLeft(PushTool, texts, CallsOf(c))
      finished == [tools EXCEPT !.finish = Observed(@, c.finish)]
  IN  IF s.err \/ s.finish # Nil THEN Fail(s) ELSE finished

\* A chunk that only tells the usage has no choices.
PushChunk(s, c) ==
  LET started == EnsureStarted(s)
      applied == ApplyChoices(started, c)
  IN  IF c.usage THEN started
      ELSE IF applied.finish # Nil THEN ValidateToolIdentities(applied) ELSE applied

\* A faulty variant: the items of the answer are left in the order of finish.
OutputAsFinished(s) == s.items

\* The output of the final response, in the order of the indexes.
OutputOf(s) == SortSeq(s.items, LAMBDA a, b : a.index < b.index)

\* The message the continuation keeps; a call that is not complete is left out.
AssistantMessage(s) ==
  LET complete == SelectSeq(Keys(s), LAMBDA k : Nil \notin {s.tools[k].kind, s.tools[k].id, s.tools[k].name})
  IN  [text |-> s.message.text, reasoning |-> s.reasoning.text,
       calls |-> [i \in DOMAIN complete |->
                    LET t == s.tools[complete[i]]
                    IN  [id |-> t.id, kind |-> t.kind, name |-> t.name, payload |-> t.payload]]]

\* ResponsesChatContinuation::new counts it again when it is complete.
BytesOf(m) ==
  Base + TurnBytes + m.text + (IF m.reasoning > 0 THEN ReasoningBytes + m.reasoning ELSE 0)
    + (IF m.calls = <<>> THEN 0 ELSE CallsBytes)
    + FoldLeft(LAMBDA n, c : n + CallBytes + 2 + c.payload, 0, m.calls)

\* The message of a target that would send the same answer as a whole.
NewCall == [type |-> Nil, body |-> Nil, id |-> Nil, name |-> Nil, payload |-> Nil]

AddCall(a, call) ==
  LET old == IF call.key \in DOMAIN a.calls THEN a.calls[call.key] ELSE NewCall
      new == [type |-> Observed(old.type, call.type), body |-> Observed(old.body, call.body),
              id |-> Observed(old.id, call.id), name |-> Observed(old.name, call.name),
              payload |-> IF call.payload = Nil THEN old.payload ELSE Size(old.payload) + call.payload]
  IN  [a EXCEPT !.calls = (call.key :> new) @@ @,
                !.split = @ \/ \E f \in {"type", "body", "id", "name"} : Changed(old[f], call[f])]

AddChunk(a, c) ==
  IF c.usage THEN a
  ELSE FoldLeft(AddCall,
         [a EXCEPT !.role = @ \/ c.role, !.reasoning = @ + c.reasoning, !.text = @ + c.text,
                   !.null = @ \/ c.calls = Nil, !.split = @ \/ a.finish # Nil, !.finish = Observed(@, c.finish)],
         CallsOf(c))

MessageOf(a) ==
  LET keys == SetToSortSeq(DOMAIN a.calls, <)
  IN  [text |-> a.text, reasoning |-> a.reasoning,
       calls |-> [i \in DOMAIN keys |->
                    LET c == a.calls[keys[i]]
                    IN  [id |-> c.id, kind |-> c.type, name |-> c.name, payload |-> c.payload]]]

FinishReasonFits(finish, calls) == finish # Nil /\ ((finish = "tool_calls") <=> calls)

Finish(s) ==
  LET valid == ValidateToolIdentities(s)
      done  == FoldLeft(FinishTool, FinishText(FinishText(EnsureStarted(s), "reasoning"), "message"), Keys(s))
      last  == [Event("terminal", Nil, 0) EXCEPT !.output = OutputOf(done)]
  IN  IF valid.err \/ ~s.role \/ ~FinishReasonFits(s.finish, s.tools # <<>>) THEN Fail(s)
      ELSE [Emit(done, <<last>>) EXCEPT !.completed = TRUE]

\* sequence_events numbers what a step sends.
Sequenced(events) == [i \in DOMAIN events |-> [events[i] EXCEPT !.seq = Len(out) + i - 1]]

\* An error sends nothing of what its step has prepared.
Deliver(s) ==
  /\ st' = [s EXCEPT !.events = <<>>]
  /\ out' = IF s.err THEN out ELSE out \o Sequenced(s.events)

Push(c) ==
  /\ ~st.err /\ ~st.completed
  /\ heard < MaxChunks
  /\ heard' = heard + 1
  /\ Deliver(PushChunk(st, c))
  /\ answer' = AddChunk(answer, c)
  /\ UNCHANGED kept

\* The target reports a failure in the stream.
PushFailure ==
  /\ ~st.err /\ ~st.completed
  /\ Deliver([Emit(st, <<Event("error", Nil, 0)>>) EXCEPT !.completed = TRUE])
  /\ UNCHANGED <<kept, heard, answer>>

\* The end marker, or the end of the stream; the session completes the
\* continuation, whose size is checked again.
End ==
  /\ ~st.err /\ ~st.completed
  /\ LET s == Finish(st)
         m == AssistantMessage(s)
     IN  IF s.err \/ BytesOf(m) > MaxBytes
         THEN Deliver(Fail(s)) /\ UNCHANGED kept
         ELSE Deliver(s) /\ kept' = m
  /\ UNCHANGED <<heard, answer>>

Init ==
  /\ st = [err |-> FALSE, started |-> FALSE, completed |-> FALSE, role |-> FALSE, finish |-> Nil, next |-> 0,
           reasoning |-> NewText, message |-> NewText, tools |-> <<>>, items |-> <<>>,
           bytes |-> Base + TurnBytes, events |-> <<>>]
  /\ out = <<>>
  /\ kept = Nil
  /\ heard = 0
  /\ answer = [text |-> 0, reasoning |-> 0, role |-> FALSE, finish |-> Nil, null |-> FALSE, split |-> FALSE,
                calls |-> <<>>]

Next == (\E c \in Chunks : Push(c)) \/ PushFailure \/ End

Spec == Init /\ [][Next]_vars

----------------------------------------------------------------------------
(* response.rs: the answer as a whole.                                     *)

\* What only a whole answer is refused for: tool_calls that is null, a call
\* without its type, a call without its arguments or input.
Unstated(a) ==
  \/ a.null /\ DOMAIN a.calls = {}
  \/ \E k \in DOMAIN a.calls : a.calls[k].type = Nil \/ a.calls[k].payload = Nil

ConvertWhole(a) ==
  LET m     == MessageOf(a)
      calls == m.calls
      ids   == {calls[i].id : i \in DOMAIN calls}
      ok    == /\ a.role /\ FinishReasonFits(a.finish, calls # <<>>) /\ ~Unstated(a)
               /\ Nil \notin ids /\ Cardinality(ids) = Len(calls)
               /\ \A k \in DOMAIN a.calls : a.calls[k].body = a.calls[k].type
               /\ \A i \in DOMAIN calls : Restores(ActiveIdentity(calls[i].kind, calls[i].name), calls[i].payload)
               /\ BytesOf(m) <= MaxBytes
  IN  IF ~ok THEN Nil
      ELSE (IF m.reasoning > 0 THEN <<[type |-> "reasoning", size |-> m.reasoning, id |-> Nil]>> ELSE <<>>)
        \o (IF m.text > 0 THEN <<[type |-> "message", size |-> m.text, id |-> Nil]>> ELSE <<>>)
        \o [i \in DOMAIN calls |-> [type |-> ActiveIdentity(calls[i].kind, calls[i].name),
                                     size |-> calls[i].payload, id |-> calls[i].id]]

----------------------------------------------------------------------------

TypeOK ==
  /\ st.events = <<>>
  /\ heard \in 0..MaxChunks
  /\ st.next \in 0..(2 + Cardinality(DOMAIN st.tools))

Of(kind, index) == {i \in DOMAIN out : out[i].kind = kind /\ out[i].index = index}

\* The events form one Responses stream, however the target has mixed text,
\* reasoning and fragments of calls: numbered without gaps, every item opened
\* once before and closed once after its deltas, which add up to it, and the
\* final response listing the closed items in the order of their indexes.
EventsFormAResponse ==
  /\ \A i \in DOMAIN out : out[i].seq = i - 1
  /\ \A n \in 0..(st.next - 1) :
       LET added  == Of("added", n)
           closed == Of("item_done", n)
           deltas == Of("delta", n)
       IN  /\ Cardinality(closed) <= 1
           /\ ~st.err => Cardinality(added) = 1
           /\ \A d \in deltas : (\E a \in added : a < d) /\ (\A c \in closed : d < c)
           /\ \A c \in closed : deltas # {} =>
                out[c].size = MapThenSumSet(LAMBDA d : out[d].size, deltas)
  /\ \A i \in DOMAIN out : out[i].kind = "terminal" =>
       /\ i = Len(out)
       /\ Len(out[i].output) = st.next
       /\ \A n \in DOMAIN out[i].output :
            LET item == out[i].output[n]
            IN  item.index = n - 1 /\ \E c \in Of("item_done", n - 1) : out[c].size = item.size

\* The stream and the conversion of a whole answer do not drift apart, wherever
\* the target cuts its answer (protocol-bridges.md: both share one model of the
\* tools).  A streamed answer is refused, at whatever chunk, only when the
\* message received so far is no message at all or would be refused as a whole.
\* A streamed answer that is accepted has as a whole the same items, each with
\* its size and call id, and leaves the same continuation; the stream lists the
\* items in the order it opened them, a whole answer always as reasoning, text
\* and calls.  The stream alone accepts answers that leave the type or the
\* arguments of a call, or its null list of calls, unstated, and these only.
StreamedAsWhole ==
  LET whole == ConvertWhole(answer)
      shown == Last(out).output
  IN  /\ st.err => answer.split \/ whole = Nil
      /\ kept # Nil => ~answer.split /\ (whole # Nil \/ Unstated(answer))
      /\ kept # Nil /\ whole # Nil =>
           /\ kept = MessageOf(answer)
           /\ Len(shown) = Len(whole)
           /\ {[type |-> shown[i].type, size |-> shown[i].size, id |-> shown[i].id] : i \in DOMAIN shown}
                = ToSet(whole)

\* The bytes reserved while an answer arrives cover the continuation it
\* becomes: an answer that was not refused on the way is not refused, after
\* the client has seen all of it, by the check at its end.
ReservedCoversKept == ~st.err => BytesOf(AssistantMessage(st)) <= st.bytes
=============================================================================
