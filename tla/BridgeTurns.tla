---------------------------- MODULE BridgeTurns ----------------------------
(***************************************************************************)
(* The Responses to Chat Completions bridge over the turns of one          *)
(* conversation. A request's input items are assembled into Chat messages  *)
(* behind those of the turns before it, tools get names the Chat target    *)
(* accepts, and the answer completes the continuation the next turn        *)
(* resumes from. Converting a request is one uninterrupted computation: a  *)
(* step takes the next input item, and a refused item discards the whole   *)
(* request. How an answer is streamed is in BridgeStream.                  *)
(***************************************************************************)
EXTENDS Naturals, Sequences, FiniteSets, Functions, SequencesExt

CONSTANTS ToolOrder,   \* tool identities [kind, name], in the order of ToolIdentity
          Native,      \* custom_tools: the target has custom tools
          Lossless,    \* Lossless[t]: the name of t if the target accepts it, or Nil
          Digested,    \* Digested[t]: its sanitised name with a digest
          CallIds, Fields,
          Supported,   \* the request fields the target's profile supports
          Declarations,   \* pairs of tools declared to be used now and deferred
          MaxItems,    \* bound on what a conversation holds
          MaxTurns,
          Nil

VARIABLES saved,    \* the continuation: conversation and projection, or Nil
          turn,     \* the request being converted, sent or answered, or Nil
          given,    \* what clients and answers have contributed to the conversation
          turns

vars == <<saved, turn, given, turns>>

Tools == Range(ToolOrder)

Search == CHOOSE t \in Tools : t.kind = "search"

----------------------------------------------------------------------------
(* ToolProjection: names for the tools of the conversation, in both        *)
(* directions, and the tools of this request.                              *)

ChatKind(t) == IF t.kind = "custom" /\ Native THEN "custom" ELSE "function"

Key(t, name) == <<ChatKind(t), name>>

EmptyProjection == [names |-> <<>>, back |-> <<>>, deferred |-> {}, active |-> {}, err |-> FALSE]

\* A faulty variant: tools of the turn before stay callable.
ProjectionAsBefore(previous) == IF previous = Nil THEN EmptyProjection ELSE previous

\* ToolProjection::new: names are kept, tools have to be declared again.
NewProjection(previous) == [(IF previous = Nil THEN EmptyProjection ELSE previous) EXCEPT !.active = {}]

\* A faulty variant: a name that is taken is given away again.
ProjectNameAnyway(p, t) == IF Lossless[t] # Nil THEN Lossless[t] ELSE Digested[t]

ProjectName(p, t) ==
  LET taken(name) == IF Key(t, name) \in DOMAIN p.back THEN p.back[Key(t, name)] # t ELSE FALSE
  IN  IF Lossless[t] # Nil /\ ~taken(Lossless[t]) THEN Lossless[t]
      ELSE IF taken(Digested[t]) THEN Nil ELSE Digested[t]

EnsureIdentity(p, t) ==
  IF t \in DOMAIN p.names THEN p
  ELSE LET name == ProjectName(p, t)
       IN  IF name = Nil THEN [p EXCEPT !.err = TRUE]
           ELSE [p EXCEPT !.names = (t :> name) @@ @, !.back = (Key(t, name) :> t) @@ @]

Activate(p, t) ==
  LET q   == EnsureIdentity(p, t)
      key == Key(t, q.names[t])
  IN  IF q.err \/ key \in q.active THEN [q EXCEPT !.err = TRUE]
      ELSE [q EXCEPT !.active = @ \cup {key}]

InOrder(S) == SelectSeq(ToolOrder, LAMBDA t : t \in S)

\* definition::configure, for tools declared to be used now or deferred.
Configure(p, now, later) ==
  IF later # {} /\ Search \notin now THEN [p EXCEPT !.err = TRUE]
  ELSE LET named == FoldLeft(EnsureIdentity, p, InOrder(now \cup later))
       IN  IF named.err THEN named
           ELSE FoldLeft(Activate, [named EXCEPT !.deferred = @ \cup later], InOrder(now))

\* definition::activate_loaded, for the tools a tool search has found.
ActivateLoaded(p, tools) ==
  IF Search \in tools \/ ~(tools \subseteq p.deferred) THEN [p EXCEPT !.err = TRUE]
  ELSE FoldLeft(Activate, p, InOrder(tools))

IsActive(p, t) == t \in DOMAIN p.names /\ Key(t, p.names[t]) \in p.active

----------------------------------------------------------------------------
(* ConversationLedger: which calls still wait for their output.            *)

\* A client's and a target's own messages are numbered.
Message(role, number) ==
  [role |-> role, calls |-> <<>>, reasoning |-> 0, answers |-> Nil, number |-> number]

\* A message the assembler adds to carry calls or reasoning.
Carrier == Message("assistant", 0)

NewLedger == [seen |-> {}, outstanding |-> <<>>, err |-> FALSE]

AddCall(ledger, id, t) ==
  IF id \in ledger.seen THEN [ledger EXCEPT !.err = TRUE]
  ELSE [ledger EXCEPT !.seen = @ \cup {id}, !.outstanding = (id :> t) @@ @]

IsSettled(ledger) == DOMAIN ledger.outstanding = {}

Settle(ledger, id) ==
  [ledger EXCEPT !.outstanding = Restrict(@, DOMAIN @ \ {id}), !.err = @ \/ id \notin DOMAIN ledger.outstanding]

\* ConversationLedger::from_messages.
FromMessages(messages, p) ==
  LET known(call)         == p.back[<<call.kind, call.name>>]
      scan(ledger, call)  == AddCall(ledger, call.id, known(call))
      visit(ledger, m)    ==
        IF ledger.err THEN ledger
        ELSE IF m.role = "tool" THEN Settle(ledger, m.answers)
        ELSE IF ~IsSettled(ledger) THEN [ledger EXCEPT !.err = TRUE]
        ELSE FoldLeft(scan, ledger, m.calls)
  IN  FoldLeft(visit, NewLedger, messages)

----------------------------------------------------------------------------
(* InputAssembler: the input items of a request, one after the other.      *)

\* A faulty variant: messages are not held back for an output.
AppendAtOnce(a, m) == [a EXCEPT !.messages = Append(@, m)]

AppendRegular(a, m) ==
  IF IsSettled(a.ledger) THEN [a EXCEPT !.messages = Append(@, m)] ELSE [a EXCEPT !.held = Append(@, m)]

FlushCalls(a) ==
  IF a.pending = <<>> THEN a
  ELSE LET at == IF a.at # 0 THEN a.at ELSE Len(a.messages) + 1
           ms == IF a.at # 0 THEN a.messages ELSE Append(a.messages, Carrier)
       IN  [a EXCEPT !.at = at, !.pending = <<>>, !.reasoning = 0,
                     !.messages = [ms EXCEPT ![at].calls = @ \o a.pending, ![at].reasoning = @ + a.reasoning]]

FlushReasoning(a) ==
  IF a.reasoning = 0 THEN a
  ELSE AppendRegular([a EXCEPT !.reasoning = 0], [Carrier EXCEPT !.reasoning = a.reasoning])

FlushDeferred(a) == [a EXCEPT !.messages = @ \o a.held, !.held = <<>>]

\* The reasoning before an assistant's message becomes part of it.
AppendMessage(a, role) ==
  LET m == Message(role, a.number + 1)
      b == [a EXCEPT !.number = @ + 1]
  IN  IF role = "assistant"
      THEN AppendRegular([b EXCEPT !.reasoning = 0], [m EXCEPT !.reasoning = a.reasoning])
      ELSE AppendRegular(FlushReasoning(b), m)

\* A call needs an output of its kind among the items, and a tool search one
\* that is registered.
AppendCall(a, id, t) ==
  IF (IF id \in DOMAIN a.promised THEN a.promised[id] # t.kind ELSE TRUE)
     \/ (t.kind = "search" /\ t \notin DOMAIN a.proj.names)
  THEN [a EXCEPT !.err = TRUE]
  ELSE LET p == EnsureIdentity(a.proj, t)
           l == AddCall(a.ledger, id, t)
       IN  IF p.err \/ l.err THEN [a EXCEPT !.err = TRUE]
           ELSE [a EXCEPT !.proj = p, !.ledger = l,
                          !.pending = Append(@, [id |-> id, kind |-> ChatKind(t), name |-> p.names[t], tool |-> t])]

\* A faulty variant: messages held back are sent at the end.
AppendOutputHolding(a, id, kind, loads) ==
  LET known == id \in DOMAIN a.ledger.outstanding
      b     == [a EXCEPT !.ledger = Settle(@, id), !.sent = @ \cup {id},
                         !.messages = Append(@, [Message("tool", 0) EXCEPT !.answers = id])]
  IN  IF ~known THEN [a EXCEPT !.err = TRUE]
      ELSE IF a.ledger.outstanding[id].kind # kind THEN [a EXCEPT !.err = TRUE]
      ELSE IF IsSettled(b.ledger) THEN [b EXCEPT !.at = 0] ELSE b

AppendOutput(a, id, kind, loads) ==
  LET known == id \in DOMAIN a.ledger.outstanding
      p     == IF kind = "search" THEN ActivateLoaded(a.proj, loads) ELSE a.proj
      b     == [a EXCEPT !.ledger = Settle(@, id), !.proj = p, !.sent = @ \cup {id}, !.loaded = @ \cup loads,
                         !.messages = Append(@, [Message("tool", 0) EXCEPT !.answers = id])]
  IN  IF ~known THEN [a EXCEPT !.err = TRUE]
      ELSE IF a.ledger.outstanding[id].kind # kind \/ p.err THEN [a EXCEPT !.err = TRUE]
      ELSE IF IsSettled(b.ledger) THEN FlushDeferred([b EXCEPT !.at = 0]) ELSE b

Item(a, item) ==
  LET b == IF item.type = "call" THEN a ELSE FlushCalls(a)
  IN  CASE item.type = "message"   -> AppendMessage(b, item.role)
        [] item.type = "reasoning" -> [b EXCEPT !.reasoning = @ + 1]
        [] item.type = "call"      -> AppendCall(b, item.id, item.tool)
        [] item.type = "output"    -> AppendOutput(b, item.id, item.kind, item.loads)

FinishInput(a) ==
  LET b == FlushReasoning(FlushCalls(a))
  IN  IF ~IsSettled(b.ledger) THEN [b EXCEPT !.err = TRUE] ELSE FlushDeferred(b)

----------------------------------------------------------------------------
(* A turn.                                                                 *)

\* The items the client may send next. The outputs it will send are known
\* from the start: collect_output_call_ids looks ahead.
Items(a) ==
  {[type |-> "message", role |-> r] : r \in {"user", "assistant"}}
    \cup {[type |-> "reasoning"]}
    \cup {[type |-> "call", id |-> i, tool |-> t] : i \in CallIds, t \in Tools}
    \cup {[type |-> "output", id |-> i, kind |-> a.promised[i], loads |-> s] :
             i \in {j \in (DOMAIN a.promised) \ a.sent : a.promised[j] # "search"}, s \in {{}}}
    \cup {[type |-> "output", id |-> i, kind |-> "search", loads |-> s] :
             i \in {j \in (DOMAIN a.promised) \ a.sent : a.promised[j] = "search"},
             s \in {{}} \cup {{t} : t \in Tools}}

Conversation == IF saved = Nil THEN <<>> ELSE saved.conversation

NewAssembler(p, promised) ==
  LET ms     == Conversation
      ledger == FromMessages(ms, p)
  IN  [messages |-> ms, proj |-> p, ledger |-> ledger, promised |-> promised, sent |-> {}, loaded |-> {}, pending |-> <<>>, number |-> given.messages,
       at |-> IF IsSettled(ledger) THEN 0 ELSE SelectLastInSeq(ms, LAMBDA m : m.role = "assistant"),
       reasoning |-> 0, held |-> <<>>, err |-> ledger.err \/ p.err]

Turn(phase, text, a, now) == [phase |-> phase, text |-> text, a |-> a, declared |-> now]

\* target::build: every field is one the target supports, and a tool that
\* has to be called is active. Without active tools nothing about tools is sent.
BuildTarget(p, fields, choice) ==
  /\ fields \subseteq Supported
  /\ choice = Nil \/ (p.active # {} /\ IsActive(p, choice))

\* start_session resumes the continuation or, without one, begins. The
\* request's input is a list of items ...
Begin(now, later, promised) ==
  /\ turn = Nil
  /\ turns < MaxTurns
  /\ LET p == Configure(NewProjection(IF saved = Nil THEN Nil ELSE saved.proj), now, later)
         a == NewAssembler(p, promised)
     IN  ~a.err /\ turn' = Turn("input", FALSE, a, now)
  /\ turns' = turns + 1
  /\ UNCHANGED <<saved, given>>

\* ... or a text, which becomes a message without looking at the history.
BeginText(now, later, fields, choice) ==
  /\ turn = Nil
  /\ turns < MaxTurns
  /\ LET p  == Configure(NewProjection(IF saved = Nil THEN Nil ELSE saved.proj), now, later)
         ms == Append(Conversation, Message("user", given.messages + 1))
     IN  /\ ~p.err /\ BuildTarget(p, fields, choice)
         /\ turn' = Turn("sent", TRUE, [messages |-> ms, proj |-> p, loaded |-> {}], now)
  /\ given' = [given EXCEPT !.messages = @ + 1]
  /\ turns' = turns + 1
  /\ UNCHANGED saved

\* What an item brings. Items that are refused for their own form (reasoning
\* for a target without it, an output that names a tool no call had) are not
\* sent here: a refusal discards the request.
Contribute(item) ==
  CASE item.type = "message"   -> [given EXCEPT !.messages = @ + 1]
    [] item.type = "reasoning" -> [given EXCEPT !.reasoning = @ + 1]
    [] item.type = "call"      -> [given EXCEPT !.calls = @ + 1]
    [] item.type = "output"    -> [given EXCEPT !.outputs = @ + 1]

NextItem(item) ==
  /\ turn # Nil /\ turn.phase = "input"
  /\ given.messages + given.reasoning + given.calls + given.outputs < MaxItems
  /\ LET a == Item(turn.a, item)
     IN  ~a.err /\ turn' = [turn EXCEPT !.a = a]
  /\ given' = Contribute(item)
  /\ UNCHANGED <<saved, turns>>

\* The last item has been taken; the outputs promised were among them.
SendUpstream(fields, choice) ==
  /\ turn # Nil /\ turn.phase = "input"
  /\ DOMAIN turn.a.promised = turn.a.sent
  /\ LET a == FinishInput(turn.a)
     IN  /\ ~a.err /\ BuildTarget(a.proj, fields, choice)
         /\ turn' = [turn EXCEPT !.phase = "sent", !.a = a]
  /\ UNCHANGED <<saved, given, turns>>

\* The answer completes the continuation: a text, or calls of active tools
\* with call ids of the target's choice.
Answer(calls) ==
  /\ turn # Nil /\ turn.phase = "sent"
  /\ LET p == turn.a.proj
         restored == [i \in DOMAIN calls |->
                        [id |-> calls[i].id, kind |-> calls[i].kind, name |-> calls[i].name,
                         tool |-> p.back[<<calls[i].kind, calls[i].name>>]]]
     IN  /\ \A i \in DOMAIN calls : <<calls[i].kind, calls[i].name>> \in p.active
         /\ saved' = [conversation |-> Append(turn.a.messages, [Message("assistant", given.messages + 1) EXCEPT !.calls = restored]),
                      proj |-> p]
  /\ given' = [given EXCEPT !.messages = @ + 1, !.calls = @ + Len(calls)]
  /\ turn' = Nil
  /\ UNCHANGED turns

\* What is in a conversation.
Count(ms) ==
  [messages  |-> Len(SelectSeq(ms, LAMBDA m : m.number # 0)),
   outputs   |-> Len(SelectSeq(ms, LAMBDA m : m.role = "tool")),
   calls     |-> FoldLeft(LAMBDA n, m : n + Len(m.calls), 0, ms),
   reasoning |-> FoldLeft(LAMBDA n, m : n + m.reasoning, 0, ms)]

\* A refused or failed request leaves the continuation as it was.
Abandon ==
  /\ turn # Nil
  /\ turn' = Nil
  /\ given' = Count(Conversation)
  /\ UNCHANGED <<saved, turns>>

Init ==
  /\ saved = Nil
  /\ turn = Nil
  /\ given = Count(<<>>)
  /\ turns = 0

Promises == UNION {[S -> {"function", "custom", "search"}] : S \in SUBSET CallIds}

Answers ==
  {<<>>} \cup {<<[id |-> i, kind |-> k[1], name |-> k[2]]>> :
                 i \in CallIds, k \in IF turn = Nil THEN {} ELSE turn.a.proj.active}

Next ==
  \/ \E d \in Declarations :
       \/ \E f \in Promises : Begin(d[1], d[2], f)
       \/ \E fields \in SUBSET Fields, choice \in {Nil} \cup Tools : BeginText(d[1], d[2], fields, choice)
  \/ turn # Nil /\ turn.phase = "input" /\ \E item \in Items(turn.a) : NextItem(item)
  \/ \E fields \in SUBSET Fields, choice \in {Nil} \cup Tools : SendUpstream(fields, choice)
  \/ \E calls \in Answers : Answer(calls)
  \/ Abandon

Spec == Init /\ [][Next]_vars

----------------------------------------------------------------------------

Sent == turn # Nil /\ turn.phase = "sent"

TypeOK ==
  /\ turns \in 0..MaxTurns
  /\ saved # Nil => ~saved.proj.err

\* The messages of every request made from input items are ones a Chat target
\* accepts: a call is answered, by exactly the outputs of its message, before
\* any other message, however calls, outputs, messages and reasoning are mixed
\* (history.rs, ledger.rs).
CallsAreAnswered ==
  Sent /\ ~turn.text =>
    LET ms == turn.a.messages
    IN  /\ \A i \in DOMAIN ms :
             LET n == Len(ms[i].calls)
             IN  /\ i + n <= Len(ms)
                 /\ {ms[i + k].answers : k \in 1..n} = {ms[i].calls[k].id : k \in 1..n}
        /\ \A i \in DOMAIN ms : ms[i].role = "tool" =>
             \E j \in 1..(i - 1) : /\ ms[i].answers \in {ms[j].calls[k].id : k \in DOMAIN ms[j].calls}
                                   /\ \A k \in (j + 1)..i : ms[k].role = "tool"

\* Nothing a client or an answer has contributed is lost or repeated on the
\* way to the target, and messages keep their order although some are held
\* back until calls are answered.
NothingIsLost ==
  Sent => LET own == SelectSeq(turn.a.messages, LAMBDA m : m.number # 0)
          IN  /\ Count(turn.a.messages) = given
              /\ \A i \in DOMAIN own : own[i].number = i

\* A Chat name keeps its meaning as long as the conversation does: every call
\* of the history names the tool it was made for (state.rs ensure_identity,
\* known_identity).
NamesKeepTheirMeaning ==
  Sent => \A i \in DOMAIN turn.a.messages : \A k \in DOMAIN turn.a.messages[i].calls :
            LET call == turn.a.messages[i].calls[k]
            IN  turn.a.proj.back[<<call.kind, call.name>>] = call.tool

\* A target can only call, and be made to call, tools this request declares or
\* a tool search of this request has loaded.
OnlyDeclaredTools ==
  Sent => \A key \in turn.a.proj.active :
            turn.a.proj.back[key] \in turn.declared \cup turn.a.loaded
====
