----------------------------- MODULE MCTraffic -----------------------------
(***************************************************************************)
(* What passes through the gateway: the stream an attempt commits to its   *)
(* client, the bridge between two protocols over the turns of a            *)
(* conversation and within one streamed answer, the relay of server-sent   *)
(* events and the bodies sent upstream.  Each is explored in behaviours of *)
(* its own.                                                                *)
(***************************************************************************)
EXTENDS StreamCommit, TLC

VARIABLES
  part,
  saved, turn, given, turns,
  st, out, kept, heard, answer,
  received, chunk, buffer, frame_ready, relay_upstream_done, finished, sent, relay_error,
  operation, form, body, fast, step, payload, decoded, wires

(* Three tools: one keeps its name, one would get the name of the first,   *)
(* and one loads tools.                                                    *)
Func == [kind |-> "function", name |-> "f"]
Custom == [kind |-> "custom", name |-> "c"]
Searching == [kind |-> "search", name |-> "q"]

(* What the target streams: text, reasoning, two interleaved calls whose   *)
(* parts come late, twice, contradict each other or never come, a null     *)
(* list of calls, and the two endings.                                     *)
Chunk0 == [role |-> FALSE, reasoning |-> 0, text |-> 0, calls |-> <<>>, finish |-> None, usage |-> FALSE]
Part(key, type, id, name, size) ==
  [key |-> key, type |-> type, body |-> "function", id |-> id, name |-> name, payload |-> size]
Chunks ==
  {[Chunk0 EXCEPT !.role = TRUE], [Chunk0 EXCEPT !.role = TRUE, !.text = 1],
   [Chunk0 EXCEPT !.reasoning = 1], [Chunk0 EXCEPT !.reasoning = 1, !.text = 1],
   [Chunk0 EXCEPT !.calls = <<Part(0, "function", "a", "n", 0)>>],
   [Chunk0 EXCEPT !.role = TRUE, !.calls = <<Part(1, "function", "b", "x", 1), Part(0, None, None, "n", 1)>>],
   [Chunk0 EXCEPT !.calls = <<Part(0, None, None, None, 1)>>],
   [Chunk0 EXCEPT !.calls = <<Part(0, "function", "a", "n", None)>>],
   [Chunk0 EXCEPT !.calls = <<Part(1, "function", None, "q", 1)>>],
   [Chunk0 EXCEPT !.calls = <<[Part(1, None, "a", None, None) EXCEPT !.body = None]>>],
   [Chunk0 EXCEPT !.role = TRUE, !.calls = None],
   [Chunk0 EXCEPT !.finish = "tool_calls"], [Chunk0 EXCEPT !.finish = "stop"],
   [Chunk0 EXCEPT !.usage = TRUE]}
(* A body may name its model, stream, tier, response and other fields      *)
(* twice and with values the gateway has to change.                        *)
Fields == {<<"model", "m">>, <<"model", "n">>, <<"stream", "true">>, <<"stream", "false">>, <<"stream", "invalid">>,
   <<"tier", "fast">>, <<"tier", "flex">>, <<"previous", " p">>, <<"previous", "q">>, <<"other", "x">>,
   <<"other", "y">>, <<"input", <<[type |-> "known", id |-> "wrong"]>>>>}

Turns == INSTANCE BridgeTurns WITH
  ToolOrder <- <<Func, Custom, Searching>>, Native <- FALSE,
  Lossless <- (Func :> "n") @@ (Custom :> None) @@ (Searching :> None),
  Digested <- (Func :> "fd") @@ (Custom :> "n") @@ (Searching :> "qd"),
  CallIds <- {1, 2}, Fields <- {"f1", "f2"}, Supported <- {"f1"},
  Declarations <- {<<{Func}, {}>>, <<{Custom}, {}>>}, MaxItems <- 3, MaxTurns <- 2,
  Nil <- None
Answer == INSTANCE BridgeStream WITH
  Active <- ("n" :> "function") @@ ("x" :> "custom") @@ ("q" :> "search"),
  Native <- FALSE, Whole <- 2, MaxChunks <- 5, Base <- 0, MaxBytes <- 14, Nil <- None
Relay == INSTANCE SseRelay WITH
  MaxFrame <- 5, MaxReceived <- 6, upstream_done <- relay_upstream_done,
  error <- relay_error
Sending == INSTANCE RequestWire WITH
  UpstreamModels <- {"m", "u"}, MaxFields <- 3, MaxAttempts <- 2, Nil <- None
Turn == INSTANCE BridgeTurns WITH
  ToolOrder <- <<Func, Custom, Searching>>, Native <- FALSE,
  Lossless <- (Func :> "n") @@ (Custom :> None) @@ (Searching :> None),
  Digested <- (Func :> "fd") @@ (Custom :> "n") @@ (Searching :> "qd"),
  CallIds <- {1, 2}, Fields <- {"f1", "f2"}, Supported <- {"f1"},
  Declarations <- {<<{Func}, {}>>, <<{Searching}, {Func}>>}, MaxItems <- 4,
  MaxTurns <- 1, Nil <- None

turnsVars ==
  <<saved, turn, given, turns>>
answerVars ==
  <<st, out, kept, heard, answer>>
relayVars ==
  <<received, chunk, buffer, frame_ready, relay_upstream_done, finished, sent,
    relay_error>>
sendingVars ==
  <<operation, form, body, fast, step, payload, decoded, wires>>
mcVars == <<part, vars, turnsVars, answerVars, relayVars, sendingVars>>

(* One part moves in a behaviour; the others stay as they begin.           *)
StreamMoves ==
  part = "stream" /\ UNCHANGED <<part, turnsVars, answerVars, relayVars, sendingVars>>
TurnsMoves ==
  part = "turns" /\ UNCHANGED <<part, answerVars, relayVars, sendingVars, vars>>
AnswerMoves ==
  part = "answer" /\ UNCHANGED <<part, turnsVars, relayVars, sendingVars, vars>>
RelayMoves ==
  part = "relay" /\ UNCHANGED <<part, turnsVars, answerVars, sendingVars, vars>>
SendingMoves ==
  part = "sending" /\ UNCHANGED <<part, turnsVars, answerVars, relayVars, vars>>
TurnMoves ==
  part = "turn" /\ UNCHANGED <<part, answerVars, relayVars, sendingVars, vars>>

MCInit ==
  /\ part \in {"stream", "turns", "answer", "relay", "sending", "turn"}
  /\ Init /\ Answer!Init /\ Relay!Init /\ Sending!Init
  /\ IF part = "turn" THEN Turn!Init ELSE Turns!Init
  /\ part # "sending" => operation = "Responses" /\ form = "json" /\ fast
  /\ part # "stream" => ~bridged /\ ~strict

MCNext ==
  \/ StreamMoves /\ Next
  \/ TurnsMoves /\ Turns!Next
  \/ AnswerMoves /\ Answer!Next
  \/ RelayMoves /\ Relay!Next
  \/ SendingMoves /\ Sending!Next
  \/ TurnMoves /\ Turn!Next

MCSpec ==
  /\ MCInit /\ [][MCNext]_mcVars

-----------------------------------------------------------------------------
(* What one side meant is what the other side reads: the target gets every *)
(* item of the conversation once, its calls answered and its tools by      *)
(* their names; the client reads the streamed answer as it would read the  *)
(* whole one, event by event however the network cut it; and every attempt *)
(* sends the decision and the fields the client wrote.                     *)
MeaningIsKept ==
  CASE part \in {"turns", "turn"} -> /\ Turns!CallsAreAnswered /\ Turns!NothingIsLost
                           /\ Turns!NamesKeepTheirMeaning /\ Turns!OnlyDeclaredTools
    [] part = "answer"  -> Answer!EventsFormAResponse /\ Answer!StreamedAsWhole /\ Answer!ReservedCoversKept
    [] part = "relay"   -> Relay!ClientSeesTheEvents /\ Relay!LimitIsExact
    [] part = "sending" -> Sending!UpstreamReadsTheDecision /\ Sending!OtherFieldsArrive
    [] OTHER            -> BoundBeforeSeen
=============================================================================
