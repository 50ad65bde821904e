----------------------------- MODULE MCIngress -----------------------------
(***************************************************************************)
(* The way in and the way out: what a request meets before it is routed,   *)
(* the plan of its candidates over configurations that change, and the     *)
(* connections its attempts use.  Each is explored in behaviours of its    *)
(* own.                                                                    *)
(***************************************************************************)
EXTENDS PublicIngress

CONSTANTS Shared, Ephemeral

VARIABLES
  part,
  version, profile, clients, latest, dns, call,
  planning_now, snaps, bound, current, paths, minted, cache, req

(* Requests that meet a limit, carry a body that has to be unpacked or is  *)
(* too large, name no key or two, or come through a proxy.                 *)
Plain == [path |-> "responses", encoding |-> "identity", tokens |-> {<<"k", 1>>},
          peer |-> "client", chain |-> <<>>, protos |-> {}, size |-> 1]
Packed == [Plain EXCEPT !.encoding = "zstd", !.size = 0]
KeyArrivals == {[Plain EXCEPT !.path = "unknown"]}
BodyArrivals ==
  {Plain, Packed, [Packed EXCEPT !.path = "images", !.size = 1], [Plain EXCEPT !.size = 2]}
LoneArrivals ==
  {[Plain EXCEPT !.tokens = {<<"k", 1>>, <<"k", 2>>}], [Plain EXCEPT !.tokens = {<<"bad", 0>>}],
   [Plain EXCEPT !.peer = "proxy", !.chain = <<"loopback", "proxy">>, !.protos = {"https"}],
   [Plain EXCEPT !.peer = "proxy", !.chain = <<"bad">>],
   [Plain EXCEPT !.path = "admin", !.peer = "loopback"]}
MCArrivals == KeyArrivals \cup BodyArrivals \cup LoneArrivals
MCAnswers ==
  {[status |-> "ok", frames |-> 1, sized |-> s, excluded |-> e] : s, e \in BOOLEAN}
    \ {[status |-> "ok", frames |-> 1, sized |-> TRUE, excluded |-> TRUE]}

Routes == {[kind |-> "direct", secure |-> TRUE, strict |-> FALSE, origin |-> "o"],
           [kind |-> "http", secure |-> FALSE, strict |-> FALSE, origin |-> "o"],
           [kind |-> "http", secure |-> TRUE, strict |-> TRUE, origin |-> "o"]}
Fits == {<<"key", "chat">>, <<"account", "chat">>, <<"key", "image">>}

Transport == INSTANCE UpstreamTransport WITH
  Credentials <- {"k1"}, Calls <- {"c1"}, Addresses <- {"a1", "a2"},
  Chains <- {<<>>, <<"gzip", "br">>, <<"br", "identity", "gzip">>}, Capacity <- 2,
  MaxDepth <- 2, MaxChange <- 1
Planning == INSTANCE RoutePlanning WITH
  Requests <- {"r1"}, Requirements <- {"chat", "image"},
  Changes <- {"route", "generation", "proxy", "endpoint", "key", "account", "selects", "expires"},
  MaxRevision <- 3, MaxTime <- 1, None <- Nil, now <- planning_now
Body == INSTANCE PublicIngress
Wire == INSTANCE UpstreamTransport WITH
  Credentials <- {"k1"}, Calls <- {"c1"}, Addresses <- {"a1", "a2"},
  Chains <- {<<>>, <<"gzip", "br">>, <<"br", "identity", "gzip">>}, Capacity <- 2,
  MaxDepth <- 2, MaxChange <- 1

poolsVars ==
  <<version, profile, clients, latest, dns, call>>
planningVars ==
  <<planning_now, snaps, bound, current, paths, minted, cache, req>>
mcVars == <<part, vars, poolsVars, planningVars>>

(* One part moves in a behaviour; the others stay as they begin.           *)
KeyingMoves ==
  part = "keys" /\ UNCHANGED <<part, poolsVars, planningVars>>
TransportMoves ==
  part = "pools" /\ UNCHANGED <<part, planningVars, vars>>
PlanningMoves ==
  part = "planning" /\ UNCHANGED <<part, poolsVars, vars>>
BodyMoves ==
  part = "bodies" /\ UNCHANGED <<part, poolsVars, planningVars>>
WireMoves ==
  part = "wire" /\ UNCHANGED <<part, planningVars, vars>>

(* A step that reads and writes nothing another connection sees is taken   *)
(* as soon as it can be: the order of such steps changes nothing.          *)
Urgent(pcs) ==
  LET ready == {s \in Slots : conn[s].pc \in pcs}
  IN  ready # {} => LET s == CHOOSE x \in ready : TRUE
                    IN  /\ conn'[s].pc # conn[s].pc
                        /\ conn'[s].pc = "gone" => conn[s].pc = "answering"
(* Requests without a body, to see the limits of a key.                    *)
KeySteps ==
  /\ UNCHANGED process
  /\ Urgent({"arrived", "using", "handling", "answering"})
  /\ arrived = 0 => conn'["s2"] = conn["s2"]
  /\ Len(history') = 1 \/ (history'[2].trusted = history[1].trusted /\ history'[2].logging)
  /\ \A s \in Slots :
       /\ conn'[s].arrival \in KeyArrivals \cup {Nil}
       /\ conn'[s].pc = "gone" => conn[s].pc \in {"gone", "answering"}
       /\ conn'[s].sent = 0
(* Two requests with bodies, one of them packed, or a lone one that is     *)
(* refused or comes another way, and the end of the process.               *)
BodySteps ==
  /\ now' < 2 /\ arrived' <= 2
  /\ process' # process => arrived = 2
  /\ history' # history => arrived < 2
  /\ now' # now => \E s \in Slots : conn[s].pc = "queued"
  /\ Urgent({"using", "observing", "reading_clock", "admitting", "handling"})
  /\ Len(history') = 1 \/ history'[2].keys = history[1].keys
  /\ \A s \in Slots :
       conn'[s].arrival \in {Nil} \cup (IF s = "s1" THEN BodyArrivals \cup LoneArrivals ELSE {Packed})
  /\ conn'["s1"].arrival \in LoneArrivals => conn'["s2"].arrival = Nil
(* The cache of clients without what goes over their connections, and the  *)
(* connections of one client.                                              *)
PoolSteps == call'["c1"].connection \in {"none", "dialing", "gone"}
WireSteps ==
  /\ UNCHANGED <<version, profile>>
  /\ \/ call'["c1"].isolation = Nil
     \/ call'["c1"].isolation.owner = Shared

MCInit ==
  /\ part \in {"keys", "pools", "planning", "bodies", "wire"}
  /\ Init /\ Planning!Init
  /\ IF part = "wire" THEN Wire!Init ELSE Transport!Init

MCNext ==
  \/ KeyingMoves /\ Next /\ KeySteps
  \/ TransportMoves /\ Transport!Next /\ PoolSteps
  \/ PlanningMoves /\ Planning!Next
  \/ BodyMoves /\ Body!Next /\ BodySteps
  \/ WireMoves /\ Wire!Next /\ WireSteps

MCSpec ==
  /\ MCInit /\ [][MCNext]_mcVars

-----------------------------------------------------------------------------
(* A request gets what its key allows and no more, and leaves nothing      *)
(* behind: the limit holds, the hint of a refusal is right, deleted keys   *)
(* have no use on record, decompression permits come back, the shown rate  *)
(* is the true one, and the access log has its entry.                      *)
IngressKeepsItsWord ==
  /\ KeyLimitHolds /\ RetryHintHolds /\ UsesStayCurrent
  /\ PermitsReturn /\ ShownRateIsTrue /\ AccessLogTold

(* A request goes where it was planned to go: over a client built for its  *)
(* credential and proxy, with failures that say truly whether it was sent, *)
(* along paths whose health the other requests share.                      *)
CallsGoWherePlanned ==
  CASE part \in {"pools", "wire"} -> Transport!ClientsFitTheirCalls /\ Transport!FailuresAreHonest
    [] part = "planning"          -> Planning!HealthIsShared /\ Planning!CursorsAreFound
    [] OTHER                      -> TRUE

(* The end conditions of the queue in the documentation: a request whose   *)
(* candidates can recover goes on waiting, also when the configuration     *)
(* changes meanwhile, and does not end with an internal error.             *)
PendingSurvivesUpdates == part = "planning" => Planning!PendingSurvivesUpdates
=============================================================================
