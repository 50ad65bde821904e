------------------------- MODULE UpstreamTransport -------------------------
(***************************************************************************)
(* The transport of the gateway (crates/transport): which cached client a  *)
(* call uses, how a pinned client resolves and races the addresses of an   *)
(* origin, how the request task decides whether the request was sent, and  *)
(* how a coded response body is undone.                                    *)
(*                                                                         *)
(* A call is two tasks: the request task awaits the response headers, and  *)
(* the connection task (hyper, external) dials, polls the request body and *)
(* reads the answer. They meet in the future `send` and in the one-shot    *)
(* signal the body sends when it is first polled.                          *)
(***************************************************************************)
EXTENDS Integers, Sequences, FiniteSets, SequencesExt

CONSTANTS
    Credentials,    \* owners of isolated connection pools
    Calls,          \* concurrent calls of execute
    Routes,         \* [kind, secure, strict, origin]: proxy and policy of a call
    Addresses,      \* what the name of an origin may resolve to
    Chains,         \* content codings an upstream may declare and apply
    Capacity,       \* max_cached_clients
    MaxDepth,       \* max_response_content_coding_depth
    MaxChange,      \* bound: edits of credentials and proxies
    Shared,         \* owner of the shared data plane
    Ephemeral,      \* owner of a client used once
    Nil

VARIABLES
    version,    \* credential -> <<routing generation, authentication version>>
    profile,    \* proxy kind -> [version, enabled]
    clients,    \* client cache, least recently used first: <<[key, client]>>,
                \* a client being what it was built for
    latest,     \* history: the version of each credential's latest call
    dns,        \* DNS cache of the one name: Nil or [addresses, fresh]
    call        \* state of every call

vars == <<version, profile, clients, latest, dns, call>>

Kinds == {r.kind : r \in Routes}
Coded == {"gzip", "br", "zstd"}

Idle == [request |-> "idle", connection |-> "none", isolation |-> Nil,
         route |-> Nil, proxy |-> 0, client |-> Nil, dialed |-> {},
         answers |-> <<>>, wrote |-> FALSE, late |-> FALSE, answer |-> Nil,
         result |-> Nil]

Init ==
    /\ version = [k \in Credentials |-> <<1, 1>>]
    /\ profile = [k \in Kinds |-> [version |-> 1, enabled |-> TRUE]]
    /\ clients = <<>>
    /\ latest = [k \in Credentials |-> <<0, 0>>]
    /\ dns = Nil
    /\ call = [c \in Calls |-> Idle]

----------------------------------------------------------------------------
(* Errors: the stage is left out, scope and retry safety are what is used. *)

Error(scope, safety) == [scope |-> scope, safety |-> safety]
NotSent(scope) == Error(scope, "definitely_not_sent")
Ambiguous(scope) == Error(scope, "ambiguous")

\* failure_scope_for_unverified_path; a pinned client always has a proxy.
UnverifiedScope(route) ==
    IF route.kind = "direct" THEN "endpoint" ELSE "egress_path"

\* A plain HTTP request through an HTTP proxy is forwarded, not tunnelled.
ForwardProxy(route) == route.kind = "http" /\ ~route.secure /\ ~route.strict

ConnectTimeout(route) ==
    NotSent(IF route.kind = "direct" THEN "endpoint"
            ELSE IF ForwardProxy(route) THEN "proxy" ELSE "egress_path")

Pinned(route) == route.strict /\ route.kind # "direct"

\* map_send_error of the plain client for an error of the connector.
PlainConnectError(route, cause) ==
    CASE cause = "auth" /\ route.kind = "http" -> NotSent("proxy")
      [] OTHER -> ConnectTimeout(route)

\* classify_connect_error and map_send_error of the pinned client.
PinnedConnectError(cause) ==
    IF cause = "auth" THEN Error("proxy", "rejected_before_execution")
    ELSE NotSent("egress_path")

----------------------------------------------------------------------------
(* Client selection                                                        *)

Isolation(owner, v, class) == [owner |-> owner, version |-> v, class |-> class]

Newer(a, b) == a[1] > b[1] \/ (a[1] = b[1] /\ a[2] > b[2])

\* A call of a credential retires the clients of its older versions.
Retires(iso, cached) ==
    /\ iso.owner \in Credentials
    /\ iso.owner = cached.owner
    /\ Newer(iso.version, cached.version)

KeyWithoutProxyVersion(iso, route, proxyVersion) ==
    [isolation |-> iso, kind |-> route.kind, proxy |-> 1,
     strict_dns |-> route.strict /\ route.kind = "direct",
     origin |-> IF Pinned(route) THEN route.origin ELSE Nil]

\* client_selector: strict requests through a proxy are pinned per origin.
Key(iso, route, proxyVersion) ==
    [isolation |-> iso, kind |-> route.kind, proxy |-> proxyVersion,
     strict_dns |-> route.strict /\ route.kind = "direct",
     origin |-> IF Pinned(route) THEN route.origin ELSE Nil]

\* Everything the construction of a client depends on.
BuiltFor(iso, route, proxyVersion) ==
    [owner |-> iso.owner, version |-> iso.version, class |-> iso.class,
     kind |-> route.kind, proxy |-> proxyVersion, strict |-> route.strict,
     origin |-> IF Pinned(route) THEN route.origin ELSE Nil]

Retained(iso) ==
    SelectSeq(clients, LAMBDA e : ~Retires(iso, e.key.isolation))

InsertUnbounded(cache, key, client) ==
    cache \o <<[key |-> key, client |-> client]>>

InsertIfAbsent(cache, key, client) ==
    (IF Len(cache) >= Capacity THEN Tail(cache) ELSE cache)
        \o <<[key |-> key, client |-> client]>>

Touched(cache, i) == RemoveAt(cache, i) \o <<cache[i]>>

Dialing(iso, route, pv, client) ==
    [Idle EXCEPT !.request = "connect", !.connection = "dialing", !.proxy = pv,
                 !.isolation = iso, !.route = route, !.client = client]

\* client_for_policy: one step, for it runs under the lock of the cache.
ClientFor(c, iso, route) ==
    LET pv == profile[route.kind].version
        key == Key(iso, route, pv)
        cache == Retained(iso)
        hits == {i \in DOMAIN cache : cache[i].key = key}
        new == BuiltFor(iso, route, pv)
    IN IF iso.owner # Ephemeral /\ hits # {}
       THEN LET i == CHOOSE i \in hits : TRUE IN
            /\ clients' = Touched(cache, i)
            /\ call' = [call EXCEPT ![c] = Dialing(iso, route, pv, cache[i].client)]
       ELSE /\ clients' = IF iso.owner = Ephemeral THEN clients
                          ELSE InsertIfAbsent(cache, key, new)
            /\ call' = [call EXCEPT ![c] = Dialing(iso, route, pv, new)]

\* execute: a disabled proxy refuses, otherwise the client starts to dial.
Execute(c, owner, class, route) ==
    /\ call[c].request \in {"idle", "done"}
    /\ LET v == IF owner \in Credentials THEN version[owner] ELSE <<1, 1>>
           iso == Isolation(owner, v, class)
       IN IF ~profile[route.kind].enabled
          THEN /\ call' = [call EXCEPT ![c] = [Idle EXCEPT !.request = "done",
                              !.route = route, !.result = NotSent("proxy")]]
               /\ UNCHANGED <<clients, latest>>
          ELSE /\ ClientFor(c, iso, route)
               /\ latest' = IF owner \in Credentials
                            THEN [latest EXCEPT ![owner] = v] ELSE latest
    /\ UNCHANGED <<version, profile, dns>>

\* A request planned before a change still carries the older version.
ExecuteLate(c, k, v, class, route) ==
    /\ call[c].request \in {"idle", "done"}
    /\ profile[route.kind].enabled
    /\ Newer(version[k], v)
    /\ ClientFor(c, Isolation(k, v, class), route)
    /\ latest' = [latest EXCEPT ![k] = v]
    /\ UNCHANGED <<version, profile, dns>>

\* Publications: a credential is rebuilt or re-authenticated, a proxy edited.
ChangeCredential(k) ==
    /\ version[k][1] + version[k][2] < 2 + MaxChange
    /\ \E v \in {<<version[k][1] + 1, version[k][2]>>,
                 <<version[k][1], version[k][2] + 1>>} :
          version' = [version EXCEPT ![k] = v]
    /\ UNCHANGED <<profile, clients, latest, dns, call>>

ChangeProxy(p) ==
    /\ p # "direct"
    /\ profile[p].version <= MaxChange
    /\ \E e \in BOOLEAN : profile' =
          [profile EXCEPT ![p] = [version |-> @.version + 1, enabled |-> e]]
    /\ UNCHANGED <<version, clients, latest, dns, call>>

----------------------------------------------------------------------------
(* The connection task                                                     *)

Fail(c, cause) ==
    call' = [call EXCEPT ![c].connection = "failed",
                            ![c].answer = [by |-> "connector", cause |-> cause]]

\* Clients that are not pinned leave names and addresses to their connector;
\* a warm connection of the pool is one that connects at once.
ConnectPlain(c, outcome) ==
    /\ call[c].connection = "dialing"
    /\ ~Pinned(call[c].route)
    /\ outcome = "auth" => call[c].route.kind = "http" /\ ~ForwardProxy(call[c].route)
    /\ IF outcome = "ok"
       THEN call' = [call EXCEPT ![c].connection = "connected"]
       ELSE Fail(c, outcome)
    /\ UNCHANGED <<version, profile, clients, latest, dns>>

\* DnsCache::resolve: a fresh entry, or a lookup whose result is stored.
Resolve(c, found) ==
    /\ call[c].connection = "dialing"
    /\ Pinned(call[c].route)
    /\ LET hit == dns # Nil /\ dns.fresh
           addresses == IF hit THEN dns.addresses ELSE found
       IN /\ hit => found = dns.addresses
          /\ dns' = IF hit \/ found = {} THEN dns
                    ELSE [addresses |-> found, fresh |-> TRUE]
          /\ IF addresses = {} THEN Fail(c, "dns")
             ELSE call' = [call EXCEPT ![c].connection = "racing",
                                       ![c].dialed = addresses]
    /\ UNCHANGED <<version, profile, clients, latest>>

DnsExpires ==
    /\ dns # Nil /\ dns.fresh
    /\ dns' = [dns EXCEPT !.fresh = FALSE]
    /\ UNCHANGED <<version, profile, clients, latest, call>>

\* The error of a lost race: the first TLS failure, or else the last one.
RaceError(answers) ==
    LET tls == {i \in DOMAIN answers : answers[i] = "tls"}
    IN IF tls # {} THEN "tls" ELSE answers[Len(answers)]

\* ResolvedTarget::call: the first connection wins, a proxy that rejects the
\* credentials decides, every other error waits for the rest.
AddressAnswers(c, a, outcome) ==
    /\ call[c].connection = "racing"
    /\ a \in call[c].dialed
    /\ outcome = "auth" => call[c].route.kind = "http"
    /\ LET answers == Append(call[c].answers, outcome)
           rest == call[c].dialed \ {a}
       IN CASE outcome = "ok" ->
                 call' = [call EXCEPT ![c].connection = "connected",
                                      ![c].answers = answers]
            [] outcome = "auth" -> Fail(c, "auth")
            [] outcome \in {"refused", "tls"} /\ rest # {} ->
                 call' = [call EXCEPT ![c].dialed = rest, ![c].answers = answers]
            [] OTHER -> Fail(c, RaceError(answers))
    /\ UNCHANGED <<version, profile, clients, latest, dns>>

\* poll_frame of the request body: the signal is sent, the bytes go out.
WriteBody(c) ==
    /\ call[c].connection = "connected"
    /\ call' = [call EXCEPT ![c].connection = "writing", ![c].wrote = TRUE,
                            ![c].late = (call[c].request = "expiring")]
    /\ UNCHANGED <<version, profile, clients, latest, dns>>

\* The peer answers: its declared codings and the ones it really applied; a
\* forwarding proxy may answer itself that it wants other credentials.
Answer(c, declared, applied) ==
    /\ call[c].connection = "writing"
    /\ call' = [call EXCEPT ![c].connection = "answered",
          ![c].answer = [by |-> "upstream", declared |-> declared, applied |-> applied]]
    /\ UNCHANGED <<version, profile, clients, latest, dns>>

ProxyAnswers(c) ==
    /\ call[c].connection = "writing"
    /\ ForwardProxy(call[c].route)
    /\ call' = [call EXCEPT ![c].connection = "answered",
                            ![c].answer = [by |-> "proxy"]]
    /\ UNCHANGED <<version, profile, clients, latest, dns>>

\* The connection breaks after it was established.
Break(c) ==
    /\ call[c].connection \in {"connected", "writing"}
    /\ call' = [call EXCEPT ![c].connection = "broken"]
    /\ UNCHANGED <<version, profile, clients, latest, dns>>

----------------------------------------------------------------------------
(* Response content                                                        *)

\* parse_content_codings over the declared tokens; identity counts for nothing.
ParseCodings(declared) ==
    LET real == SelectSeq(declared, LAMBDA t : t # "identity")
    IN IF \/ ToSet(real) \ Coded # {}
          \/ Len(real) > MaxDepth
       THEN Nil ELSE real

\* decode_body: the coding applied last is undone first; a body that is not
\* in the declared coding fails when it is read.
DecodeBody(applied, codings) ==
    IF applied = codings THEN [ok |-> TRUE, body |-> <<>>]
    ELSE [ok |-> FALSE, body |-> applied]

\* decode_response_content with the headers it leaves and the body it yields.
DecodeResponse(answer) ==
    LET codings == ParseCodings(answer.declared) IN
    IF codings = Nil THEN Ambiguous("endpoint")
    ELSE IF codings = <<>>
    THEN [ok |-> TRUE, encoding |-> FALSE, body |-> answer.applied]
    ELSE LET body == DecodeBody(answer.applied, codings) IN
         IF body.ok THEN [ok |-> TRUE, encoding |-> FALSE, body |-> body.body]
         ELSE Ambiguous("endpoint")

----------------------------------------------------------------------------
(* The request task: await_response_headers                                *)

Finished(c) == call[c].connection \in {"failed", "broken", "answered"}

Over(c, result) ==
    call' = [call EXCEPT ![c].request = "done", ![c].connection = "gone",
                         ![c].result = result]

\* map_send_error, or the response with its status and content.
SendResult(r) ==
    CASE r.connection = "failed" ->
           IF Pinned(r.route) THEN PinnedConnectError(r.answer.cause)
           ELSE PlainConnectError(r.route, r.answer.cause)
      [] r.connection = "broken" -> Ambiguous(UnverifiedScope(r.route))
      [] OTHER -> IF r.answer.by = "proxy"
                  THEN Error("proxy", "rejected_before_execution")
                  ELSE DecodeResponse(r.answer)

\* The select is biased: a finished send is seen before the signal.
SeeFinish(c) ==
    /\ call[c].request \in {"connect", "read", "unsignalled"}
    /\ Finished(c)
    /\ Over(c, SendResult(call[c]))
    /\ UNCHANGED <<version, profile, clients, latest, dns>>

SeeBodyStarted(c) ==
    /\ call[c].request = "connect"
    /\ call[c].wrote /\ ~Finished(c)
    /\ call' = [call EXCEPT ![c].request = "read"]
    /\ UNCHANGED <<version, profile, clients, latest, dns>>

\* The body was dropped unpolled: the connect deadline stays in force.
SeeSignalClosed(c) ==
    /\ call[c].request = "connect"
    /\ ~call[c].wrote /\ call[c].connection \in {"failed", "broken"}
    /\ call' = [call EXCEPT ![c].request = "unsignalled"]
    /\ UNCHANGED <<version, profile, clients, latest, dns>>

DeadlineUnsignalled(c) ==
    /\ call[c].request \in {"connect", "unsignalled"}
    /\ ~Finished(c)
    /\ call' = [call EXCEPT ![c].request = "expiring"]
    /\ UNCHANGED <<version, profile, clients, latest, dns>>

\* The connect deadline passes in a poll that saw neither send nor signal;
\* `send` is dropped only after that, and its task runs on another thread.
ConnectDeadline(c) ==
    /\ \/ call[c].request = "connect" /\ ~call[c].wrote
       \/ call[c].request = "unsignalled"
    /\ ~Finished(c)
    /\ call' = [call EXCEPT ![c].request = "expiring"]
    /\ UNCHANGED <<version, profile, clients, latest, dns>>

GiveUp(c) ==
    /\ call[c].request = "expiring"
    /\ Over(c, ConnectTimeout(call[c].route))
    /\ UNCHANGED <<version, profile, clients, latest, dns>>

ReadTimeout(c) ==
    /\ call[c].request = "read"
    /\ ~Finished(c)
    /\ Over(c, Ambiguous(UnverifiedScope(call[c].route)))
    /\ UNCHANGED <<version, profile, clients, latest, dns>>

\* The caller drops the future of the call.
Cancel(c) ==
    /\ call[c].request \in {"connect", "read", "unsignalled"}
    /\ Over(c, Nil)
    /\ UNCHANGED <<version, profile, clients, latest, dns>>

Dials(c) ==
    \/ \E o \in {"ok", "refused", "auth"} : ConnectPlain(c, o)
    \/ \E s \in SUBSET Addresses : Resolve(c, s)
    \/ \E a \in Addresses, o \in {"ok", "refused", "tls", "auth"} :
          AddressAnswers(c, a, o)

Responds(c) ==
    \/ WriteBody(c)
    \/ \E d \in Chains, b \in Chains : Answer(c, d, b)
    \/ ProxyAnswers(c)
    \/ Break(c)

Next ==
    \/ \E c \in Calls, r \in Routes :
          \/ \E o \in Credentials, t \in {"data", "quota"} : Execute(c, o, t, r)
          \/ Execute(c, Shared, "data", r)
          \/ Execute(c, Ephemeral, "quota", r)
          \/ \E k \in Credentials, t \in {"data", "quota"} :
                ExecuteLate(c, k, <<1, 1>>, t, r)
    \/ \E k \in Credentials : ChangeCredential(k)
    \/ \E p \in Kinds : ChangeProxy(p)
    \/ DnsExpires
    \/ \E c \in Calls :
          \/ Dials(c) \/ Responds(c)
          \/ SeeFinish(c) \/ SeeBodyStarted(c) \/ SeeSignalClosed(c)
          \/ ConnectDeadline(c) \/ GiveUp(c) \/ ReadTimeout(c) \/ Cancel(c)

Spec == Init /\ [][Next]_vars

----------------------------------------------------------------------------

TypeOK ==
    /\ \A i \in DOMAIN clients : clients[i].key.kind \in Kinds
    /\ \A c \in Calls : call[c].request \in
          {"idle", "connect", "unsignalled", "read", "expiring", "done"}

(***************************************************************************)
(* A call never travels over a connection pool that was built for another  *)
(* credential, another version of its credential or of its proxy, another  *)
(* resolution policy or origin; the cache stays within its capacity and    *)
(* holds no client older than the latest call of the same credential       *)
(* (client_for_policy, ClientCache, retires).                              *)
(***************************************************************************)
ClientsFitTheirCalls ==
    /\ \A c \in Calls : call[c].client # Nil =>
          call[c].client =
             BuiltFor(call[c].isolation, call[c].route, call[c].proxy)
    /\ Len(clients) <= Capacity
    /\ \A i \in DOMAIN clients :
          LET iso == clients[i].key.isolation IN
          iso.owner \in Credentials => ~Newer(latest[iso.owner], iso.version)

(***************************************************************************)
(* What a failure says about the request is true: it is reported as        *)
(* definitely not sent only when the connection never polled the body, but *)
(* for a body first polled between the last poll of the request task and   *)
(* the drop of `send`; and as rejected before execution only when no       *)
(* upstream answered (await_response_headers, map_send_error).             *)
(***************************************************************************)
FailuresAreHonest ==
    \A c \in Calls :
       LET r == call[c] IN
       (r.request = "done" /\ r.result # Nil /\ "safety" \in DOMAIN r.result) =>
          /\ r.result.safety = "definitely_not_sent" => (~r.wrote \/ r.late)
          /\ r.result.safety = "rejected_before_execution" =>
                r.answer \in {[by |-> "proxy"], [by |-> "connector", cause |-> "auth"]}
=============================================================================
