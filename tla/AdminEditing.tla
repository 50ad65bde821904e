---------------------------- MODULE AdminEditing ----------------------------
(***************************************************************************)
(* Editing the configuration in the administration pages: the list that    *)
(* TanStack Query caches, the drafts of the editors, the mutations with    *)
(* their expected revision and entity version, and the admin handlers that *)
(* check them.  Other administrators and the token refresh change the      *)
(* configuration meanwhile; answers are lost, time out or arrive out of    *)
(* order.                                                                  *)
(*                                                                         *)
(* One entity of one kind of page is followed: a proxy, a gateway key, an  *)
(* endpoint, a provider credential, an OAuth account or the settings.  Its *)
(* parts are what one form writes: meta (names, limits, switches, ordinary *)
(* settings), content (model selection, rate card) and secret (API key,    *)
(* token, proxy password).  The value of a part is the revision that wrote *)
(* it, so that equal values mean that nobody wrote in between.             *)
(***************************************************************************)
EXTENDS Naturals, FiniteSets

CONSTANTS
  Kinds,          \* the pages to look at
  Slots,          \* bound: mutations that run at a time
  MaxRevision,    \* bound: revisions
  MaxDrafts,      \* bound: drafts and dialogs that are opened
  MaxFaults,      \* bound: lost answers and failed reads
  Nil

VARIABLES
  kind,           \* the page
  revision,       \* the published revision
  entity,         \* the entity, Nil when it does not exist
  cache,          \* the cached list: [revision, entity]
  fetch,          \* the read of the list that is under way
  stale,          \* the cached list was invalidated
  mounted,        \* the page is on the screen
  draft,          \* form -> open draft or dialog
  call,           \* slot -> mutation of the page
  orphans,        \* requests whose page has given up waiting
  opened,         \* number of drafts opened so far
  faults          \* faults so far

server == <<revision, entity>>
query == <<cache, fetch, stale>>
page == <<mounted, draft, call, orphans, opened>>
vars == <<kind, server, query, page, faults>>

Forms == {"edit", "content", "dialog"}
Creatable == {"proxy", "key", "endpoint", "credential"}
Versioned == {"key", "endpoint", "credential", "account"}
Merged == {"credential", "account"}      \* acknowledgements without usage numbers
WithContent == {"credential", "account", "settings"}

Created == [id |-> 1, meta |-> 1, content |-> 1, secret |-> 1, version |-> 1,
            secret_version |-> 1]
Snapshot == [revision |-> revision, entity |-> entity]
Reading == [answer |-> Nil, failed |-> FALSE]
ReadingAgain == [answer |-> Nil, failed |-> TRUE]     \* after a failed mutation
Read == {Reading, ReadingAgain}

(***************************************************************************)
(* The server                                                              *)
(***************************************************************************)
(* What the handler of a page binds a request to besides the revision: a   *)
(* proxy nothing, the others the version of the entity, a new secret also  *)
(* the version of the old one.                                             *)
SameVersion(r) == r.version = entity.version
SameSecret(r) == r.op = "secret" => r.secret_version = entity.secret_version
ProxyAccepts(r) == TRUE
KeyAccepts(r) == SameVersion(r) /\ SameSecret(r)
EndpointAccepts(r) == r.op # "delete" => SameVersion(r)
CredentialAccepts(r) == SameVersion(r) /\ SameSecret(r)
AccountAccepts(r) == SameVersion(r)
SettingsAccepts(r) == TRUE

(* The checks of the handlers and of the publisher, in the refusals that   *)
(* ConfigPublishError becomes: stale revision, name in use, unknown        *)
(* entity, stale version.                                                  *)
Accepts(r) ==
  /\ r.revision = revision
  /\ IF r.op = "create" THEN entity = Nil
     ELSE /\ entity # Nil /\ entity.id = r.base.id
          /\ CASE kind = "proxy" -> ProxyAccepts(r)
               [] kind = "key" -> KeyAccepts(r)
               [] kind = "endpoint" -> EndpointAccepts(r)
               [] kind = "credential" -> CredentialAccepts(r)
               [] kind = "account" -> AccountAccepts(r)
               [] kind = "settings" -> SettingsAccepts(r)

(* The parts that a committed request writes; a new API key starts with an *)
(* empty model selection.                                                  *)
Writes(r) ==
  CASE r.op = "meta" -> {"meta"}
    [] r.op = "content" -> {"content"}
    [] r.op = "secret" /\ kind = "credential" -> {"secret", "content"}
    [] r.op = "secret" /\ kind # "credential" -> {"secret"}
    [] OTHER -> {}

Applied(r) ==
  CASE r.op = "create" -> [Created EXCEPT !.id = revision + 1, !.meta = revision + 1,
                                          !.content = revision + 1, !.secret = revision + 1]
    [] r.op = "delete" -> Nil
    [] OTHER ->
         [p \in DOMAIN entity |->
            IF p \in Writes(r) THEN revision + 1
            ELSE IF p = "version" THEN entity.version + 1
            ELSE IF p = "secret_version" /\ r.op = "secret" THEN entity.secret_version + 1
            ELSE entity[p]]

Commit(r) ==
  /\ revision < MaxRevision
  /\ revision' = revision + 1
  /\ entity' = Applied(r)

(* A handler answers with the snapshot that its publication produced.      *)
Handle(s) ==
  /\ call[s] # Nil /\ call[s].answer = Nil /\ call[s].state = "sent"
  /\ IF Accepts(call[s].request)
       THEN /\ Commit(call[s].request)
            /\ call' = [call EXCEPT ![s].answer =
                          [ok |-> TRUE, revision |-> revision', entity |-> entity']]
       ELSE /\ call' = [call EXCEPT ![s].answer = [ok |-> FALSE]]
            /\ UNCHANGED server
  /\ UNCHANGED <<kind, query, mounted, draft, orphans, opened, faults>>

(* A request whose page has gone is still handled, or never arrived.       *)
HandleOrphan(r) ==
  /\ r \in orphans
  /\ orphans' = orphans \ {r}
  /\ IF Accepts(r) THEN Commit(r) ELSE UNCHANGED server
  /\ UNCHANGED <<kind, query, mounted, draft, call, opened, faults>>

(* Other administrators change the entity, or something else.              *)
Outside ==
  /\ revision < MaxRevision
  /\ revision' = revision + 1
  /\ \/ UNCHANGED entity
     \/ /\ entity # Nil /\ kind # "settings"
        /\ entity' = Nil
     \/ /\ entity # Nil
        /\ \E op \in {"meta", "content", "secret"} :
             /\ op = "content" => kind \in WithContent
             /\ op = "secret" => kind \in {"proxy", "key", "credential"}
             /\ entity' = Applied([op |-> op])
  /\ UNCHANGED <<kind, query, page, faults>>

(***************************************************************************)
(* The cached list                                                         *)
(***************************************************************************)
(* Forms whose key names the version of the entity are mounted again with  *)
(* the new values, and lose the edits; without the entity the drawer is    *)
(* closed.                                                                 *)
Keyed(form) == (form = "edit" /\ kind = "account") \/ (form = "content" /\ kind # "settings")
Rendered(list) ==
  [f \in Forms |->
     IF draft[f] = Nil \/ ~Keyed(f) THEN draft[f]
     ELSE IF list.entity = Nil THEN Nil
     ELSE IF list.entity.id # draft[f].base.id THEN Nil
     ELSE IF list.entity.version # draft[f].base.version
       THEN [draft[f] EXCEPT !.base = list.entity, !.dirty = FALSE]
     ELSE draft[f]]

(* An acknowledgement carries no usage numbers: entities that the list     *)
(* does not hold yet wait for the next read.                               *)
MergeAcknowledgement(answer) ==
  IF answer.revision < cache.revision THEN cache
  ELSE [revision |-> answer.revision,
        entity |-> IF cache.entity = Nil THEN Nil ELSE answer.entity]

SelectNewestAlways(incoming) == incoming    \* faulty variant: the last answer wins
SelectNewest(incoming) ==
  IF incoming.revision >= cache.revision THEN incoming ELSE cache

(* What a successful mutation does to the list: the newer of the two is    *)
(* kept, and a page on the screen reads it again in place of a read that   *)
(* is under way.                                                           *)
PublishQuietly(list) ==   \* faulty variant: a read that is under way goes on
  cache' = SelectNewest(list) /\ stale' = stale /\ fetch' = fetch
Publish(list) ==
  /\ cache' = SelectNewest(list)
  /\ stale' = ~mounted
  /\ fetch' = IF mounted THEN Reading ELSE Nil

PublishAcknowledgement(answer) == Publish(MergeAcknowledgement(answer))

(* A failed mutation reads the list of a page on the screen again.         *)
RefreshAfterFailure ==
  /\ fetch' = IF mounted THEN ReadingAgain ELSE fetch
  /\ UNCHANGED <<cache, stale>>

(* The administrator's refresh, and the reading every 15 seconds.          *)
Refetch ==
  /\ mounted
  /\ fetch \notin Read
  /\ fetch' = Reading
  /\ UNCHANGED <<kind, server, cache, stale, page, faults>>

FetchAnswers ==
  /\ fetch \in Read
  /\ fetch' = [fetch EXCEPT !.answer = Snapshot]
  /\ UNCHANGED <<kind, server, cache, stale, page, faults>>

(* The end of a creation that waits for the list: its form gives way to    *)
(* the model selection.                                                    *)
Settling == {s \in Slots : IF call[s] = Nil THEN FALSE ELSE call[s].state = "settling"}
ModelsForm(list) ==
  IF list.entity = Nil THEN Nil
  ELSE [op |-> "content", base |-> list.entity, source |-> list.revision,
        dirty |-> FALSE, secret |-> FALSE]

FetchArrives ==
  /\ fetch # Nil /\ fetch.answer # Nil
  /\ cache' = fetch.answer
  /\ fetch' = Nil /\ stale' = FALSE
  /\ call' = [s \in Slots |-> IF s \in Settling THEN Nil ELSE call[s]]
  /\ draft' = IF \E s \in Settling : call[s].own
                THEN [Rendered(fetch.answer) EXCEPT !["edit"] = Nil,
                                                    !["content"] = ModelsForm(fetch.answer)]
                ELSE Rendered(fetch.answer)
  /\ UNCHANGED <<kind, server, mounted, orphans, opened, faults>>

(* A failed read leaves the list; a creation that waited for it is         *)
(* reported as failed, and its form stays.                                 *)
FetchFails ==
  /\ faults < MaxFaults /\ faults' = faults + 1
  /\ fetch # Nil
  /\ fetch' = IF Settling # {} /\ mounted THEN ReadingAgain ELSE Nil
  /\ call' = [s \in Slots |-> IF s \in Settling THEN Nil ELSE call[s]]
  /\ UNCHANGED <<kind, server, cache, stale, mounted, draft, orphans, opened>>

(***************************************************************************)
(* The forms                                                               *)
(***************************************************************************)
(* Drawers and dialogs are modal, one is open at a time; the forms of the  *)
(* settings stand side by side.                                            *)
Uncovered(form) ==
  /\ mounted /\ draft[form] = Nil
  /\ kind = "settings" \/ \A f \in Forms : draft[f] = Nil

Opens(form, op, base, secret) ==
  /\ Uncovered(form) /\ opened < MaxDrafts
  /\ opened' = opened + 1
  /\ draft' = [draft EXCEPT ![form] =
                 [op |-> op, base |-> base, source |-> cache.revision,
                  dirty |-> FALSE, secret |-> secret]]
  /\ UNCHANGED <<kind, server, query, mounted, call, orphans, faults>>

(* The editors of an entity of the list or of a new one.                   *)
OpensEditor(secret) ==
  \/ cache.entity = Nil /\ Opens("edit", "create", Nil, secret)
  \/ cache.entity # Nil /\ Opens("edit", "meta", cache.entity, secret)

(* The form of a proxy also takes its user name and password, that of a    *)
(* provider credential a new API key: a second request saves them.         *)
OpenProxyEditor == kind = "proxy" /\ \E secret \in BOOLEAN : OpensEditor(secret)
OpenKeyEditor == kind = "key" /\ OpensEditor(FALSE)
OpenEndpointEditor == kind = "endpoint" /\ OpensEditor(FALSE)
OpenCredentialEditor ==
  /\ kind = "credential"
  /\ \E secret \in BOOLEAN : (secret => cache.entity # Nil) /\ OpensEditor(secret)
OpenAccountEditor == kind = "account" /\ cache.entity # Nil /\ OpensEditor(FALSE)
BeginSettings == kind = "settings" /\ OpensEditor(FALSE)

OpensContent == cache.entity # Nil /\ Opens("content", "content", cache.entity, FALSE)
OpenModels == kind = "credential" /\ OpensContent
OpenCatalog == kind = "account" /\ OpensContent
BeginRateCard == kind = "settings" /\ OpensContent

(* The confirmations of a deletion and of a new gateway key token.         *)
RequestDelete ==
  kind # "settings" /\ cache.entity # Nil /\ Opens("dialog", "delete", cache.entity, FALSE)
RequestRotate ==
  kind = "key" /\ cache.entity # Nil /\ Opens("dialog", "secret", cache.entity, FALSE)

Edit(form) ==
  /\ draft[form] # Nil /\ ~draft[form].dirty /\ form # "dialog"
  /\ draft' = [draft EXCEPT ![form].dirty = TRUE]
  /\ UNCHANGED <<kind, server, query, mounted, call, orphans, opened, faults>>

Close(form) ==
  /\ draft[form] # Nil
  /\ draft' = [draft EXCEPT ![form] = Nil]
  /\ UNCHANGED <<kind, server, query, mounted, call, orphans, opened, faults>>

(* Leaving the page drops the forms and the read; mutations go on.         *)
Leave ==
  /\ mounted
  /\ mounted' = FALSE
  /\ draft' = [f \in Forms |-> Nil]
  /\ fetch' = Nil
  /\ call' = [s \in Slots |-> IF call[s] = Nil THEN Nil ELSE [call[s] EXCEPT !.own = FALSE]]
  /\ UNCHANGED <<kind, server, cache, stale, orphans, opened, faults>>

Return ==
  /\ ~mounted
  /\ mounted' = TRUE
  /\ fetch' \in (IF stale THEN {Reading} ELSE {Nil, Reading})
  /\ UNCHANGED <<kind, server, cache, stale, draft, call, orphans, opened, faults>>

(***************************************************************************)
(* The mutations                                                           *)
(***************************************************************************)
(* A form that is based on an older list than the one on the screen cannot *)
(* be saved.                                                               *)
Gone(d) ==
  /\ d.op # "create"
  /\ IF cache.entity = Nil THEN TRUE ELSE cache.entity.id # d.base.id
Changed(d) ==
  IF d.op = "create" \/ Gone(d) THEN FALSE
  ELSE \/ d.base.version # cache.entity.version
       \/ d.base.secret_version # cache.entity.secret_version

DraftSourceChanged(d) == d.source # cache.revision \/ Gone(d)   \* proxies and keys
EndpointConflict(d) == Gone(d) \/ Changed(d)
CredentialConflict(d) == Gone(d) \/ Changed(d)
SettingsConflict(d) == d.source # cache.revision
RateCardConflict(d) == d.base.content # cache.entity.content    \* the id of the card

SourceConflictNever(form) == FALSE    \* faulty variant: only the server looks for conflicts
SourceConflict(form) ==
  LET d == draft[form]
  IN /\ form # "dialog"
     /\ CASE kind \in {"proxy", "key"} -> DraftSourceChanged(d)
          [] kind = "endpoint" -> EndpointConflict(d)
          [] kind \in {"credential", "account"} -> CredentialConflict(d)
          [] kind = "settings" /\ form = "edit" -> SettingsConflict(d)
          [] kind = "settings" /\ form # "edit" -> RateCardConflict(d)

(* Buttons are disabled while a mutation of the page runs; the settings    *)
(* and the rate card do not know of each other.                            *)
Pending(form) ==
  \E s \in Slots :
    IF call[s] = Nil THEN FALSE
    ELSE call[s].own /\ (kind # "settings" \/ call[s].form = form)

(* The revision that a request expects: that of the draft where the form   *)
(* keeps it, otherwise that of the list on the screen.                     *)
Expected(form) ==
  IF form = "edit" /\ kind \in {"proxy", "key", "settings"} THEN draft[form].source
  ELSE cache.revision

Request(op, rev, base) ==
  [op |-> op, revision |-> rev,
   version |-> IF base = Nil THEN 0 ELSE base.version,
   secret_version |-> IF base = Nil THEN 0 ELSE base.secret_version,
   base |-> base]

Free(s) == call[s] = Nil /\ \A t \in Slots : call[t] = Nil => s <= t

Send(s, form, request, secret) ==
  /\ Free(s)
  /\ call' = [call EXCEPT ![s] =
                [form |-> form, request |-> request, secret |-> secret, own |-> TRUE,
                 state |-> "sent", answer |-> Nil]]
  /\ UNCHANGED <<kind, server, query, mounted, draft, orphans, opened, faults>>

Submit(s, form) ==
  /\ draft[form] # Nil /\ (form # "dialog" => draft[form].dirty)
  /\ ~SourceConflict(form) /\ ~Pending(form)
  /\ LET d == draft[form]
     IN Send(s, form, Request(d.op, Expected(form), d.base), d.secret)

(* The switch in a row of the list sends the values of that row.           *)
Toggle(s) ==
  /\ kind \in Versioned /\ cache.entity # Nil
  /\ Uncovered("edit") /\ ~Pending("row") /\ opened < MaxDrafts /\ Free(s)
  /\ opened' = opened + 1
  /\ call' = [call EXCEPT ![s] =
                [form |-> "row", own |-> TRUE, state |-> "sent", answer |-> Nil,
                 secret |-> FALSE,
                 request |-> Request("meta", cache.revision, cache.entity)]]
  /\ UNCHANGED <<kind, server, query, mounted, draft, orphans, faults>>

(* An accepted request brings the list up to date, and then one of three   *)
(* things happens.                                                         *)
Received(s) == call[s] # Nil /\ call[s].answer # Nil /\ call[s].state = "sent"
Accepted(s) ==
  /\ Received(s) /\ call[s].answer.ok
  /\ IF kind \in Merged THEN PublishAcknowledgement(call[s].answer)
     ELSE Publish([revision |-> call[s].answer.revision, entity |-> call[s].answer.entity])
  /\ UNCHANGED <<kind, server, mounted, orphans, opened, faults>>
HasSecret(c) == c.secret /\ c.answer.entity # Nil
Creates(c) == kind = "credential" /\ c.request.op = "create" /\ mounted
Without(form, drafts) == IF form \in Forms THEN [drafts EXCEPT ![form] = Nil] ELSE drafts

(* The secret follows, with the revision and the versions of the answer;   *)
(* the form still shows what it was opened with.                           *)
SecretRequest(c) ==
  LET second == Request("secret", c.answer.revision, c.answer.entity)
  IN IF c.request.base = Nil THEN second ELSE [second EXCEPT !.base = c.request.base]

SaveSecret(s) ==
  /\ Accepted(s)
  /\ HasSecret(call[s])
  /\ call' = [call EXCEPT ![s].request = SecretRequest(call[s]),
                          ![s].secret = FALSE, ![s].answer = Nil]
  /\ draft' = Rendered(cache')

(* The creation of a provider credential waits for the list.               *)
AwaitList(s) ==
  /\ Accepted(s)
  /\ ~HasSecret(call[s]) /\ Creates(call[s])
  /\ call' = [call EXCEPT ![s].state = "settling"]
  /\ draft' = Rendered(cache')

(* The form is closed; that of a new API key gives way to the model        *)
(* selection.                                                              *)
CloseForm(s) ==
  /\ Accepted(s)
  /\ ~HasSecret(call[s]) /\ ~Creates(call[s])
  /\ call' = [call EXCEPT ![s] = Nil]
  /\ LET c == call[s]
         closed == Without(c.form, Rendered(cache'))
     IN draft' = IF ~c.own THEN Rendered(cache')
                 ELSE IF kind = "credential" /\ c.request.op = "secret"
                   THEN [closed EXCEPT !["content"] = ModelsForm(cache')]
                 ELSE closed

(* A refused request leaves the form as it is; the confirmations of        *)
(* proxies and gateway keys stay too, the others are closed.               *)
AfterFailure(c) ==
  IF c.own /\ c.form = "dialog" /\ kind \notin {"proxy", "key"}
    THEN Without("dialog", draft) ELSE draft

ReceiveError(s) ==
  /\ Received(s) /\ ~call[s].answer.ok
  /\ RefreshAfterFailure
  /\ call' = [call EXCEPT ![s] = Nil]
  /\ draft' = AfterFailure(call[s])
  /\ UNCHANGED <<kind, server, mounted, orphans, opened, faults>>

(* The page gives up after ten seconds, whether or not the server has      *)
(* handled the request or will.                                            *)
TimeOut(s) ==
  /\ faults < MaxFaults /\ faults' = faults + 1
  /\ call[s] # Nil /\ call[s].state = "sent"
  /\ orphans' = IF call[s].answer = Nil THEN orphans \union {call[s].request} ELSE orphans
  /\ RefreshAfterFailure
  /\ call' = [call EXCEPT ![s] = Nil]
  /\ draft' = AfterFailure(call[s])
  /\ UNCHANGED <<kind, server, mounted, opened>>

Init ==
  /\ kind \in Kinds
  /\ revision = 1
  /\ entity \in (IF kind \in Creatable THEN {Nil, Created} ELSE {Created})
  /\ cache = Snapshot /\ fetch = Nil /\ stale = FALSE
  /\ mounted = TRUE /\ draft = [f \in Forms |-> Nil] /\ call = [s \in Slots |-> Nil]
  /\ orphans = {} /\ opened = 0 /\ faults = 0

Next ==
  \/ Outside \/ \E r \in orphans : HandleOrphan(r)
  \/ Refetch \/ FetchAnswers \/ FetchArrives \/ FetchFails
  \/ OpenProxyEditor \/ OpenKeyEditor \/ OpenEndpointEditor \/ OpenCredentialEditor
  \/ OpenAccountEditor \/ BeginSettings \/ OpenModels \/ OpenCatalog \/ BeginRateCard
  \/ RequestDelete \/ RequestRotate \/ Leave \/ Return
  \/ \E f \in Forms : Edit(f) \/ Close(f)
  \/ \E s \in Slots :
       \/ Handle(s) \/ Toggle(s) \/ SaveSecret(s) \/ AwaitList(s) \/ CloseForm(s)
       \/ ReceiveError(s) \/ TimeOut(s)
       \/ \E f \in Forms : Submit(s, f)

Spec == Init /\ [][Next]_vars

(***************************************************************************)
(* Properties                                                              *)
(***************************************************************************)
(* The shape of the state.                                                 *)
TypeOK ==
  /\ revision \in 1..MaxRevision
  /\ cache.revision \in 1..MaxRevision
  /\ entity # Nil => \A p \in {"meta", "content", "secret"} : entity[p] \in 1..revision
  /\ \A s \in Slots : call[s] # Nil => call[s].state \in {"sent", "settling"}
  /\ opened \in 0..MaxDrafts /\ faults \in 0..MaxFaults

(* No lost update: a request that is committed replaces only values that   *)
(* its form showed when it was opened, and deletes only what the           *)
(* confirmation showed, whoever wrote, read again or retried in between.   *)
(* The deletion of a proxy or an endpoint is excepted: it is bound to the  *)
(* list on the screen and not to the confirmation.                         *)
Sees(r) ==
  IF r.op = "delete"
    THEN kind \in {"proxy", "endpoint"} \/ entity = r.base
    ELSE \A p \in (IF r.op = "content" THEN {"content"} ELSE Writes(r) \ {"content"}) :
           entity[p] = r.base[p]
NoLostUpdate ==
  [][/\ \A s \in Slots :
          Handle(s) /\ revision' # revision /\ call[s].request.base # Nil
            => Sees(call[s].request)
     /\ \A r \in orphans :
          HandleOrphan(r) /\ revision' # revision /\ r.base # Nil => Sees(r)]_vars

(* The list on the screen never goes back to an older configuration.       *)
CacheNeverGoesBack == [][cache'.revision >= cache.revision]_vars

(* An edited form stays mounted with its edits when the list is read again *)
(* after a failed mutation: the administrator decides whether to redo it.  *)
DraftsSurviveConflicts ==
  [][FetchArrives /\ fetch.failed => \A f \in {"edit", "content"} :
       draft[f] # Nil => (draft[f].dirty => draft'[f] # Nil /\ draft'[f].dirty)]_vars

=============================================================================
