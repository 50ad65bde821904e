-------------------------- MODULE MCConfiguration --------------------------
(***************************************************************************)
(* The configuration and what is shown of the system: publications of a    *)
(* revision, the store they write, the administrator's forms that edit it, *)
(* and the log page that follows the stream of records.                    *)
(***************************************************************************)
EXTENDS ConfigPublisher

CONSTANTS p1, e1, c1, c2, a1, a2, k1, u1, u2, s1, s2, m1, m2, Direct, Global, All

VARIABLES
  part,
  db, published, up, used, storage_seen, refused,
  kind, revision, entity, cache, editing_fetch, stale, mounted, draft, call, orphans,
  opened, faults,
  feed, received, running, appended, stored, late, stream, attempts, signal, feed_scope,
  following, data, feed_fetch, op, hook, queryFailed, generation, clearing, owed, turns,
  scope

Store == INSTANCE ConfigStore WITH
  Proxies <- {p1}, Endpoints <- {e1}, Credentials <- {c1, c2}, Accounts <- {a1, a2},
  Keys <- {k1}, Urls <- {u1, u2}, Dialects <- {"chat", "responses"}, Secrets <- {s1, s2},
  Upstreams <- {m1, m2}, Publics <- {m1, m2}, MaxRevision <- 9, seen <- storage_seen
Editing == INSTANCE AdminEditing WITH
  Kinds <- {"proxy", "key", "endpoint", "credential", "account", "settings"},
  Slots <- {1}, MaxRevision <- 3, MaxDrafts <- 1, MaxFaults <- 1, Nil <- None,
  fetch <- editing_fetch
Feed == INSTANCE LogFeed WITH
  Feeds <- {"request", "system"}, MaxRecords <- 3, MaxRunning <- 1, MaxRows <- 3,
  MaxRejected <- 1, Limit <- 1, MaxPages <- 2, MaxFailures <- 1, MaxTurns <- 1,
  Nil <- None, scope <- feed_scope, fetch <- feed_fetch

storageVars ==
  <<db, published, up, used, storage_seen, refused>>
editingVars ==
  <<kind, revision, entity, cache, editing_fetch, stale, mounted, draft, call, orphans,
    opened, faults>>
feedVars ==
  <<feed, received, running, appended, stored, late, stream, attempts, signal,
    feed_scope, following, data, feed_fetch, op, hook, queryFailed, generation,
    clearing, owed, turns>>
mcVars == <<part, vars, scope, storageVars, editingVars, feedVars>>

(* One part moves in a behaviour; the others stay as they begin.           *)
PublicationMoves ==
  part = "publication" /\ UNCHANGED <<part, storageVars, editingVars, feedVars, scope>>
StoreMoves ==
  part = "storage" /\ UNCHANGED <<part, editingVars, feedVars, vars, scope>>
EditingMoves ==
  part = "editing" /\ UNCHANGED <<part, storageVars, feedVars, vars, scope>>
FeedMoves ==
  part = "feed" /\ UNCHANGED <<part, storageVars, editingVars, vars, scope>>

(* In three scopes a behaviour of the store begins with empty tables and   *)
(* stays within a group of them.  In the fourth every table that others    *)
(* refer to is filled first, by the operations that fill it, and then any  *)
(* operation may follow: the allow list is pruned through credentials,     *)
(* endpoints and accounts, a proxy is used by both, an endpoint moves to   *)
(* another URL.  Every scope has a last revision of its own.               *)
Scopes == {"routes", "accounts", "keys", "all"}
Depth == [routes |-> 5, accounts |-> 4, keys |-> 4, all |-> 9]
Filled == 7
Fill ==
  /\ db.revision < Filled
  /\ \/ db.revision = 1 /\ Store!CreateProxy(p1, TRUE)
     \/ db.revision = 2 /\ Store!CreateEndpoint(e1, [url |-> u1, dialect |-> "chat", upstream |-> "same"])
     \/ db.revision = 3 /\ Store!CreateCredential(c1, e1, p1, s1)
     \/ db.revision = 4 /\ Store!SetCredentialModels(c1, {<<m1, m1>>})
     \/ db.revision = 5 /\ \E p \in {p1, Global}, models \in {{m1}, {m2}} : Store!CreateAccount(a1, p, models)
     \/ db.revision = 6 /\ \E models \in {{m1}, {m1, m2}} : Store!ApplySettingChanges(models)
  /\ up' /\ db' # db
StoreStep ==
  /\ db.revision < Depth[scope] \/ ~up
  /\ \/ scope = "routes" /\ (Store!EndpointStep \/ Store!CredentialStep \/ Store!SettingStep)
     \/ scope = "accounts" /\ (Store!ProxyStep \/ Store!AccountStep \/ Store!SettingStep)
     \/ scope = "keys" /\ (Store!ProxyStep \/ Store!KeyStep)
     \/ scope = "all" /\ (Fill \/ (db.revision >= Filled /\ Store!Next))
     \/ Store!Restart

MCInit ==
  /\ part \in {"publication", "storage", "editing", "feed"}
  /\ Init /\ Store!Init /\ Editing!Init /\ Feed!Init
  /\ part # "storage" => scope = "routes"
  /\ scope \in Scopes
  /\ part # "editing" => kind = "settings"
  /\ part # "feed" => feed = "request"

MCNext ==
  \/ PublicationMoves /\ Next
  \/ StoreMoves /\ StoreStep
  \/ EditingMoves /\ Editing!Next
  \/ FeedMoves /\ Feed!Next

MCSpec ==
  /\ MCInit /\ [][MCNext]_mcVars

-----------------------------------------------------------------------------
(* The store, what is published from it and what a mutation validated      *)
(* agree, public models follow the credentials that serve them, and a      *)
(* generation tells two states of a credential, account or proxy apart.    *)
StoreAgrees ==
  /\ Store!PublishedIsStored /\ Store!ValidatedIsStored
  /\ Store!RoutesFollowCredentials /\ Store!GenerationsTell

(* An operator's edit never overwrites what another wrote since the form   *)
(* was opened.                                                             *)
NoLostUpdate == Editing!NoLostUpdate

(* A log page that follows the stream has no hole between its rows.        *)
NoHoles == Feed!NoHoles
=============================================================================
