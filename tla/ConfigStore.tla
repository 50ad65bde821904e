------------------------------ MODULE ConfigStore ------------------------------
(* The configuration half of the storage crate: the SQLite tables, the domain  *)
(* rules that compute the next entities, the rows each mutation writes, the    *)
(* partial readback that becomes the candidate snapshot, and the transaction   *)
(* around them.  Write transactions are serialised by the single write         *)
(* connection (BEGIN IMMEDIATE), so a mutation is one step; a mutation that    *)
(* fails validation or whose expected versions are stale changes nothing and   *)
(* is a stutter.  Names, labels and an endpoint's enabled flag, which no other *)
(* table depends on, are left out; ids are never reused (random UUIDs), and    *)
(* every version counter is bounded through MaxRevision.                       *)
EXTENDS Naturals, FiniteSets, Functions

CONSTANTS Proxies, Endpoints, Credentials, Accounts, Keys,  \* ids to be created
          Urls, Dialects, Secrets, Upstreams, Publics,      \* data a draft carries
          Direct,                                           \* the built-in proxy
          Global,                                           \* an account follows the global proxy
          All,                                              \* no allow list
          MaxRevision

VARIABLES db,         \* the rows SQLite holds
          published,  \* the configuration the process serves from
          up,         \* FALSE from an indeterminate commit to the restart
          used,       \* ids ever created (history)
          seen,       \* generations ever committed and what they stood for (history)
          refused     \* validated operations that SQLite or a readback refused (history)

vars == <<db, published, up, used, seen, refused>>

--------------------------------------------------------------------------------
(* Loading: rows to entities.                                                   *)

With(row, f, x) == [k \in DOMAIN row \cup {f} |-> IF k = f THEN x ELSE row[k]]
Extend(table, id, row) == [i \in DOMAIN table \cup {id} |-> IF i = id THEN row ELSE table[i]]
Remove(table, ids) == Restrict(table, DOMAIN table \ ids)

LoadProxies(rows) ==
    [p \in DOMAIN rows.profiles |-> With(rows.profiles[p], "authenticated", p \in DOMAIN rows.passwords)]

PasswordsLoad(rows) ==
    \A p \in DOMAIN rows.passwords :
        /\ p \in DOMAIN rows.profiles
        /\ rows.passwords[p].version = rows.profiles[p].auth_version
        /\ rows.profiles[p].auth_version > 0

GlobalLoads(proxies, global) == global \in DOMAIN proxies /\ proxies[global].enabled

LoadCredentials(rows) ==
    [c \in DOMAIN rows.credentials |->
        With(rows.credentials[c], "models",
             {<<m[2], m[3]>> : m \in {r \in rows.credential_models : r[1] = c}})]

CredentialsLoad(credentials, model_rows, endpoints, proxies) ==
    /\ \A m \in model_rows : m[1] \in DOMAIN credentials
    /\ \A c \in DOMAIN credentials : /\ credentials[c].endpoint \in DOMAIN endpoints
                                     /\ credentials[c].proxy \in DOMAIN proxies

EffectiveUpstream(endpoint) == IF endpoint.upstream = "same" THEN endpoint.dialect ELSE endpoint.upstream

RoutesLoad(routes, targets, endpoints) ==
    /\ \A t \in targets : /\ t.route \in routes
                          /\ t.endpoint \in DOMAIN endpoints
                          /\ endpoints[t.endpoint].dialect = t.route[1]
                          /\ EffectiveUpstream(endpoints[t.endpoint]) = t.dialect
    /\ \A r \in routes : \E t \in targets : t.route = r

LoadAccounts(rows) ==
    [a \in DOMAIN rows.accounts |->
        With(rows.accounts[a], "models", {m[2] : m \in {r \in rows.account_models : r[1] = a}})]

AccountsLoad(accounts, model_rows, proxies) ==
    /\ \A m \in model_rows : m[1] \in DOMAIN accounts
    /\ \A a \in DOMAIN accounts : accounts[a].proxy \in DOMAIN proxies \cup {Global}

Load(rows) ==
    [revision |-> rows.revision, proxies |-> LoadProxies(rows), global |-> rows.global,
     passwords |-> rows.passwords, endpoints |-> rows.endpoints,
     credentials |-> LoadCredentials(rows), routes |-> <<rows.routes, rows.targets>>,
     accounts |-> LoadAccounts(rows), keys |-> rows.keys, settings |-> rows.allowed]

--------------------------------------------------------------------------------
(* Domain rules: the next version of an entity.                                 *)

ProxyCreated(enabled) == [enabled |-> enabled, auth_version |-> 0, version |-> 1]

ProxyUpdated(proxy, enabled) ==
    IF proxy.enabled = enabled THEN proxy
    ELSE [proxy EXCEPT !.enabled = enabled, !.version = @ + 1]

SetAuthentication(proxy) ==
    [proxy EXCEPT !.authenticated = TRUE, !.auth_version = @ + 1, !.version = @ + 1]

ClearAuthentication(proxy) ==
    IF ~proxy.authenticated THEN proxy
    ELSE [proxy EXCEPT !.authenticated = FALSE, !.auth_version = @ + 1, !.version = @ + 1]

\* An explicit upstream dialect equal to the endpoint's own is dropped.
EndpointDrafts == {d \in [url : Urls, dialect : Dialects, upstream : Dialects \cup {"same"}] :
                      d.upstream # d.dialect}

EndpointCreated(draft) == With(draft, "version", 1)

EndpointUpdated(endpoint, draft) ==
    IF endpoint = With(draft, "version", endpoint.version) THEN endpoint
    ELSE With(draft, "version", endpoint.version + 1)

CredentialCreated(e, proxy, secret) ==
    [endpoint |-> e, secret |-> secret, secret_version |-> 1, generation |-> 1, version |-> 1,
     proxy |-> proxy, enabled |-> TRUE, models |-> {}]

CredentialUpdated(credential, proxy, enabled) ==
    IF credential.proxy = proxy /\ credential.enabled = enabled THEN credential
    ELSE [credential EXCEPT !.proxy = proxy, !.enabled = enabled, !.version = @ + 1,
            !.generation = IF ~credential.enabled /\ enabled THEN @ + 1 ELSE @]

ValidModels(models) ==
    \A m, n \in models : (m[1] = n[1] \/ m[2] = n[2]) => m = n

CredentialWithModels(credential, models) ==
    IF credential.models = models THEN credential
    ELSE [credential EXCEPT !.models = models, !.version = @ + 1]

\* Faulty variant: the new secret keeps the generation of the old one.
CredentialRotatedInPlace(credential, secret) ==
    [credential EXCEPT !.secret = secret, !.secret_version = @ + 1, !.version = @ + 1, !.models = {}]

CredentialRotated(credential, secret) ==
    [credential EXCEPT !.secret = secret, !.secret_version = @ + 1, !.generation = @ + 1,
                       !.version = @ + 1, !.models = {}]

WithEndpointGenerationIncremented(credentials, e) ==
    [c \in DOMAIN credentials |->
        IF credentials[c].endpoint = e THEN [credentials[c] EXCEPT !.generation = @ + 1]
        ELSE credentials[c]]

AccountCreated(proxy, models) ==
    [proxy |-> proxy, enabled |-> TRUE, token_version |-> 1, generation |-> 1, version |-> 1,
     models |-> models]

AccountUpdated(account, proxy, enabled) ==
    IF account.proxy = proxy /\ account.enabled = enabled THEN account
    ELSE [account EXCEPT !.proxy = proxy, !.enabled = enabled, !.version = @ + 1,
            !.generation = IF (~account.enabled /\ enabled) \/ account.proxy # proxy THEN @ + 1 ELSE @]

AccountWithModels(account, models) ==
    IF account.models = models THEN account
    ELSE [account EXCEPT !.models = models, !.version = @ + 1]

AccountRefreshed(account) == [account EXCEPT !.token_version = @ + 1]

AccountReauthorized(account, proxy, models) ==
    [account EXCEPT !.proxy = proxy, !.models = models, !.token_version = @ + 1,
        !.generation = IF account.proxy # proxy THEN @ + 1 ELSE @,
        !.version = IF account.proxy # proxy \/ account.models # models THEN @ + 1 ELSE @]

KeyCreated(token) == [token |-> token, token_version |-> 1, version |-> 1, enabled |-> TRUE]

KeyUpdated(key, enabled) ==
    IF key.enabled = enabled THEN key ELSE [key EXCEPT !.enabled = enabled, !.version = @ + 1]

KeyRotated(key, token) ==
    [key EXCEPT !.token = token, !.token_version = @ + 1, !.version = @ + 1]

\* Whether the models of all credentials of one endpoint form a bijection.
RegisterEndpointModels(credentials) ==
    \A c, d \in DOMAIN credentials :
        credentials[c].endpoint = credentials[d].endpoint
            => ValidModels(credentials[c].models \cup credentials[d].models)

\* The routes and targets that a set of credentials asks for.
FromCredentials(credentials, endpoints) ==
    LET targets == {[route |-> <<endpoints[credentials[c].endpoint].dialect, m[2]>>,
                     endpoint |-> credentials[c].endpoint, upstream |-> m[1],
                     dialect |-> EffectiveUpstream(endpoints[credentials[c].endpoint])] :
                        <<c, m>> \in {x \in (DOMAIN credentials) \X (Upstreams \X Publics) :
                                        x[2] \in credentials[x[1]].models}}
    IN <<{t.route : t \in targets}, targets>>

ConfiguredPublicModels(routes, accounts) ==
    {r[2] : r \in routes[1]} \cup UNION {accounts[a].models : a \in DOMAIN accounts}

RestrictModelAllowlist(allowed, routes, accounts) ==
    IF allowed = All THEN All ELSE allowed \cap ConfiguredPublicModels(routes, accounts)

--------------------------------------------------------------------------------
(* Rows: what each statement writes.  A statement that breaks a RESTRICT        *)
(* foreign key fails, and with it the transaction.                              *)

Statement(rows, ok) == [rows EXCEPT !.broken = @ \/ ~ok]

InsertProfile(rows, p, proxy) == [rows EXCEPT !.profiles = Extend(@, p, proxy)]

UpdateProfile(rows, p, proxy) ==
    [rows EXCEPT !.profiles[p] = [enabled |-> proxy.enabled, auth_version |-> proxy.auth_version,
                                  version |-> proxy.version]]

\* Credentials, accounts and the global choice restrict the delete; the password cascades.
DeleteProfile(rows, p) ==
    Statement([rows EXCEPT !.profiles = Remove(@, {p}), !.passwords = Remove(@, {p})],
              /\ \A c \in DOMAIN rows.credentials : rows.credentials[c].proxy # p
              /\ \A a \in DOMAIN rows.accounts : rows.accounts[a].proxy # p
              /\ rows.global # p)

SetGlobalRow(rows, p) == [rows EXCEPT !.global = p]

UpdateProfileVersions(rows, p, proxy) ==
    [rows EXCEPT !.profiles[p].auth_version = proxy.auth_version, !.profiles[p].version = proxy.version]

SetAuthenticationRows(rows, p, proxy, password) ==
    [UpdateProfileVersions(rows, p, proxy) EXCEPT
        !.passwords = Extend(@, p, [version |-> proxy.auth_version, password |-> password])]

ClearAuthenticationRows(rows, p, proxy) ==
    [UpdateProfileVersions(rows, p, proxy) EXCEPT !.passwords = Remove(@, {p})]

InsertEndpoint(rows, e, endpoint) == [rows EXCEPT !.endpoints = Extend(@, e, endpoint)]
UpdateEndpoint(rows, e, endpoint) == [rows EXCEPT !.endpoints[e] = endpoint]

DeleteCredentialRows(rows, cs) ==
    [rows EXCEPT !.credentials = Remove(@, cs), !.credential_models = {m \in @ : m[1] \notin cs}]

\* Targets restrict the delete.
DeleteEndpoint(rows, e) ==
    LET mine == {c \in DOMAIN rows.credentials : rows.credentials[c].endpoint = e}
    IN Statement([DeleteCredentialRows(rows, mine) EXCEPT !.endpoints = Remove(@, {e})],
                 \A t \in rows.targets : t.endpoint # e)

InsertCredential(rows, c, credential) ==
    [rows EXCEPT !.credentials = Extend(@, c, Restrict(credential, DOMAIN credential \ {"models"}))]

UpdateCredentialMetadata(rows, c, credential) ==
    [rows EXCEPT !.credentials[c].proxy = credential.proxy, !.credentials[c].enabled = credential.enabled,
                 !.credentials[c].generation = credential.generation,
                 !.credentials[c].version = credential.version]

RotateSecretRow(rows, c, credential) ==
    [rows EXCEPT !.credentials[c].secret = credential.secret,
                 !.credentials[c].secret_version = credential.secret_version,
                 !.credentials[c].generation = credential.generation,
                 !.credentials[c].version = credential.version]

ReplaceCredentialModels(rows, c, credential) ==
    [rows EXCEPT !.credential_models =
        {m \in @ : m[1] # c} \cup {<<c, m[1], m[2]>> : m \in credential.models}]

BumpEndpointCredentialGenerations(rows, e) ==
    [rows EXCEPT !.credentials = WithEndpointGenerationIncremented(@, e)]

\* Insert what is new, then delete what is gone; deleting a route cascades to its targets.
ReconcileModelRoutes(rows, current, wanted) ==
    LET gone == current[1] \ wanted[1]
    IN [rows EXCEPT !.routes = (@ \cup wanted[1]) \ gone,
                    !.targets = {t \in (@ \ (current[2] \ wanted[2])) \cup wanted[2] : t.route \notin gone}]

\* Faulty variant: models that are no longer published stay on the allow list.
PruneNothing(rows, settings, routes, accounts) == rows

PruneModelAllowlist(rows, settings, routes, accounts) ==
    [rows EXCEPT !.allowed = RestrictModelAllowlist(settings, routes, accounts)]

InsertAccount(rows, a, account) ==
    [rows EXCEPT !.accounts = Extend(@, a, Restrict(account, DOMAIN account \ {"models"}))]

UpdateAccountMetadata(rows, a, account) ==
    [rows EXCEPT !.accounts[a].proxy = account.proxy, !.accounts[a].enabled = account.enabled,
                 !.accounts[a].generation = account.generation, !.accounts[a].version = account.version]

RefreshAccountRow(rows, a, account) ==
    [rows EXCEPT !.accounts[a].token_version = account.token_version,
                 !.accounts[a].generation = account.generation,
                 !.accounts[a].version = account.version, !.accounts[a].proxy = account.proxy]

ReplaceAccountModels(rows, a, account) ==
    [rows EXCEPT !.account_models = {m \in @ : m[1] # a} \cup {<<a, m>> : m \in account.models}]

DeleteAccountRow(rows, a) ==
    [rows EXCEPT !.accounts = Remove(@, {a}), !.account_models = {m \in @ : m[1] # a}]

InsertKey(rows, k, key) == [rows EXCEPT !.keys = Extend(@, k, key)]

UpdateKeyRow(rows, k, key) ==
    [rows EXCEPT !.keys[k].enabled = key.enabled, !.keys[k].version = key.version]

RotateKeyRow(rows, k, key) ==
    [rows EXCEPT !.keys[k].token = key.token, !.keys[k].token_version = key.token_version,
                 !.keys[k].version = key.version]

DeleteKeyRow(rows, k) == [rows EXCEPT !.keys = Remove(@, {k})]

BumpRevision(rows) == [rows EXCEPT !.revision = @ + 1]

--------------------------------------------------------------------------------
(* Readback: the candidate takes the reloaded parts from the rows and keeps     *)
(* every other part of the configuration loaded at the start.                   *)

Readback(current, rows, parts) ==
    [p \in DOMAIN current |-> IF p \in parts \cup {"revision"} THEN Load(rows)[p] ELSE current[p]]

ReadbackProxy == {"proxies", "global", "passwords"}
ReadbackEndpoint(credentials_changed, routes_changed) ==
    {"endpoints"} \cup (IF credentials_changed THEN {"credentials"} ELSE {})
                  \cup (IF routes_changed THEN {"routes", "settings"} ELSE {})
\* Faulty variant: the pruned allow list is not read back.
ReadbackWithoutSettings(routes_changed) ==
    {"credentials"} \cup (IF routes_changed THEN {"routes"} ELSE {})
ReadbackCredential(routes_changed) ==
    {"credentials"} \cup (IF routes_changed THEN {"routes", "settings"} ELSE {})
ReadbackAccount(settings_may_change) ==
    {"accounts"} \cup (IF settings_may_change THEN {"settings"} ELSE {})
ReadbackKey == {"keys"}
ReadbackSetting == {"settings"}

\* The validations that reloading and revalidating the parts runs.
CandidateIsValid(candidate, rows) ==
    /\ PasswordsLoad(rows)
    /\ GlobalLoads(candidate.proxies, candidate.global)
    /\ CredentialsLoad(candidate.credentials, rows.credential_models, candidate.endpoints, candidate.proxies)
    /\ RoutesLoad(candidate.routes[1], candidate.routes[2], candidate.endpoints)
    /\ AccountsLoad(candidate.accounts, rows.account_models, candidate.proxies)

\* What every generation of a credential or an account stands for.
Identities(c) ==
    {<<i, c.credentials[i].generation,
       Restrict(c.endpoints[c.credentials[i].endpoint], {"url", "dialect", "upstream"}),
       c.credentials[i].secret>> : i \in DOMAIN c.credentials}
    \cup {<<a, c.accounts[a].generation, c.accounts[a].proxy, a>> : a \in DOMAIN c.accounts}

\* One write transaction: the rows are written, the revision moves, the readback
\* must match what the mutation computed, the compiler accepts or rejects, and
\* the commit succeeds or leaves the process not knowing.
Transact(operation, rows, parts, expected) ==
    LET stored == BumpRevision(rows)
        candidate == Readback(Load(db), stored, parts)
    IN /\ up /\ db.revision < MaxRevision
       /\ IF \/ stored.broken
             \/ ~CandidateIsValid(candidate, stored)
             \/ \E p \in DOMAIN expected : candidate[p] # expected[p]
          THEN /\ refused' = refused \cup {operation}
               /\ UNCHANGED <<db, published, up, seen>>
          ELSE /\ \/ db' = stored /\ published' = candidate /\ UNCHANGED up
                  \/ UNCHANGED <<db, published, up>>
                  \/ db' \in {stored, db} /\ up' = FALSE /\ UNCHANGED published
               /\ seen' = seen \cup Identities(Load(db'))
               /\ UNCHANGED refused

Fresh(id) == id \notin used /\ used' = used \cup {id}

--------------------------------------------------------------------------------
(* Operations.                                                                  *)

CreateProxy(p, enabled) ==
    /\ Fresh(p)
    /\ Transact("create_proxy", InsertProfile(db, p, ProxyCreated(enabled)), ReadbackProxy,
                [proxies |-> Extend(LoadProxies(db), p, With(ProxyCreated(enabled), "authenticated", FALSE))])

UpdateProxy(p, enabled) ==
    LET updated == ProxyUpdated(LoadProxies(db)[p], enabled)
    IN /\ updated # LoadProxies(db)[p]
       /\ db.global = p => enabled
       /\ Transact("update_proxy", UpdateProfile(db, p, updated), ReadbackProxy,
                   [proxies |-> [LoadProxies(db) EXCEPT ![p] = updated]])
       /\ UNCHANGED used

DeleteProxy(p) ==
    /\ db.global # p
    /\ \A c \in DOMAIN db.credentials : db.credentials[c].proxy # p
    /\ Transact("delete_proxy", DeleteProfile(db, p), ReadbackProxy,
                [proxies |-> Remove(LoadProxies(db), {p})])
    /\ UNCHANGED used

SetGlobalProxy(p) ==
    /\ db.global # p /\ LoadProxies(db)[p].enabled
    /\ Transact("set_global", SetGlobalRow(db, p), ReadbackProxy, [global |-> p])
    /\ UNCHANGED used

SetProxyAuthentication(p, password) ==
    LET updated == SetAuthentication(LoadProxies(db)[p])
    IN /\ Transact("set_authentication", SetAuthenticationRows(db, p, updated, password), ReadbackProxy,
                   [proxies |-> [LoadProxies(db) EXCEPT ![p] = updated]])
       /\ UNCHANGED used

ClearProxyAuthentication(p) ==
    LET updated == ClearAuthentication(LoadProxies(db)[p])
    IN /\ updated # LoadProxies(db)[p]
       /\ Transact("clear_authentication", ClearAuthenticationRows(db, p, updated), ReadbackProxy,
                   [proxies |-> [LoadProxies(db) EXCEPT ![p] = updated]])
       /\ UNCHANGED used

CreateEndpoint(e, draft) ==
    /\ Fresh(e)
    /\ Transact("create_endpoint", InsertEndpoint(db, e, EndpointCreated(draft)), ReadbackEndpoint(FALSE, FALSE),
                [endpoints |-> Extend(db.endpoints, e, EndpointCreated(draft))])

ReconcileModelRoutesAndAllowlist(rows, routes) ==
    PruneModelAllowlist(ReconcileModelRoutes(rows, <<db.routes, db.targets>>, routes),
                        db.allowed, routes, LoadAccounts(db))

UpdateEndpointOp(e, draft) ==
    LET existing == db.endpoints[e]
        updated == EndpointUpdated(existing, draft)
        endpoints == [db.endpoints EXCEPT ![e] = updated]
        protocol_changed == existing.dialect # updated.dialect \/ existing.upstream # updated.upstream
        bump == /\ \E c \in DOMAIN db.credentials : db.credentials[c].endpoint = e
                /\ existing.url # updated.url \/ protocol_changed
        credentials == IF bump THEN WithEndpointGenerationIncremented(LoadCredentials(db), e)
                       ELSE LoadCredentials(db)
        routes == FromCredentials(credentials, endpoints)
        written == UpdateEndpoint(db, e, updated)
        bumped == IF bump THEN BumpEndpointCredentialGenerations(written, e) ELSE written
    IN /\ updated # existing
       /\ Transact("update_endpoint",
                   IF protocol_changed THEN ReconcileModelRoutesAndAllowlist(bumped, routes) ELSE bumped,
                   ReadbackEndpoint(bump, protocol_changed),
                   [endpoints |-> endpoints, credentials |-> credentials,
                    routes |-> IF protocol_changed THEN routes ELSE <<db.routes, db.targets>>])
       /\ UNCHANGED used

\* Faulty variant: the endpoint goes before the targets that refer to it.
DeleteEndpointFirst(e) ==
    LET endpoints == Remove(db.endpoints, {e})
        mine == {c \in DOMAIN db.credentials : db.credentials[c].endpoint = e}
        credentials == Remove(LoadCredentials(db), mine)
        routes == FromCredentials(credentials, endpoints)
    IN /\ Transact("delete_endpoint",
                   ReconcileModelRoutesAndAllowlist(DeleteEndpoint(db, e), routes),
                   ReadbackEndpoint(mine # {}, TRUE),
                   [endpoints |-> endpoints, credentials |-> credentials, routes |-> routes])
       /\ UNCHANGED used

DeleteEndpointOp(e) ==
    LET endpoints == Remove(db.endpoints, {e})
        mine == {c \in DOMAIN db.credentials : db.credentials[c].endpoint = e}
        credentials == Remove(LoadCredentials(db), mine)
        routes == FromCredentials(credentials, endpoints)
    IN /\ Transact("delete_endpoint",
                   DeleteEndpoint(ReconcileModelRoutesAndAllowlist(db, routes), e),
                   ReadbackEndpoint(mine # {}, TRUE),
                   [endpoints |-> endpoints, credentials |-> credentials, routes |-> routes])
       /\ UNCHANGED used

CreateCredential(c, e, proxy, secret) ==
    /\ Fresh(c)
    /\ Transact("create_credential", InsertCredential(db, c, CredentialCreated(e, proxy, secret)),
                ReadbackCredential(FALSE),
                [credentials |-> Extend(LoadCredentials(db), c, CredentialCreated(e, proxy, secret))])

UpdateCredential(c, proxy, enabled) ==
    LET updated == CredentialUpdated(LoadCredentials(db)[c], proxy, enabled)
    IN /\ updated # LoadCredentials(db)[c]
       /\ Transact("update_credential", UpdateCredentialMetadata(db, c, updated), ReadbackCredential(FALSE),
                   [credentials |-> [LoadCredentials(db) EXCEPT ![c] = updated]])
       /\ UNCHANGED used

\* The tail shared by the credential mutations that change models.
TransactModels(operation, rows, credentials) ==
    LET routes == FromCredentials(credentials, db.endpoints)
    IN /\ RegisterEndpointModels(credentials)
       /\ Transact(operation, ReconcileModelRoutesAndAllowlist(rows, routes), ReadbackCredential(TRUE),
                   [credentials |-> credentials, routes |-> routes])
       /\ UNCHANGED used

RotateSecret(c, secret) ==
    LET rotated == CredentialRotated(LoadCredentials(db)[c], secret)
    IN TransactModels("rotate_secret", ReplaceCredentialModels(RotateSecretRow(db, c, rotated), c, rotated),
                      [LoadCredentials(db) EXCEPT ![c] = rotated])

SetCredentialModels(c, models) ==
    LET updated == CredentialWithModels(LoadCredentials(db)[c], models)
    IN /\ ValidModels(models) /\ updated # LoadCredentials(db)[c]
       /\ TransactModels("set_models",
                         ReplaceCredentialModels(UpdateCredentialMetadata(db, c, updated), c, updated),
                         [LoadCredentials(db) EXCEPT ![c] = updated])

DeleteCredential(c) ==
    TransactModels("delete_credential", DeleteCredentialRows(db, {c}), Remove(LoadCredentials(db), {c}))

\* The tail shared by the account mutations that may take models away.
TransactAccounts(operation, rows, accounts) ==
    /\ Transact(operation, PruneModelAllowlist(rows, db.allowed, <<db.routes, db.targets>>, accounts),
                ReadbackAccount(TRUE), [accounts |-> accounts])

CreateAccount(a, proxy, models) ==
    LET account == AccountCreated(proxy, models)
    IN /\ Fresh(a)
       /\ TransactAccounts("create_account", ReplaceAccountModels(InsertAccount(db, a, account), a, account),
                           Extend(LoadAccounts(db), a, account))

\* A batch import neither prunes nor re-reads the settings.
CreateAccounts(a, b, models) ==
    LET account == AccountCreated(Global, models)
    IN /\ a # b /\ {a, b} \cap used = {} /\ used' = used \cup {a, b}
       /\ Transact("create_accounts",
                   ReplaceAccountModels(InsertAccount(
                       ReplaceAccountModels(InsertAccount(db, a, account), a, account), b, account), b, account),
                   ReadbackAccount(FALSE),
                   [accounts |-> Extend(Extend(LoadAccounts(db), a, account), b, account)])

ReauthorizeAccount(a, proxy, models) ==
    LET existing == LoadAccounts(db)[a]
        updated == AccountReauthorized(existing, proxy, models)
        written == RefreshAccountRow(db, a, updated)
    IN /\ TransactAccounts("reauthorize",
                           IF updated.models # existing.models THEN ReplaceAccountModels(written, a, updated)
                           ELSE written,
                           [LoadAccounts(db) EXCEPT ![a] = updated])
       /\ UNCHANGED used

UpdateAccount(a, proxy, enabled) ==
    LET updated == AccountUpdated(LoadAccounts(db)[a], proxy, enabled)
    IN /\ updated # LoadAccounts(db)[a]
       /\ TransactAccounts("update_account", UpdateAccountMetadata(db, a, updated),
                           [LoadAccounts(db) EXCEPT ![a] = updated])
       /\ UNCHANGED used

SetAccountModels(a, models) ==
    LET updated == AccountWithModels(LoadAccounts(db)[a], models)
    IN /\ updated # LoadAccounts(db)[a]
       /\ TransactAccounts("set_account_models",
                           ReplaceAccountModels(UpdateAccountMetadata(db, a, updated), a, updated),
                           [LoadAccounts(db) EXCEPT ![a] = updated])
       /\ UNCHANGED used

\* One refresh or a batch of them; an account that is gone is skipped.
RefreshAccounts(batch) ==
    LET found == batch \cap DOMAIN db.accounts
        accounts == [a \in DOMAIN db.accounts |->
                        IF a \in found THEN AccountRefreshed(LoadAccounts(db)[a]) ELSE LoadAccounts(db)[a]]
    IN /\ found # {}
       /\ TransactAccounts("refresh_accounts",
                           [db EXCEPT !.accounts = [a \in DOMAIN db.accounts |->
                               IF a \in found THEN RefreshAccountRow(db, a, accounts[a]).accounts[a]
                               ELSE db.accounts[a]]], accounts)
       /\ UNCHANGED used

DeleteAccount(a) ==
    /\ TransactAccounts("delete_account", DeleteAccountRow(db, a), Remove(LoadAccounts(db), {a}))
    /\ UNCHANGED used

CreateKey(k, token) ==
    /\ Fresh(k)
    /\ Transact("create_key", InsertKey(db, k, KeyCreated(token)), ReadbackKey,
                [keys |-> Extend(db.keys, k, KeyCreated(token))])

UpdateKey(k, enabled) ==
    LET updated == KeyUpdated(db.keys[k], enabled)
    IN /\ updated # db.keys[k]
       /\ Transact("update_key", UpdateKeyRow(db, k, updated), ReadbackKey,
                   [keys |-> [db.keys EXCEPT ![k] = updated]])
       /\ UNCHANGED used

RotateKey(k, token) ==
    LET rotated == KeyRotated(db.keys[k], token)
    IN /\ Transact("rotate_key", RotateKeyRow(db, k, rotated), ReadbackKey,
                   [keys |-> [db.keys EXCEPT ![k] = rotated]])
       /\ UNCHANGED used

DeleteKey(k) ==
    /\ Transact("delete_key", DeleteKeyRow(db, k), ReadbackKey, [keys |-> Remove(db.keys, {k})])
    /\ UNCHANGED used

ApplySettingChanges(value) ==
    LET allowed == RestrictModelAllowlist(value, <<db.routes, db.targets>>, LoadAccounts(db))
    IN /\ allowed # db.allowed
       /\ Transact("settings", [db EXCEPT !.allowed = allowed], ReadbackSetting, [settings |-> allowed])
       /\ UNCHANGED used

\* An indeterminate commit ends the process; the next start loads the rows.
Restart ==
    /\ ~up /\ up' = TRUE
    /\ published' = Load(db)
    /\ UNCHANGED <<db, used, seen, refused>>

--------------------------------------------------------------------------------
InitialRows ==
    [revision |-> 1, broken |-> FALSE,
     profiles |-> [p \in {Direct} |-> ProxyCreated(TRUE)], passwords |-> [p \in {} |-> 0], global |-> Direct,
     endpoints |-> [e \in {} |-> 0], credentials |-> [c \in {} |-> 0], credential_models |-> {},
     routes |-> {}, targets |-> {}, accounts |-> [a \in {} |-> 0], account_models |-> {},
     keys |-> [k \in {} |-> 0], allowed |-> All]

Init ==
    /\ db = InitialRows
    /\ published = Load(InitialRows)
    /\ up = TRUE
    /\ used = {} /\ seen = {} /\ refused = {}

ProxyStep ==
    \/ \E p \in Proxies, on \in BOOLEAN : CreateProxy(p, on)
    \/ \E p \in DOMAIN db.profiles \ {Direct} :
          \/ \E on \in BOOLEAN : UpdateProxy(p, on)
          \/ DeleteProxy(p)
          \/ \E s \in Secrets : SetProxyAuthentication(p, s)
          \/ ClearProxyAuthentication(p)
    \/ \E p \in DOMAIN db.profiles : SetGlobalProxy(p)

EndpointStep ==
    \/ \E e \in Endpoints, d \in EndpointDrafts : CreateEndpoint(e, d)
    \/ \E e \in DOMAIN db.endpoints :
          \/ \E d \in EndpointDrafts : UpdateEndpointOp(e, d)
          \/ DeleteEndpointOp(e)

CredentialStep ==
    \/ \E c \in Credentials, e \in DOMAIN db.endpoints, p \in DOMAIN db.profiles, s \in Secrets :
          CreateCredential(c, e, p, s)
    \/ \E c \in DOMAIN db.credentials :
          \/ \E p \in DOMAIN db.profiles, on \in BOOLEAN : UpdateCredential(c, p, on)
          \/ \E s \in Secrets : RotateSecret(c, s)
          \/ \E models \in SUBSET (Upstreams \X Publics) : SetCredentialModels(c, models)
          \/ DeleteCredential(c)

AccountStep ==
    \/ \E a \in Accounts, p \in DOMAIN db.profiles \cup {Global}, models \in SUBSET Publics :
          CreateAccount(a, p, models)
    \/ \E a, b \in Accounts, models \in SUBSET Publics : CreateAccounts(a, b, models)
    \/ \E a \in DOMAIN db.accounts, p \in DOMAIN db.profiles \cup {Global} :
          \/ \E models \in SUBSET Publics : ReauthorizeAccount(a, p, models)
          \/ \E on \in BOOLEAN : UpdateAccount(a, p, on)
    \/ \E a \in DOMAIN db.accounts :
          \/ \E models \in SUBSET Publics : SetAccountModels(a, models)
          \/ DeleteAccount(a)
    \/ \E batch \in SUBSET Accounts : RefreshAccounts(batch)

KeyStep ==
    \/ \E k \in Keys, t \in Secrets : CreateKey(k, t)
    \/ \E k \in DOMAIN db.keys :
          \/ \E on \in BOOLEAN : UpdateKey(k, on)
          \/ \E t \in Secrets : RotateKey(k, t)
          \/ DeleteKey(k)

SettingStep == \E value \in {All} \cup SUBSET Publics : ApplySettingChanges(value)

Next == ProxyStep \/ EndpointStep \/ CredentialStep \/ AccountStep \/ KeyStep \/ SettingStep \/ Restart

Spec == Init /\ [][Next]_vars

--------------------------------------------------------------------------------
TypeOK ==
    /\ db.revision \in 1..MaxRevision /\ ~db.broken
    /\ DOMAIN db.profiles \subseteq Proxies \cup {Direct}
    /\ DOMAIN db.endpoints \subseteq Endpoints /\ DOMAIN db.credentials \subseteq Credentials
    /\ up \in BOOLEAN

\* The candidate assembled by the partial readbacks, which traffic is served
\* from, is always what a full load of the committed rows would give (the parts
\* a readback keeps from memory are the ones the mutation did not touch).
PublishedIsStored == up => published = Load(db)

\* A mutation that passed validation is stored: neither a foreign key nor a
\* readback that differs from the prepared entities nor a configuration that
\* does not load refuses it.  The one exception is deleting a proxy an OAuth
\* account selects, which is left to the foreign key.
ValidatedIsStored == refused \subseteq {"delete_proxy"}

\* The stored routes are at all times the ones the stored credentials ask for,
\* and the allow list names only models that some route or account publishes.
RoutesFollowCredentials ==
    /\ <<db.routes, db.targets>> = FromCredentials(LoadCredentials(db), db.endpoints)
    /\ db.allowed # All => db.allowed \subseteq
            ConfiguredPublicModels(<<db.routes, db.targets>>, LoadAccounts(db))

\* A generation names one upstream identity for ever: no two committed
\* configurations give the same generation of a credential another URL,
\* protocol or secret, or that of an account another proxy selection.
GenerationsTell ==
    \A x, y \in seen : (x[1] = y[1] /\ x[2] = y[2]) => x = y
================================================================================
