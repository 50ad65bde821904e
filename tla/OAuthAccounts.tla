---------------------------- MODULE OAuthAccounts ----------------------------
(***************************************************************************)
(* The published OAuth accounts and who their tokens belong to             *)
(* (configuration/publisher/oauth_login.rs, oauth_accounts.rs,             *)
(* configuration/oauth_identity.rs, storage oauth_account/mutation.rs).    *)
(*                                                                         *)
(* A login publishes its token either as a new account or as the new token *)
(* of the account it identifies; an import publishes only accounts nobody  *)
(* knows; a refresh replaces the token it was obtained from.  Each of them *)
(* reads the accounts again under the publication lock, so a publication   *)
(* is one step; what it publishes was obtained long before.                *)
(*                                                                         *)
(* A token may prove a stable principal or not, and carries secrets that   *)
(* identify it exactly: access, refresh and id tokens, of which one kind   *)
(* that is always there and one that may be missing are kept apart here.   *)
(***************************************************************************)
EXTENDS Naturals, FiniteSets

CONSTANTS
  Ids,           \* account ids; each is used once
  Identities,    \* stable principals
  Secrets,       \* access tokens
  IdTokens,      \* id tokens
  Models,        \* model names
  MaxVersion,    \* bound on token versions
  Nil            \* an absent value

AccountsAssumption == IsFiniteSet(Ids)

VARIABLES
  accounts,      \* published accounts: id -> account, or Unborn, or Deleted
  login,         \* a token that a login has obtained and not yet published
  refresh        \* a refreshed token, with the version it was obtained from

vars == <<accounts, login, refresh>>

Tokens == [stable : Identities \cup {Nil}, access : Secrets, id : IdTokens \cup {Nil}]
NoToken == [stable |-> Nil, access |-> Nil, id |-> Nil]
Unborn == [state |-> "unborn", token |-> NoToken, version |-> 0, models |-> {}]
Deleted == [Unborn EXCEPT !.state = "deleted"]
NoRefresh == [of |-> Nil, version |-> 0, token |-> NoToken]

Published == {i \in Ids : accounts[i].state = "published"}
NewAccount(token, models) ==
  [state |-> "published", token |-> token, version |-> 1, models |-> models]

-----------------------------------------------------------------------------
(* OAuthImportIdentity.                                                    *)

SecretsOf(token) == {<<"access", token.access>>} \cup
                    (IF token.id = Nil THEN {} ELSE {<<"id", token.id>>})
Keys(token) == SecretsOf(token) \cup
               (IF token.stable = Nil THEN {} ELSE {<<"stable", token.stable>>})

StableMatches(token, other) == token.stable # Nil /\ token.stable = other.stable
ExactTokenMatches(token, other) == SecretsOf(token) \cap SecretsOf(other) # {}

(* merge_missing_identity and merge_refresh_response: what the new token   *)
(* does not say about its owner is taken from the account's previous one.  *)
(* The stable identity is one value here; the code takes over the account  *)
(* id, the email and the id token one by one.                              *)
MergeMissingIdentity(token, previous) ==
  [token EXCEPT !.stable = IF token.stable = Nil THEN previous.stable ELSE token.stable,
                !.id = IF token.id = Nil THEN previous.id ELSE token.id]

\* A faulty variant: only the stable identity is looked at.
MatchesStableOnly(token) ==
  LET stable == {i \in Published : StableMatches(token, accounts[i].token)}
  IN [conflict |-> Cardinality(stable) > 1, found |-> stable]

(* resolve_login_match: the account with the token's stable identity, else *)
(* the one that already holds one of its secrets.  Two candidates, or two  *)
(* that disagree, are a conflict.                                          *)
ResolveLoginMatch(token) ==
  LET stable == {i \in Published : StableMatches(token, accounts[i].token)}
      exact == {i \in Published : ExactTokenMatches(token, accounts[i].token)}
  IN [conflict |-> \/ Cardinality(stable) > 1 \/ Cardinality(exact) > 1
                   \/ Cardinality(stable) = 1 /\ exact # {} /\ stable # exact,
      found |-> IF stable # {} THEN stable ELSE exact]

-----------------------------------------------------------------------------
(* A login obtains its token and the models it may use.                    *)
LoginObtains(token, available) ==
  /\ login.token = NoToken
  /\ login' = [token |-> token, models |-> available]
  /\ UNCHANGED <<accounts, refresh>>

CreateAccount(id) ==
  accounts' = [accounts EXCEPT ![id] = NewAccount(login.token, login.models)]

(* The account keeps those of its models that are still available.         *)
Reauthorize(id) ==
  accounts' = [accounts EXCEPT
    ![id].token = MergeMissingIdentity(login.token, accounts[id].token),
    ![id].version = @ + 1,
    ![id].models = @ \cap login.models]

(* activate_oauth_login_serialized.                                        *)
ActivateLogin ==
  LET match == ResolveLoginMatch(login.token) IN
  /\ login.token # NoToken
  /\ \/ match.conflict /\ UNCHANGED accounts
     \/ ~match.conflict /\ \E id \in match.found :
          accounts[id].version < MaxVersion /\ Reauthorize(id)
     \/ /\ ~match.conflict /\ match.found = {}
        /\ \E id \in Ids : accounts[id] = Unborn /\ CreateAccount(id)
  /\ login' = [token |-> NoToken, models |-> {}]
  /\ UNCHANGED refresh

(* validate_import_identities: a file that repeats a key, of an account or *)
(* of another entry, is refused as a whole.                                *)
ImportAdmitted(batch) ==
  /\ \A token \in batch, i \in Published : Keys(token) \cap Keys(accounts[i].token) = {}
  /\ \A token, other \in batch : token # other => Keys(token) \cap Keys(other) = {}

(* activate_oauth_accounts_serialized: imported accounts have no models.   *)
Import(batch) ==
  /\ ImportAdmitted(batch)
  /\ \E id \in [batch -> {i \in Ids : accounts[i] = Unborn}] :
       /\ \A token, other \in batch : token # other => id[token] # id[other]
       /\ accounts' = [i \in Ids |->
            IF \E token \in batch : id[token] = i
            THEN NewAccount(CHOOSE token \in batch : id[token] = i, {})
            ELSE accounts[i]]
  /\ UNCHANGED <<login, refresh>>

(* A refresh is a new access token; the provider may also say for the      *)
(* first time whose it is.                                                 *)
RefreshObtains(id, token) ==
  /\ refresh = NoRefresh /\ id \in Published
  /\ refresh' = [of |-> id, version |-> accounts[id].version,
                 token |-> MergeMissingIdentity(token, accounts[id].token)]
  /\ UNCHANGED <<accounts, login>>

RefreshCurrent ==
  refresh.of \in Published /\ accounts[refresh.of].version = refresh.version

PublishRefresh ==
  /\ refresh # NoRefresh
  /\ IF RefreshCurrent /\ accounts[refresh.of].version < MaxVersion
       THEN accounts' = [accounts EXCEPT ![refresh.of].token = refresh.token,
                                         ![refresh.of].version = @ + 1]
       ELSE UNCHANGED accounts
  /\ refresh' = NoRefresh
  /\ UNCHANGED login

Delete(id) ==
  /\ id \in Published
  /\ accounts' = [accounts EXCEPT ![id] = Deleted]
  /\ UNCHANGED <<login, refresh>>

SetModels(id, models) ==
  /\ id \in Published
  /\ accounts' = [accounts EXCEPT ![id].models = models]
  /\ UNCHANGED <<login, refresh>>

Init ==
  /\ accounts = [i \in Ids |-> Unborn]
  /\ login = [token |-> NoToken, models |-> {}]
  /\ refresh = NoRefresh

Next ==
  \/ ActivateLogin \/ PublishRefresh
  \/ \E token \in Tokens, models \in SUBSET Models : LoginObtains(token, models)
  \/ \E batch \in {{first, second} : first, second \in Tokens} : Import(batch)
  \/ \E id \in Ids :
       \/ Delete(id)
       \/ \E token \in Tokens : RefreshObtains(id, token)
       \/ \E models \in SUBSET Models : SetModels(id, models)

Spec == Init /\ [][Next]_vars

-----------------------------------------------------------------------------
TypeOK ==
  /\ \A i \in Ids : /\ accounts[i].state \in {"unborn", "published", "deleted"}
                    /\ accounts[i].token \in Tokens \cup {NoToken}
                    /\ accounts[i].version \in 0..MaxVersion
                    /\ accounts[i].models \subseteq Models
  /\ login.token \in Tokens \cup {NoToken}

Twins(i, j) ==
  /\ i # j /\ i \in Published /\ j \in Published
  /\ \/ StableMatches(accounts[i].token, accounts[j].token)
     \/ ExactTokenMatches(accounts[i].token, accounts[j].token)

(* However logins, imports and refreshes overlap, a login or an import     *)
(* never makes two accounts of one principal or of one secret: they would  *)
(* rotate each other's tokens away.  (A refresh that reveals the owner of  *)
(* an account that was unproven may; the login after it is a conflict.)    *)
NoNewTwins ==
  refresh' = refresh => \A i, j \in Ids : Twins(i, j)' => Twins(i, j)
=============================================================================
