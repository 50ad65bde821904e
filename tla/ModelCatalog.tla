---------------------------- MODULE ModelCatalog ----------------------------
(***************************************************************************)
(* The catalogs of models OAuth accounts may use. A catalog belongs to a   *)
(* directory scope (the provider and the plan a token was issued for), so  *)
(* accounts of one scope share it. A manual refresh of one account, a      *)
(* batch with one representative per scope, and a login read a catalog;    *)
(* refreshes of a scope are serialised by its gate. A token may be         *)
(* replaced by one of another plan at any time.                            *)
(***************************************************************************)
EXTENDS Naturals, FiniteSets, FiniteSetsExt

CONSTANTS Accounts,     \* a set of numbers: representatives are the least ids
          Scopes, Clients,
          MaxChanges,   \* bound on changes of plan
          Nil

VARIABLES plan,       \* plan[a]: scope of the account's published token, or Nil: no such account
          op,         \* op[c]: what client c is doing
          gates,      \* gates[s]: the client that holds the gate of scope s, or Nil
          catalogs,   \* catalogs[s]: the scope whose directory is stored under s, or Nil
          changes

vars == <<plan, op, gates, catalogs, changes>>

Idle == [pc |-> "idle", todo |-> {}, account |-> Nil, gate |-> Nil, scope |-> Nil]

\* scope_for_account fails for an account that is gone.
ScopeOf(a) == plan[a]

\* refresh_model_catalogs: one account for every scope of the batch.
Representatives(ids) ==
  {<<s, Min({a \in ids : ScopeOf(a) = s})>> : s \in {ScopeOf(a) : a \in ids} \ {Nil}}

\* Manual refreshes (one account) and batches begin by grouping accounts.
Refresh(c, ids) ==
  /\ op[c].pc = "idle"
  /\ op' = [op EXCEPT ![c] = [Idle EXCEPT !.pc = "next", !.todo = Representatives(ids)]]
  /\ UNCHANGED <<plan, gates, catalogs, changes>>

\* The next scope of the batch; its gate is waited for.
NextScope(c) ==
  /\ op[c].pc = "next"
  /\ IF op[c].todo = {}
     THEN op' = [op EXCEPT ![c] = Idle]
     ELSE \E t \in op[c].todo :
            op' = [op EXCEPT ![c].pc = "gate", ![c].todo = @ \ {t}, ![c].gate = t[1], ![c].account = t[2]]
  /\ UNCHANGED <<plan, gates, catalogs, changes>>

Leave(c) == gates' = [gates EXCEPT ![op[c].gate] = Nil]

\* refresh_scope, then the first half of fetch_catalog_for_account: the
\* token is read again behind the gate.
Enter(c) ==
  /\ op[c].pc = "gate"
  /\ gates[op[c].gate] = Nil
  /\ IF ScopeOf(op[c].account) = Nil
     THEN /\ op' = [op EXCEPT ![c].pc = "next"]
          /\ UNCHANGED gates
     ELSE /\ op' = [op EXCEPT ![c].pc = "fetch", ![c].scope = ScopeOf(op[c].account)]
          /\ gates' = [gates EXCEPT ![op[c].gate] = c]
  /\ UNCHANGED <<plan, catalogs, changes>>

\* A faulty variant: the catalog is stored for the scope of the gate.
FetchedForGate(c) ==
  /\ op[c].pc = "fetch"
  /\ catalogs' = [catalogs EXCEPT ![op[c].gate] = op[c].scope]
  /\ Leave(c)
  /\ op' = [op EXCEPT ![c].pc = "next"]
  /\ UNCHANGED <<plan, changes>>

\* The directory of the token's plan arrives and is stored for its scope.
Fetched(c) ==
  /\ op[c].pc = "fetch"
  /\ catalogs' = [catalogs EXCEPT ![op[c].scope] = op[c].scope]
  /\ Leave(c)
  /\ op' = [op EXCEPT ![c].pc = "next"]
  /\ UNCHANGED <<plan, changes>>

\* It is refused, too long, not understood or cannot be stored.
FetchFails(c) ==
  /\ op[c].pc = "fetch"
  /\ Leave(c)
  /\ op' = [op EXCEPT ![c].pc = "next"]
  /\ UNCHANGED <<plan, catalogs, changes>>

\* The client goes away.
Cancel(c) ==
  /\ op[c].pc # "idle"
  /\ op' = [op EXCEPT ![c] = Idle]
  /\ gates' = [s \in Scopes |-> IF gates[s] = c THEN Nil ELSE gates[s]]
  /\ UNCHANGED <<plan, catalogs, changes>>

\* fetch_model_catalog_for_login: the token of a login, behind no gate.
LoginFetches(s) ==
  /\ catalogs' = [catalogs EXCEPT ![s] = s]
  /\ UNCHANGED <<plan, op, gates, changes>>

\* A token of another plan is published, or the account is deleted.
ChangePlan(a, s) ==
  /\ changes < MaxChanges
  /\ changes' = changes + 1
  /\ plan[a] # Nil
  /\ plan' = [plan EXCEPT ![a] = s]
  /\ UNCHANGED <<op, gates, catalogs>>

\* model_catalogs_for_accounts: what the administrator is shown.
Shown(a) == IF ScopeOf(a) = Nil THEN Nil ELSE catalogs[ScopeOf(a)]

Init ==
  /\ plan \in [Accounts -> Scopes]
  /\ op = [c \in Clients |-> Idle]
  /\ gates = [s \in Scopes |-> Nil]
  /\ catalogs = [s \in Scopes |-> Nil]
  /\ changes = 0

Next ==
  \/ \E c \in Clients : \/ \E ids \in SUBSET Accounts \ {{}} : Refresh(c, ids)
                        \/ NextScope(c) \/ Enter(c) \/ Fetched(c) \/ FetchFails(c) \/ Cancel(c)
  \/ \E s \in Scopes : LoginFetches(s)
  \/ \E a \in Accounts, s \in Scopes \cup {Nil} : ChangePlan(a, s)

Spec == Init /\ [][Next]_vars

----------------------------------------------------------------------------

TypeOK ==
  /\ \A s \in Scopes : gates[s] \in Clients \cup {Nil}
  /\ \A c \in Clients : (op[c].pc = "fetch") <=> (\E s \in Scopes : gates[s] = c)

\* An account is shown the models of its own plan, although the plan may
\* change between grouping the accounts and reading their catalogs
\* (model_catalog.rs fetch_catalog_for_account derives the scope again).
CatalogsOfOwnPlan == \A a \in Accounts : Shown(a) \in {Nil, ScopeOf(a)}
====
