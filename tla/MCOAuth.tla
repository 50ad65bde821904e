------------------------------ MODULE MCOAuth ------------------------------
(***************************************************************************)
(* The accounts: the refresh of their tokens by requests and by the        *)
(* scanning worker, their logins, identities, quotas, usage estimates and  *)
(* model catalogs, and what the answers of an upstream do to a credential. *)
(* The parts meet only in the published configuration, so each is explored *)
(* in behaviours of its own.                                               *)
(***************************************************************************)
EXTENDS OAuthProofs

VARIABLE part  \* the component that moves

ASSUME OAuthAssumption

(* A window below and at its limit, used up with and without purchased     *)
(* credits, of either tier and of either cycle, and answers the parsers    *)
(* refuse or can read only in part.                                        *)
Plain == [percent |-> 50, cycle |-> 1, limit |-> "allowed", credits |-> FALSE, spend |-> FALSE,
          reached |-> "none", tier |-> "t1", counted |-> TRUE]
UsagePayloads ==
  {Plain, [Plain EXCEPT !.cycle = 2], [Plain EXCEPT !.tier = "t2"], [Plain EXCEPT !.percent = -1],
   [Plain EXCEPT !.percent = 100, !.tier = None],
   [Plain EXCEPT !.percent = 100, !.credits = TRUE],
   [Plain EXCEPT !.percent = None, !.cycle = None, !.tier = None, !.reached = "workspace"]}
UsageTokens == {[principal |-> None, version |-> v] : v \in 1 .. 2} \cup {[principal |-> "p1", version |-> 1]}

scanVars ==
  <<revision, external, due_accounts, scan_worker, started_at, published, interleaved,
    waiting, in_flight, ready, scan_seen>>
loginVars ==
  <<login_now, sessions, generation, issued, client, next_start, gate, last_start, ended>>
accountsVars ==
  <<accounts, login, renewal>>
quotaVars ==
  <<present, version, quota_op, quota_queue, completed, last, quota_stored, authFailed,
    quota_credits, rejected, resets, reply, blind, begun>>
usageVars ==
  <<kind, usage_stored, exhausted, usage_credits, clock, usage_spent, usage_seen>>
activityVars ==
  <<activity, permit, activity_worker, until, running, asked>>
attemptVars ==
  <<attempt_now, token, auth_error, cooldown, model, quota, wake, attempt>>
catalogVars ==
  <<plan, catalog_op, catalog_gates, catalogs, changes>>
mcVars == <<part, vars, scanVars, loginVars, accountsVars, quotaVars, usageVars, activityVars, attemptVars, catalogVars>>

(* One part moves in a behaviour; the others stay as they begin.           *)
RefreshMoves ==
  part = "refresh" /\ UNCHANGED <<part, scanVars, loginVars, accountsVars, quotaVars, usageVars, activityVars,
    attemptVars, catalogVars>>
ScanMoves ==
  part = "scan" /\ UNCHANGED <<part, loginVars, accountsVars, quotaVars, usageVars, activityVars, attemptVars,
    catalogVars, vars>>
LoginMoves ==
  part = "login" /\ UNCHANGED <<part, scanVars, accountsVars, quotaVars, usageVars, activityVars, attemptVars,
    catalogVars, vars>>
AccountingMoves ==
  part = "accounts" /\ UNCHANGED <<part, scanVars, loginVars, quotaVars, usageVars, activityVars, attemptVars,
    catalogVars, vars>>
QuotaMoves ==
  part = "quota" /\ UNCHANGED <<part, scanVars, loginVars, accountsVars, usageVars, activityVars, attemptVars,
    catalogVars, vars>>
UsageMoves ==
  part = "usage" /\ UNCHANGED <<part, scanVars, loginVars, accountsVars, quotaVars, activityVars, attemptVars,
    catalogVars, vars>>
ActivityMoves ==
  part = "activity" /\ UNCHANGED <<part, scanVars, loginVars, accountsVars, quotaVars, usageVars, attemptVars,
    catalogVars, vars>>
AttemptingMoves ==
  part = "attempt" /\ UNCHANGED <<part, scanVars, loginVars, accountsVars, quotaVars, usageVars, activityVars,
    catalogVars, vars>>
CatalogMoves ==
  part = "catalog" /\ UNCHANGED <<part, scanVars, loginVars, accountsVars, quotaVars, usageVars, activityVars,
    attemptVars, vars>>

MCInit ==
  /\ part \in {"refresh", "scan", "login", "accounts", "quota", "usage", "activity", "attempt", "catalog"}
  /\ Init /\ Scan!Init /\ Login!Init /\ Accounting!Init /\ Quota!Init /\ Usage!Init /\ Activity!Init /\ Attempting!Init /\ Catalog!Init
  /\ part # "scan" => due_accounts = {}
  /\ part # "quota" => quota_credits = 1
  /\ part # "usage" => kind = "codex"
  /\ part # "catalog" => plan = [a \in Accounts |-> "p1"]
  /\ part # "refresh" => due

MCNext ==
  \/ RefreshMoves /\ Next
  \/ ScanMoves /\ Scan!Next
  \/ LoginMoves /\ Login!Next
  \/ AccountingMoves /\ Accounting!Next
  \/ QuotaMoves /\ Quota!Next
  \/ UsageMoves /\ Usage!Next
  \/ ActivityMoves /\ Activity!Next
  \/ AttemptingMoves /\ Attempting!Next
  \/ CatalogMoves /\ Catalog!Next

MCSpec ==
  /\ MCInit /\ [][MCNext]_mcVars

=============================================================================
