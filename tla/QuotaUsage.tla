----------------------------- MODULE QuotaUsage -----------------------------
(***************************************************************************)
(* What the quota service makes of an answer of the provider: the usage    *)
(* its parser reads, what that means for the health of the credential, and *)
(* the estimate of what the official quota window holds, measured with the *)
(* costs of the account's own requests. The observations of an account are *)
(* made one after the other (OAuthQuota), each with whatever answer and    *)
(* token there are at the time.                                            *)
(***************************************************************************)
EXTENDS Integers, FiniteSets, FiniteSetsExt

CONSTANTS Providers,     \* subset of {"codex", "grok", "claude"}
          Payloads,      \* what the provider may answer a usage request with
          Tokens,        \* the tokens the account may have, in order of time
          Cycles,        \* official quota cycles, an interval of Nat
          MaxCost,       \* bound on the cost recorded per cycle
          MaxCredits,    \* bound on the reset credits
          Nil

VARIABLES kind,        \* the provider of the account
          stored,      \* the persisted snapshot, or Nil
          exhausted,   \* the routing health's quota exhaustion
          credits,     \* reset credits the provider holds
          clock,       \* the official cycle it is now
          spent,       \* spent[c]: cost recorded in the time of cycle c
          seen         \* identities measured in the stored window's cycle

vars == <<kind, stored, exhausted, credits, clock, spent, seen>>

----------------------------------------------------------------------------
(* The provider's answers. A payload has the fields of all providers; each *)
(* parser reads its own. Percentages outside 0..100 are kept or refused    *)
(* the way the parser does it.                                             *)

Invalid == [invalid |-> TRUE]
IsInvalid(u) == "invalid" \in DOMAIN u

Usage(window, limit, usable, hard, reached, tier, count) ==
  [window |-> window, limit |-> limit, credits |-> usable, hard |-> hard, reached |-> reached,
   tier |-> tier, count |-> count, status |-> FALSE]

\* Windows with a reset time and a duration belong to a cycle; the others
\* cannot be measured.
Window(percent, cycle) == [percent |-> percent, cycle |-> cycle]

\* parse_rate_limit: no window without a percentage, a negative one is refused.
ParseRateLimit(p) ==
  CASE p.percent = Nil -> Nil
    [] p.percent # Nil /\ p.percent < 0 -> Invalid
    [] OTHER -> Window(p.percent, p.cycle)

ParseCodex(p) ==
  IF ParseRateLimit(p) = Invalid THEN Invalid
  ELSE Usage(ParseRateLimit(p), p.limit, p.credits,
             p.spend \/ p.reached = "workspace", p.reached = "rate", p.tier,
             IF p.counted THEN credits ELSE Nil)

\* parse_used_percent and parse_period: a percentage needs its billing period,
\* is refused when negative and is cut at 100.
ParseUsedPercent(p) ==
  CASE p.percent = Nil -> Nil
    [] p.percent # Nil /\ (p.percent < 0 \/ p.cycle = Nil) -> Invalid
    [] OTHER -> Window(Min({p.percent, 100}), p.cycle)

ParseGrok(p) ==
  LET window == ParseUsedPercent(p)
  IN  CASE window = Invalid -> Invalid
        [] window = Nil /\ p.cycle = Nil /\ p.tier = Nil -> Invalid
        [] window = Nil /\ ~(p.cycle = Nil /\ p.tier = Nil) ->
             Usage(Nil, Nil, FALSE, FALSE, FALSE, p.tier, Nil)
        [] OTHER -> Usage(window, IF window.percent >= 100 THEN "reached" ELSE "allowed",
                          FALSE, FALSE, FALSE, p.tier, Nil)

ParseClaude(p) ==
  IF p.percent = Nil \/ p.cycle = Nil \/ p.percent < 0 THEN Invalid
  ELSE Usage(Window(p.percent, p.cycle), Nil, FALSE, FALSE, FALSE, Nil, Nil)

Parse(p) == CASE kind = "codex" -> ParseCodex(p) [] kind = "grok" -> ParseGrok(p)
              [] kind = "claude" -> ParseClaude(p)

HasSupplement == kind = "grok"
HasReset      == kind = "codex"
HasCostUnit   == kind = "codex"

----------------------------------------------------------------------------
(* What an answer says about the credential.                               *)

RollingLimitExhausted(u) == u.limit = "reached" \/ u.reached

IsExhausted(u) == u.hard \/ (RollingLimitExhausted(u) /\ ~u.credits)

IsExplicitlyAvailable(u) == ~u.hard /\ (u.credits \/ u.limit = "allowed")

Synchronize(u) == IF IsExhausted(u) THEN TRUE
                  ELSE IF IsExplicitlyAvailable(u) THEN FALSE ELSE exhausted

Fingerprint(token) ==
  IF token.principal # Nil THEN <<"principal", token.principal>> ELSE <<"version", token.version>>

----------------------------------------------------------------------------
(* The estimate of what a window holds, from the costs recorded locally.   *)

MinCapacityUsedPercent == 2

LocalCost(cycle) ==
  IF cycle > clock THEN 0
  ELSE MapThenSumSet(LAMBDA k : spent[k], {k \in Cycles : cycle <= k /\ k <= clock})

\* The window as it is kept.
Measured(cycle, cost, percent, takeover, eligible) ==
  [cycle |-> cycle, cost |-> cost, percent |-> percent, takeover |-> takeover, eligible |-> eligible]

CapacityCost(w) ==
  IF ~w.eligible \/ w.cost = Nil THEN Nil
  ELSE IF w.cost = 0 THEN Nil
  ELSE IF w.takeover THEN w.cost
  ELSE IF w.percent < MinCapacityUsedPercent THEN Nil
  ELSE (w.cost * 100 + w.percent \div 2) \div w.percent

\* A faulty variant: the costs are measured again although purchased credits
\* have taken the window over.
MeasureAgain(window, previous, usable, eligible, costs) ==
  Measured(window.cycle, costs[window.cycle], window.percent, usable /\ window.percent >= 100, eligible)

\* cycle.rs: what a window that purchased credits have taken over held stays
\* what it was before they did.
Measure(window, previous, usable, eligible, costs) ==
  LET same     == previous # Nil /\ previous.cycle = window.cycle
      frozen   == same /\ previous.takeover
      takeover == (usable /\ window.percent >= 100) \/ frozen
      local    == costs[window.cycle]
      capacity == IF same THEN CapacityCost(previous) ELSE Nil
      included == IF ~takeover THEN local
                  ELSE IF ~eligible THEN Nil
                  ELSE IF capacity # Nil THEN Min({capacity, local})
                  ELSE IF local > 0 THEN local ELSE Nil
  IN  IF frozen /\ (previous.cost # Nil \/ ~eligible)
      THEN Measured(window.cycle, previous.cost, window.percent, TRUE, eligible)
      ELSE Measured(window.cycle, included, window.percent, takeover, eligible)

\* A faulty variant: a change of the credential is forgotten once recorded.
ObserveUnblocked(u, previous, fingerprint, costs) ==
  LET old == IF previous = Nil THEN Nil ELSE previous.window
  IN  [fingerprint |-> fingerprint,
       tier |-> IF u.tier # Nil THEN u.tier ELSE IF previous = Nil THEN Nil ELSE previous.tier,
       window |-> IF u.window # Nil /\ u.window.cycle # Nil
                  THEN Measure(u.window, old, u.credits,
                               previous = Nil \/ previous.fingerprint = fingerprint, costs)
                  ELSE old]

\* OAuthQuotaEstimator::observe. A window the answer leaves out is kept, and
\* blocked if the credential or its tier has changed.
Observe(u, previous, fingerprint, costs) ==
  LET changed  == /\ previous # Nil
                  /\ \/ previous.fingerprint # fingerprint
                     \/ u.tier # Nil /\ previous.tier # Nil /\ u.tier # previous.tier
      old      == IF previous = Nil THEN Nil ELSE previous.window
      blocked  == IF old = Nil THEN Nil ELSE [old EXCEPT !.eligible = @ /\ ~changed]
      measured == u.window # Nil /\ u.window.cycle # Nil
      eligible == ~changed /\ (old = Nil \/ old.cycle # u.window.cycle \/ old.eligible)
  IN  [fingerprint |-> fingerprint,
       tier |-> IF u.tier # Nil THEN u.tier ELSE IF previous = Nil THEN Nil ELSE previous.tier,
       window |-> IF measured THEN Measure(u.window, old, u.credits, eligible, costs) ELSE blocked]

\* A snapshot is stored, and loaded again, only if its estimate is one.
Valid(state) ==
  IF state = Nil THEN TRUE
  ELSE IF state.window = Nil THEN TRUE ELSE state.window.takeover \/ state.window.cost # Nil

\* What project shows of a stored window, when the answer is of its cycle.
Project(u, state) ==
  IF state = Nil \/ u.window = Nil THEN Nil
  ELSE IF state.window = Nil THEN Nil
  ELSE IF state.window.cycle # u.window.cycle THEN Nil
  ELSE [used |-> state.window.cost, capacity |-> CapacityCost(state.window)]

----------------------------------------------------------------------------
(* An observation: query_attempt and snapshot::build.                      *)

Identity(fingerprint, tier) ==
  {<<"fingerprint", fingerprint>>} \cup (IF tier = Nil THEN {} ELSE {<<"tier", tier>>})

Previous == IF stored = Nil THEN Nil ELSE stored.state

CycleOf(state) == IF state = Nil \/ state.window = Nil THEN Nil ELSE state.window.cycle

\* The supplement replaces the tier; the list of reset credits, if it can be
\* read, completes the usage.
Completions(p) ==
  LET u == Parse(p)
  IN  CASE HasSupplement -> {[u EXCEPT !.tier = t] : t \in {q.tier : q \in Payloads}}
        [] HasReset      -> {u, [u EXCEPT !.count = credits]}
        [] OTHER         -> {u}

\* The health takes the usage over, and the usage what the health holds. Then
\* it is measured against what is stored, and replaces it.
Observation(u, token) ==
  LET health == Synchronize(u)
      state  == IF HasCostUnit
                THEN Observe(u, Previous, Fingerprint(token), [k \in Cycles |-> LocalCost(k)])
                ELSE Nil
      known  == Identity(Fingerprint(token), u.tier)
  IN  /\ exhausted' = health
      /\ \/ /\ Valid(state)
            /\ stored' = [usage |-> [u EXCEPT !.status = health], state |-> state]
            /\ seen' = IF CycleOf(state) = CycleOf(Previous) THEN seen \cup known ELSE known
         \/ UNCHANGED <<stored, seen>>      \* the store fails, or refuses it

Query(p, token) ==
  /\ ~IsInvalid(Parse(p))
  /\ \E u \in Completions(p) : Observation(u, token)
  /\ UNCHANGED <<kind, credits, clock, spent>>

\* The confirmed reset of a quota ends the temporary cooldowns.
Reset ==
  /\ HasReset /\ credits > 0
  /\ credits' = credits - 1
  /\ exhausted' = FALSE
  /\ UNCHANGED <<kind, stored, clock, spent, seen>>

\* Requests through the gateway cost something, exhaust the quota or show
\* that it is not exhausted.
Spend ==
  /\ spent[clock] < MaxCost
  /\ spent' = [spent EXCEPT ![clock] = @ + 1]
  /\ exhausted' \in BOOLEAN
  /\ UNCHANGED <<kind, stored, credits, clock, seen>>

NextCycle ==
  /\ clock + 1 \in Cycles
  /\ clock' = clock + 1
  /\ UNCHANGED <<kind, stored, exhausted, credits, spent, seen>>

Init ==
  /\ kind \in Providers
  /\ stored = Nil
  /\ exhausted = FALSE
  /\ credits = MaxCredits
  /\ clock = Min(Cycles)
  /\ spent = [k \in Cycles |-> 0]
  /\ seen = {}

Next ==
  \/ \E p \in Payloads, token \in Tokens : Query(p, token)
  \/ Reset \/ Spend \/ NextCycle

Spec == Init /\ [][Next]_vars

----------------------------------------------------------------------------
(* Properties.                                                             *)

TypeOK ==
  /\ kind \in Providers
  /\ exhausted \in BOOLEAN
  /\ credits \in 0..MaxCredits
  /\ stored # Nil => stored.usage.count \in {Nil} \cup 0..MaxCredits

\* A capacity is shown only when every measurement of the cycle was of one
\* credential identity and one subscription tier (estimation: signature
\* changes block the capacity until the next cycle).
CapacityOfOneIdentity ==
  stored # Nil =>
    LET shown == Project(stored.usage, stored.state)
    IN  shown # Nil /\ shown.capacity # Nil =>
          /\ Cardinality({i \in seen : i[1] = "fingerprint"}) <= 1
          /\ Cardinality({i \in seen : i[1] = "tier"}) <= 1

\* Once purchased credits have taken a window over, what it held is not
\* measured again in that cycle: paid usage is never counted as included
\* (cycle.rs measure).
FrozenEstimate ==
  (stored # Nil /\ stored' # Nil) =>
       LET w == Previous.window
           v == stored'.state.window
       IN  (/\ stored.state # Nil
            /\ w # Nil
            /\ w.takeover /\ w.cost # Nil
            /\ v.cycle = w.cycle) => v.cost = w.cost
====
