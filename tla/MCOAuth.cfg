\* Two requests and the scanner at one token; two accounts, clients, sessions and plans;
\* every wait is a few ticks, and one reset credit can be spent.
SPECIFICATION MCSpec
CONSTANTS
  None = None
  \* refresh, accounts, quota
  Requests = {"r1", "r2"}
  Scanner = "scanner"
  MaxVersion = 2
  MaxTries = 1
  Ids = {"i1", "i2"}
  Identities = {"p1"}
  Secrets = {"k1", "k2"}
  IdTokens = {}
  Models = {"m1"}
  QuotaClients = {"c1", "c2", "c3"}
  MaxCredits = 1
  MaxOps = 3
  \* scan
  Accounts = {1, 2}
  ScanConcurrency = 2
  MaxRevision = 3
  \* login
  LoginClients = {"c1", "c2"}
  LoginSessions = {"s1", "s2"}
  Capacity = 1
  Ttl = 4
  PollInterval = 4
  PerSecond = 2
  SlowDown = 2
  Spacing = 1
  LoginTime = 4
  \* usage
  Providers = {"codex", "grok", "claude"}
  Payloads <- UsagePayloads
  Bearers <- UsageTokens
  Cycles = {1, 2}
  MaxCost = 1
  \* activity
  Debounce = 1
  RefreshInterval = 3
  Retention = 4
  RefreshConcurrency = 1
  MaxRun = 1
  MaxLate = 3
  \* attempts
  Attempts = {"t1", "t2"}
  Statuses = {"authentication", "permission_denied", "rate_limited", "transient"}
  Codes = {"authentication", "permission_denied", "quota_exhausted", "rate_limited", "model_unavailable"}
  Hints = {1}
  RateFallback = 2
  Unsupported = 3
  Denied = 2
  MaxDelay = 2
  MaxToken = 2
  MaxTime = 2
  \* catalogs
  Scopes = {"p1", "p2"}
  CatalogClients = {"c1", "c2"}
  MaxChanges = 1
INVARIANTS
  TokensAreUsedOnce
  AccountsStayTheirOwn
PROPERTIES
  LateAnswersUndoNothing
CHECK_DEADLOCK FALSE
