\* Two requests on a session and two continuations, with room for two entries and for the
\* bytes of one pending state, or three requests without the sweeper, and two requests
\* that select among three candidates.
SPECIFICATION MCSpec
CONSTANTS
  k1 = k1
  k2 = k2
  k3 = k3
  a = a
  b = b
  None = None
  Sessions = {k1}
  Continuations = {k2, k3}
  Shard <- TwoShards
  Clients = {a, b}
  MaxEntries = 2
  MaxBytes = 2
  PendingBytes = 2
  StateBytes = {0, 1}
  Ttl = 1
  Throttle = 1
  MaxTime = 1
  MaxRequests = 2
  MaxVersion = 2
  MaxSweeps = 1
INVARIANTS
  BudgetsAreExact
  NoOrphan
  NoLostWakeup
  NobodyWaitsInVain
  NobodySpins
PROPERTIES
  SessionKeepsItsCredential
SYMMETRY Symmetry
CHECK_DEADLOCK FALSE
