\* Two connections, three requests and a key whose limit changes once; one body permit;
\* one call over two addresses; one pending request and three configurations.
SPECIFICATION MCSpec
CONSTANTS
  Slots = {"s1", "s2"}
  Arrivals <- MCArrivals
  Answers <- MCAnswers
  Keys = {"k"}
  Limits = {1, 2, Nil}
  Changes = {"limit", "delete", "trusted", "logging"}
  PerSecond = 2
  Window = 1
  MaxBody = 1
  Permits = 1
  QueueTimeout = 1
  MaxTime = 3
  MaxRevision = 2
  MaxArrivals = 3
  Nil = Nil
  Shared = Shared
  Ephemeral = Ephemeral
INVARIANTS
  IngressKeepsItsWord
  CallsGoWherePlanned
CHECK_DEADLOCK FALSE
