\* A fixed and a normal request behind the holder of the only slot; two threads and two
\* wake slots; two attempts on an endpoint that opens after two failures; two requests of
\* one session; one request with two candidates; two publishers of
\* one revision.
SPECIFICATION MCSpec
CONSTANTS
  None = None
  Normal = {"n1"}
  Fixed = {"f1"}
  Holders = {"h1"}
  Limit = 1
  Window = 1
  Timeout = 2
  MaxWaiting = 2
  MaxTime = 2
  Slots = {"s1", "s2"}
  Users = {"c1", "c2"}
  MaxDelay = 1
  WakeTime = 2
  MaxOps = 2
  EndpointUsers = {"a1", "a2"}
  Threshold = 2
  FailureWindow = 2
  OpenDuration = 1
  Transient = 1
  MaxProbes = 1
  HealthTime = 2
INVARIANTS
  QueueBounded
  NoLostWakeup
  WakesAreKept
PROPERTIES
  TimeoutIsHonest
  WaitsEnd
CHECK_DEADLOCK FALSE
