\* Two requests and one reclamation; three versions and a fault; two records, a control
\* and room for two; two logins, a rotation, a setup and an event stream.
\* The first record is of an OAuth account unless both are rejected; the second login
\* knows the first password.
SPECIFICATION MCSpec
CONSTANTS
  Requests = {"r1", "r2"}
  MaxEpoch = 1
  None = None
  Nothing = Nothing
  Torn = Torn
  MaxVersion = 3
  MaxFaults = 1
  Records = {"r1", "r2"}
  Controls = {"c1"}
  Capacity = 2
  MaxBytes = 1
  RejectedCapacity = 1
  ChannelCapacity = 2
  BatchSize = 2
  MaxRevision = 1
  Logins = {"l1", "l2"}
  Rotations = {"n1"}
  Setups = {"s1"}
  Watchers = {"w1"}
  MaxSessions = 1
  MaxFailures = 1
  Checks = 2
  Outside = "o1"
INVARIANTS
  StorageOutlivesItsUsers
  WayBack
  FenceCovers
  SessionsFollowPassword
PROPERTIES
  WhatIsOwedIsDone
CHECK_DEADLOCK FALSE
