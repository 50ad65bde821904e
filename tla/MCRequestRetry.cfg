\* Three candidates on two credentials and two endpoints with every kind of failure and
\* affinity; two candidates behind one endpoint while two configurations are published.
\* The budget is three attempts, one switch and one retry on the same credential.
SPECIFICATION MCSpec
CONSTANTS
  Candidates <- ThreeCandidates
  OAuthCredentials = {"c1"}
  Affinities = {"none", "session", "continuation"}
  Failures <- AllFailures
  Changes = {}
  MaxTotalAttempts = 3
  MaxSwitches = 1
  MaxSameRetries = 1
  BaseDelay = 1
  MaxDelay = 2
  Deadline = 3
  MaxRevision = 0
  None = None
INVARIANTS
  NoReplay
  WithinLimits
  FailuresAreHeeded
  NoLostRevision
PROPERTIES
  ChecksTheLatest
