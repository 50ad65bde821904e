-------------------------- MODULE MCRequestRetry --------------------------
(***************************************************************************)
(* One public request: every kind of failure under one configuration, and  *)
(* fewer kinds while configurations of every kind are published.           *)
(***************************************************************************)
EXTENDS RequestRetry

VARIABLES
  part

Candidate(t, c, e) ==
  [target |-> t, model |-> "m", credential |-> c, endpoint |-> e, proxy |-> "p"]

(* Two targets share an endpoint; a third shares a credential with the     *)
(* first.                                                                  *)
TwoCandidates == {Candidate("t1", "c1", "e1"), Candidate("t2", "c2", "e1")}
ThreeCandidates == TwoCandidates \cup {Candidate("t3", "c1", "e2")}

Upstream(kind, safe, complete, scope, basis, after) ==
  [class |-> "upstream", kind |-> kind, safe |-> safe, complete |-> complete,
   scope |-> scope, basis |-> basis, retry_after |-> after]
Transport(safe, scope) ==
  [class |-> "transport", kind |-> "Transport", safe |-> safe, complete |-> TRUE,
   scope |-> scope, basis |-> "candidate", retry_after |-> 0]
Public ==
  [class |-> "public", kind |-> "Public", safe |-> FALSE, complete |-> TRUE,
   scope |-> "ExactCandidate", basis |-> "candidate", retry_after |-> 0]

SomeFailures ==
  {Upstream("Authentication", TRUE, TRUE, "Credential", "candidate", 0),
   Transport(TRUE, "ExactCandidate"), Transport(TRUE, "Endpoint")}
AllFailures ==
  SomeFailures \cup
  {Public, Transport(FALSE, "Endpoint"),
   Upstream("InvalidRequest", TRUE, TRUE, "ExactCandidate", "candidate", 0),
   Upstream("Transient", FALSE, TRUE, "Endpoint", "candidate", 0),
   Upstream("Transient", TRUE, FALSE, "EgressPath", "candidate", 0),
   Upstream("Transient", TRUE, TRUE, "EgressPath", "candidate", 0),
   Upstream("RateLimited", TRUE, TRUE, "Credential", "candidate", 2),
   Upstream("RateLimited", TRUE, TRUE, "CredentialModel", "request", 0),
   Upstream("OperationUnavailable", TRUE, TRUE, "RouteOperation", "candidate", 0)}

Updates == INSTANCE RequestRetry WITH
  Candidates <- TwoCandidates, Affinities <- {"none", "continuation"},
  Failures <- SomeFailures,
  Changes <- {"edit", "disable", "enable", "token", "key", "model"}, MaxDelay <- 1,
  Deadline <- 1, MaxRevision <- 2

mcVars == <<part, vars>>

(* One part moves in a behaviour; the others stay as they begin.           *)
PolicyMoves ==
  part = "policy" /\ UNCHANGED <<part>>
UpdatesMoves ==
  part = "updates" /\ UNCHANGED <<part>>

MCInit ==
  /\ part \in {"policy", "updates"}
  /\ (IF part = "updates" THEN Updates!Init ELSE Init)

MCNext ==
  \/ PolicyMoves /\ Next
  \/ UpdatesMoves /\ Updates!Next

MCSpec ==
  /\ MCInit /\ [][MCNext]_mcVars

=============================================================================
