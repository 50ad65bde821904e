---------------------------- MODULE MCSessions ----------------------------
(***************************************************************************)
(* Bindings and the selection of candidates: the affinity registry with a  *)
(* session and two continuations, and two requests of one session that     *)
(* look for a candidate.                                                   *)
(***************************************************************************)
EXTENDS AffinityRegistry, TLC

CONSTANTS k1, k2, k3

VARIABLES
  part,
  selection_now, cursor, slot, cooling, circuit, active, binding, selection_changed,
  req, idle, faults

TwoShards == k1 :> 1 @@ k2 :> 2 @@ k3 :> 2
Symmetry == Permutations(Clients)

(* Two tiers of candidates: a and b share a credential, b is reached       *)
(* without an endpoint or proxy circuit, a and c share the proxy.          *)
ModelTiers == <<<<"a", "b">>, <<"c">>>>
CredentialOf == ("a" :> "k") @@ ("b" :> "k") @@ ("c" :> "l")
LayersOf == ("a" :> <<"e", "p">>) @@ ("b" :> <<>>) @@ ("c" :> <<"p">>)

(* What a request brings along: nothing, or a failure of a that defers it. *)
Plain ==
  [allowed |-> {"a", "b", "c"}, deferred |-> [x \in {"a", "b", "c"} |-> 0],
   preference |-> [x \in {"a", "b", "c"} |-> 0]]
Deferring ==
  [Plain EXCEPT !.deferred["a"] = 1, !.preference["a"] = 4, !.preference["b"] = 1]

Selection == INSTANCE CandidateSelection WITH
  Requests <- {"r1", "r2"}, Sessions <- {"s1"}, Tiers <- ModelTiers,
  Key <- CredentialOf, Layers <- LayersOf, States <- {Plain, Deferring},
  Fallback <- FALSE, Rejects <- FALSE, Window <- 1, OpenFor <- 1, Cooldown <- 1,
  QueueTimeout <- 1, BindingTimeout <- 1, MaxWaiting <- 1, MaxTime <- 1, MaxFaults <- 1,
  MaxIdle <- 3, Nil <- None, now <- selection_now, changed <- selection_changed
Returning == INSTANCE AffinityRegistry WITH
  MaxRequests <- 3, MaxVersion <- 3, MaxSweeps <- 0

selectionVars ==
  <<selection_now, cursor, slot, cooling, circuit, active, binding, selection_changed,
    req, idle, faults>>
mcVars == <<part, vars, selectionVars>>

(* One part moves in a behaviour; the others stay as they begin.           *)
RegistryMoves ==
  part = "registry" /\ UNCHANGED <<part, selectionVars>>
SelectionMoves ==
  part = "selection" /\ UNCHANGED <<part, vars>>
ReturningMoves ==
  part = "returning" /\ UNCHANGED <<part, selectionVars>>

(* The bounds of the selection: the clock stands while a request scans,    *)
(* r1 is the first to arrive and r2 may have had a failure before.         *)
Scanning ==
  {"entering", "looking", "reserving", "acquiring", "decided", "released", "selected"}
SelectionInScope ==
  /\ selection_now' # selection_now =>
       \A r \in {"r1", "r2"} : req[r].pc \notin Scanning
  /\ req'["r1"].pc = "idle" => req'["r2"].pc = "idle"
  /\ req'["r1"].state \in {None, Plain}

MCInit ==
  /\ part \in {"registry", "selection", "returning"}
  /\ Init /\ Selection!Init

MCNext ==
  \/ RegistryMoves /\ Next
  \/ SelectionMoves /\ Selection!Next /\ SelectionInScope
  \/ ReturningMoves /\ Returning!Next

MCSpec ==
  /\ MCInit /\ [][MCNext]_mcVars

-----------------------------------------------------------------------------
(* Nobody waits in vain for a candidate: a request does not sleep through  *)
(* one it could have, is told when its session's creator is gone, and      *)
(* holds nothing that others wait for while it sleeps.                     *)
NobodyWaitsInVain ==
  /\ Selection!NeverSleepsThrough
  /\ Selection!NoOrphanedWait
  /\ Selection!NothingHeldAsleep

(* Nobody spins: a request that finds no candidate is quiet until somebody *)
(* else has moved, although it advances the epoch that wakes it.           *)
NobodySpins == Selection!WaitsAreQuiet
=============================================================================
