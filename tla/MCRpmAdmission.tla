-------------------------- MODULE MCRpmAdmission --------------------------
(***************************************************************************)
(* One credential with a session bound request and a normal one.  What the *)
(* limit does to the window and what the routes do to the admissions are   *)
(* explored apart: a behaviour stays within one scope.                     *)
(***************************************************************************)
EXTENDS RpmAdmission

CONSTANTS r1, r2

VARIABLE scope

(* The limit moves between 1 and 2 while the route stays enabled.          *)
LimitChanges == [limit : {1, 2}, route : {r1}]

(* The route is disabled, enabled again and replaced by another one, and   *)
(* the limit is set or not.                                                *)
RouteChanges == [limit : {1}, route : {r1, r2, None}] \cup {[limit |-> None, route |-> r1]}

AllChanges == LimitChanges \cup RouteChanges

InScope(c, inc) ==
  IF scope = "window" THEN c.limit # None /\ c.admission = 1 /\ inc = 2
  ELSE c.limit # 2

MCInit == Init /\ scope \in {"window", "routes"} /\ InScope(current, next_inc) /\ by_identity[r2] = None

MCNext ==
  /\ Next /\ UNCHANGED scope
  /\ bound' = Unbound \/ InScope(bound', next_inc')
  /\ scope = "routes" => now' = 0 /\ next_id' <= 2

MCSpec == MCInit /\ [][MCNext]_<<vars, scope>>
=============================================================================
