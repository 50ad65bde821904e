---------------------------- MODULE ConfigHistory ----------------------------
(***************************************************************************)
(* What the publication of configuration promises: one history of writes,  *)
(* each made on top of the configuration everybody could see, by an author *)
(* who had seen every write of another operator before it.                 *)
(***************************************************************************)
EXTENDS Naturals, Sequences

VARIABLES
  history, \* the writes so far: kind, revision seen, token replaced, token left
  visible  \* the revision that requests and operators see

TokenOf(h) == IF h = <<>> THEN 0 ELSE h[Len(h)].token

(* An edit overlooks no write of an operator.  A refresh replaces the very *)
(* token it came from, and only refreshes and logins change the token.     *)
Legal(h, w) ==
  /\ w.kind = "edit" => \A i \in w.seen + 1 .. Len(h) : h[i].kind = "refresh"
  /\ w.kind # "edit" => w.token_seen = TokenOf(h)
  /\ w.token = IF w.kind = "edit" THEN TokenOf(h) ELSE TokenOf(h) + 1

Init == history = <<>> /\ visible = 0

Commit ==
  /\ visible = Len(history)
  /\ Len(history') = Len(history) + 1
  /\ LET w == history'[Len(history) + 1]
     IN Legal(history, w) /\ history' = Append(history, w)
  /\ UNCHANGED visible

Expose == visible' = Len(history) /\ UNCHANGED history

Next == Commit \/ Expose

vars == <<history, visible>>

Spec == Init /\ [][Next]_vars
=============================================================================
