----------------------------- MODULE MCPermission -----------------------------
(***************************************************************************)
(* Permission on up to three requests: two tool calls of one session, one  *)
(* of them in need of a second resource, and one of another session.       *)
(***************************************************************************)
EXTENDS Permission, TLC

CONSTANTS q1, q2, q3, s1, s2, r1, r2

MCSessionOf == [q \in Requests |-> IF q = q3 THEN s2 ELSE s1]
MCNeeds == [q \in Requests |-> IF q = q2 THEN {r1, r2} ELSE {r1}]
MCSaves == [q \in Requests |-> CASE q = q1 -> {r1} [] q = q2 -> {r2} [] q = q3 -> {}]

\* Ask for everything; allow r2; deny r1.
MCRulesets == {r1 :> "ask" @@ r2 :> "ask", r1 :> "ask" @@ r2 :> "allow", r1 :> "deny" @@ r2 :> "ask"}

MCInitially == {s1 :> (r1 :> "ask" @@ r2 :> "ask") @@ s2 :> (r1 :> "ask" @@ r2 :> "allow")}

Symmetry == Permutations(Repliers)

=============================================================================
