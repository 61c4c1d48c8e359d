---------------------------- MODULE MCSessionDrain ----------------------------
(***************************************************************************)
(* SessionDrain on small sets.                                             *)
(***************************************************************************)
EXTENDS SessionDrain, TLC

\* s2 has an agent without `steps`.
CONSTANTS s1, s2
MCSteps == [s \in Sessions |-> IF s = s2 THEN None ELSE 2]

\* Sessions, identifiers, prompts and clients are interchangeable.
Symmetry == Permutations(Sessions) \cup Permutations(Ids) \cup Permutations(Prompts)
            \cup Permutations(Clients)

=============================================================================
