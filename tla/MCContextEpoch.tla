--------------------------- MODULE MCContextEpoch ---------------------------
(* ContextEpoch with two sources, of which one can render its removal.     *)
EXTENDS ContextEpoch, TLC

CONSTANTS a, b

Symmetry == Permutations(Values)

=============================================================================
