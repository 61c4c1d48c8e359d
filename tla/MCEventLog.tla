------------------------------ MODULE MCEventLog ------------------------------
(***************************************************************************)
(* EventLog on small sets.  No symmetry: TailCatchesUp is a liveness       *)
(* property.                                                               *)
(***************************************************************************)
EXTENDS EventLog, TLC

=============================================================================
