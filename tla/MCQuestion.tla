------------------------------ MODULE MCQuestion ------------------------------
(***************************************************************************)
(* Question on two requests and two clients; one answer and a rejection    *)
(* are enough to tell the verdicts of clients that race.                   *)
(***************************************************************************)
EXTENDS Question, TLC

=============================================================================
