------------------------------- MODULE ToolCalls -------------------------------
(***************************************************************************)
(* What a session promises of every tool call, whoever tells of it: the    *)
(* call is announced, made and settled, in this order; it is settled once; *)
(* and what its message shows once it is settled is never taken back.  A   *)
(* call may be settled before it is made, then as failed, and also before  *)
(* the message shows it, which then never does.                            *)
(***************************************************************************)
EXTENDS Naturals

CONSTANT Calls

VARIABLES shown,    \* call -> what its message shows
          settled   \* call -> how often it was settled

vars == <<shown, settled>>

Init == /\ shown = [c \in Calls |-> "none"]
        /\ settled = [c \in Calls |-> 0]

Announce(c) == /\ shown[c] = "none" /\ settled[c] = 0
               /\ shown' = [shown EXCEPT ![c] = "pending"]
               /\ UNCHANGED settled

Make(c) == /\ shown[c] \in {"none", "pending"} /\ settled[c] = 0
           /\ shown' = [shown EXCEPT ![c] = "running"]
           /\ UNCHANGED settled

Verdicts(state) == CASE state = "running" -> {"completed", "error"}
                     [] state = "pending" -> {"error"}
                     [] state = "none"    -> {"none"}
                     [] OTHER             -> {}

Settle(c) == /\ settled[c] = 0
             /\ settled' = [settled EXCEPT ![c] = 1]
             /\ \E verdict \in Verdicts(shown[c]) : shown' = [shown EXCEPT ![c] = verdict]

Next == \E c \in Calls : Announce(c) \/ Make(c) \/ Settle(c)

Spec == Init /\ [][Next]_vars

=============================================================================
