-------------------------------- MODULE Prompts --------------------------------
(***************************************************************************)
(* What the permission and the question services promise the fiber that   *)
(* asks and the user that answers: a prompt opens once, one answer closes  *)
(* it for good, and the fiber that waits receives that answer and no       *)
(* other.  A prompt whose fiber gives up is withdrawn.                     *)
(***************************************************************************)
CONSTANTS Prompt,    \* prompt identifiers
          Answer     \* what may close a prompt

VARIABLES status,    \* prompt -> "unasked", "open", "withdrawn" or its answer
          received   \* prompt -> the answer its fiber resumed with, or "nothing"

vars == <<status, received>>

Init == /\ status = [q \in Prompt |-> "unasked"]
        /\ received = [q \in Prompt |-> "nothing"]

Open(q) == /\ status[q] = "unasked"
           /\ status' = [status EXCEPT ![q] = "open"]
           /\ UNCHANGED received

\* An answer may close several prompts at once: the service closing down does.
Settle(closing, a) == /\ \A q \in closing : status[q] = "open"
                      /\ status' = [q \in Prompt |-> IF q \in closing THEN a ELSE status[q]]
                      /\ UNCHANGED received

\* The fiber that waits gives up, maybe with an answer it will not see.
Withdraw(q) == /\ status[q] \in Answer \cup {"open"}
               /\ received[q] = "nothing"
               /\ status' = [status EXCEPT ![q] = "withdrawn"]
               /\ UNCHANGED received

Receive(q) == /\ status[q] \in Answer
              /\ received[q] = "nothing"
              /\ received' = [received EXCEPT ![q] = status[q]]
              /\ UNCHANGED status

Next == \/ \E q \in Prompt : Open(q) \/ Withdraw(q) \/ Receive(q)
        \/ \E closing \in SUBSET Prompt, a \in Answer : Settle(closing, a)

Spec == Init /\ [][Next]_vars

=============================================================================
