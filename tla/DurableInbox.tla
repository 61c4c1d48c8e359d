------------------------------ MODULE DurableInbox ------------------------------
(***************************************************************************)
(* What whoever prompts a Session is promised of the input: it is admitted *)
(* with a ticket behind all that wait in its lane, a Session's steers or   *)
(* its queue, and no ticket is passed: the next input of a lane that       *)
(* becomes visible is the first that waits.  Its content never changes,    *)
(* and nothing but a revert of its Session takes it away again.  An input  *)
(* that a revert takes away while it is being shown may still be shown.    *)
(***************************************************************************)
EXTENDS Naturals

CONSTANTS Sessions, Ids, Deliveries, Prompts, Tickets, None

VARIABLE entry   \* identifier -> the input it names, or NoEntry

Entry(status, s, d, prompt, ticket) ==
  [status |-> status, session |-> s, delivery |-> d, prompt |-> prompt, ticket |-> ticket]

NoEntry == Entry("absent", None, None, None, 0)

Init == entry = [id \in Ids |-> NoEntry]

Lane(s, d) ==
  {id \in Ids : entry[id].status = "waiting" /\ entry[id].session = s /\ entry[id].delivery = d}

Admit(id) ==
  /\ entry[id].status = "absent"
  /\ \E s \in Sessions, d \in Deliveries, prompt \in Prompts, ticket \in Tickets :
       /\ \A j \in Lane(s, d) : entry[j].ticket < ticket
       /\ entry' = [entry EXCEPT ![id] = Entry("waiting", s, d, prompt, ticket)]

Show(id) ==
  /\ entry[id].status = "waiting"
  /\ \A j \in Lane(entry[id].session, entry[id].delivery) : entry[id].ticket <= entry[j].ticket
  /\ entry' = [entry EXCEPT ![id].status = "visible"]

ShowRetracted(id) ==
  /\ entry[id].status = "absent"
  /\ \E s \in Sessions, d \in Deliveries, prompt \in Prompts, ticket \in Tickets :
       entry' = [entry EXCEPT ![id] = Entry("visible", s, d, prompt, ticket)]

Retract(s) ==
  \E ids \in SUBSET {id \in Ids : entry[id].session = s} :
    entry' = [id \in Ids |-> IF id \in ids THEN NoEntry ELSE entry[id]]

Next == \/ \E id \in Ids : Admit(id) \/ Show(id) \/ ShowRetracted(id)
        \/ \E s \in Sessions : Retract(s)

Spec == Init /\ [][Next]_entry

=============================================================================
