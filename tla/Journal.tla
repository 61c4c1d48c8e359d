-------------------------------- MODULE Journal --------------------------------
(***************************************************************************)
(* What the durable event store promises: one journal per aggregate, in    *)
(* which an entry is added at the end or all are dropped, and readers, who *)
(* get the positions after the one they start from one by one, up to the   *)
(* end of the journal as it is.  Entries of all journals differ in their   *)
(* identifiers.  The first entry is at position 0.                         *)
(***************************************************************************)
EXTENDS Integers, Sequences

CONSTANTS Aggregates, Ids, Contents, Readers,
          Starts,   \* positions a reader may start after
          None

VARIABLES journal,   \* aggregate -> its entries
          reader     \* reader -> whose journal it reads, from where, what it got

vars == <<journal, reader>>

Closed == [agg |-> None, from |-> -1, got |-> << >>]

Init == /\ journal = [a \in Aggregates |-> << >>]
        /\ reader = [r \in Readers |-> Closed]

Unused(id) == \A a \in Aggregates : \A i \in 1 .. Len(journal[a]) : journal[a][i].id # id

Add(a) ==
  /\ \E id \in Ids, content \in Contents :
       /\ Unused(id)
       /\ journal' = [journal EXCEPT ![a] = @ \o <<[id |-> id, content |-> content]>>]
  /\ UNCHANGED reader

Drop(a) == /\ journal' = [journal EXCEPT ![a] = << >>]
           /\ UNCHANGED reader

Open(r) == /\ reader[r] = Closed
           /\ \E a \in Aggregates, from \in Starts :
                reader' = [reader EXCEPT ![r] = [agg |-> a, from |-> from, got |-> << >>]]
           /\ UNCHANGED journal

\* The last position a reader has got, or the one it started after.
Reached(r) == reader[r].from + Len(reader[r].got)

Deliver(r) ==
  /\ reader[r].agg \in Aggregates
  /\ LET last == Len(journal[reader[r].agg]) - 1
         new == [i \in 1 .. last - Reached(r) |-> Reached(r) + i]
     IN  /\ Reached(r) < last
         /\ reader' = [reader EXCEPT ![r].got = @ \o new]
  /\ UNCHANGED journal

Close(r) == /\ reader' = [reader EXCEPT ![r] = Closed]
            /\ UNCHANGED journal

Next == \/ \E a \in Aggregates : Add(a) \/ Drop(a)
        \/ \E r \in Readers : Open(r) \/ Deliver(r) \/ Close(r)

Spec == Init /\ [][Next]_vars

=============================================================================
