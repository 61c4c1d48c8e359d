----------------------------- MODULE SessionInput -----------------------------
(***************************************************************************)
(* packages/core/src/session/input.ts and the projectors behind it: the    *)
(* durable inbox of a Session.  An input is admitted (a row), later        *)
(* promoted (the row gets the sequence of its Prompted event and the user  *)
(* message becomes visible, in one transaction), and may be deleted by a   *)
(* committed revert.  Every action here is one transaction.                *)
(*                                                                         *)
(* Sequence 0 is the event that created the Session, so 0 stands for the   *)
(* null promoted_seq.  Of the other events of a Session only those of the  *)
(* inbox take sequences here; the others would only widen the gaps.        *)
(***************************************************************************)
EXTENDS Naturals

CONSTANTS Sessions, Ids, Prompts,
          None        \* undefined

VARIABLES seq,    \* Session -> latest sequence of its aggregate
          input   \* message identifier -> its row of session_input, or NoRow

ASSUME NoneAssumption == None \notin {"steer", "queue"}

Deliveries == {"steer", "queue"}
Row == [session : Sessions, delivery : Deliveries, prompt : Prompts, admitted : Nat, promoted : Nat]
NoRow == [session |-> None, delivery |-> None, prompt |-> None, admitted |-> 0, promoted |-> 0]

Stored(id) == input[id] # NoRow
Visible(id) == input[id].promoted # 0

InboxTypeOK == /\ seq \in [Sessions -> Nat]
               /\ input \in [Ids -> Row \cup {NoRow}]

InboxInit == /\ seq = [s \in Sessions |-> 0]
             /\ input = [id \in Ids |-> NoRow]

-----------------------------------------------------------------------------
(* Admission.                                                              *)

\* Mutant: the insert overwrites a row that is there.
AdmitOver(id, s, d, prompt) ==
  /\ seq' = [seq EXCEPT ![s] = @ + 1]
  /\ input' = [input EXCEPT ![id] = [session |-> s, delivery |-> d, prompt |-> prompt,
                                     admitted |-> seq[s] + 1, promoted |-> 0]]

\* PromptAdmitted and projectAdmitted: dies, and rolls back, on a known id.
Admit(id, s, d, prompt) ==
  /\ ~Stored(id)
  /\ seq' = [seq EXCEPT ![s] = @ + 1]
  /\ input' = [input EXCEPT ![id] = [session |-> s, delivery |-> d, prompt |-> prompt,
                                     admitted |-> seq[s] + 1, promoted |-> 0]]

Equivalent(id, s, d, prompt) ==
  Stored(id) /\ input[id].session = s /\ input[id].delivery = d /\ input[id].prompt = prompt

-----------------------------------------------------------------------------
(* Promotion.                                                              *)

Pending(s, d) == {id \in Ids : /\ Stored(id) /\ ~Visible(id)
                               /\ input[id].session = s /\ input[id].delivery = d}

\* What the promoters keep of a selected row: a snapshot, published later.
Snapshot(ids) == {[id |-> id, row |-> input[id]] : id \in ids}

\* Mutant: a row admitted exactly at the cutoff is left out.
SteersBelow(s, cutoff) == Snapshot({id \in Pending(s, "steer") : input[id].admitted < cutoff})

\* promoteSteers: the pending steers up to the cutoff.
SteersUpTo(s, cutoff) == Snapshot({id \in Pending(s, "steer") : input[id].admitted <= cutoff})

\* Mutant: no limit, the whole queue.
WholeQueue(s) == Snapshot(Pending(s, "queue"))

\* promoteNextQueued: the queued input admitted first, if any.
NextQueued(s) ==
  Snapshot({id \in Pending(s, "queue") : \A j \in Pending(s, "queue") : input[id].admitted <= input[j].admitted})

\* Mutant: the newest row first.
NewestOf(batch) == CHOOSE e \in batch : \A f \in batch : e.row.admitted >= f.row.admitted

\* `publish` takes the rows in admission order.
FirstOf(batch) == CHOOSE e \in batch : \A f \in batch : e.row.admitted <= f.row.admitted

\* The row is still the one that was selected.  A row deleted and admitted
\* again differs from the old one at least in time_created.
Current(e) == Stored(e.id) /\ [input[e.id] EXCEPT !.promoted = 0] = e.row

\* Prompted and projectPrompted on the row there is, or on none: an input of
\* unknown identifier is inserted as already promoted.
Promote(e) ==
  LET s == e.row.session IN
  /\ ~Stored(e.id) \/ (Current(e) /\ ~Visible(e.id))
  /\ seq' = [seq EXCEPT ![s] = @ + 1]
  /\ input' = [input EXCEPT ![e.id] =
       [e.row EXCEPT !.admitted = IF Stored(e.id) THEN @ ELSE seq[s] + 1, !.promoted = seq[s] + 1]]

\* A LifecycleConflict is forgiven when the input is visible by then.
AlreadyPromoted(e) == Stored(e.id) /\ Visible(e.id)

\* Any other conflict dies, and the drain with it.
PromotionDies(e) == Stored(e.id) /\ ~Visible(e.id) /\ ~Current(e)

-----------------------------------------------------------------------------
(* RevertEvent.Committed.  The boundary is a message of the Session: n is  *)
(* its sequence, or the latest inbox sequence below it.                    *)

RevertedBy(s, n) ==
  {id \in Ids : Stored(id) /\ input[id].session = s /\ (input[id].admitted > n \/ input[id].promoted > n)}

DeleteAfter(s, n) ==
  /\ seq' = [seq EXCEPT ![s] = @ + 1]
  /\ input' = [id \in Ids |-> IF id \in RevertedBy(s, n) THEN NoRow ELSE input[id]]

=============================================================================
