------------------------ MODULE ContextEpochProofs ------------------------
(***************************************************************************)
(* ContextEpoch for any sources, values, places and number of events: the  *)
(* snapshot is what the model was told, whatever compaction, movement and  *)
(* reverts do while a turn prepares.                                       *)
(***************************************************************************)
EXTENDS ContextEpoch, TLAPS

-----------------------------------------------------------------------------
(* The strengthening.                                                      *)

\* Sequences are those of the Session's events, and identify an update.
Log ==
  /\ \A u \in updates : u.seq <= seq
  /\ \A u, w \in updates : u.seq = w.seq => u = w
  /\ \A c \in compactions : c <= seq

\* What the stored epoch owes to the history: nothing was said since a
\* compaction that it does not follow.
Stored ==
  epoch # NoEpoch =>
    /\ epoch.from <= seq
    /\ \A u \in updates, c \in compactions : c > epoch.from => u.seq <= c
    /\ \A s \in Sources : Tells(updates, epoch.baseline, epoch.from, s, epoch.snapshot[s])

\* The epoch about to be stored by this turn is a baseline of its own.
Baselined(t) ==
  /\ t.row \in Row /\ t.row.baseline = t.row.snapshot /\ t.row.from <= seq
  /\ \A s \in Sources : t.observed[s] # Unavailable => t.row.snapshot[s] = t.observed[s]

\* The stored epoch is the one the turn holds.
Same(t) == epoch.baseline = t.row.baseline /\ epoch.snapshot = t.row.snapshot /\ epoch.from = t.row.from

\* What the turn observed is what its epoch says.
Current(t) == t.blocked \/ \A s \in Sources : t.observed[s] # Unavailable => t.row.snapshot[s] = t.observed[s]

\* What a turn knows while it opens an epoch: there is none.
Opening(t) ==
  /\ t.pc \in {"open", "insert", "reopen", "reinsert"} => epoch = NoEpoch
  /\ t.pc \in {"insert", "reinsert"} => Baselined(t) /\ \A u \in updates : u.seq <= t.row.from

\* What it knows while it prepares one: the row is the one it read, or gone.
Preparing(t) ==
  /\ t.pc \in {"latest", "reconcile", "update", "replace"} /\ ~t.reset => epoch # NoEpoch
  /\ t.pc \in {"latest", "reconcile"} => t.row \in Row /\ (epoch # NoEpoch => epoch = t.row)
  /\ t.pc = "reconcile" => /\ t.compaction <= seq
                           /\ epoch # NoEpoch => /\ \A c \in compactions : c <= t.compaction
                                                 /\ t.compaction \in compactions \cup {0}
  /\ t.pc = "replace" =>
       /\ Baselined(t)
       /\ epoch # NoEpoch => /\ \A u \in updates : u.seq <= t.row.from
                             /\ \A s \in Sources : epoch.snapshot[s] # None => t.observed[s] # Unavailable

\* What it knows when it is about to publish an update.
Updating(t) ==
  t.pc = "update" =>
    /\ t.row \in Row /\ Current(t)
    /\ epoch # NoEpoch =>
         /\ epoch.baseline = t.row.baseline /\ epoch.from = t.row.from
         /\ \A c \in compactions : c <= epoch.from
         /\ \A s \in Sources :
              /\ t.row.snapshot[s] = IF t.says[s] = Unsaid THEN epoch.snapshot[s] ELSE t.says[s]
              /\ t.row.snapshot[s] = None /\ epoch.snapshot[s] # None => t.observed[s] = None

\* What it knows when its epoch is settled.
Asking(t) ==
  /\ t.pc \in {"request", "asked"} => t.row \in Row
  /\ (t.pc \in {"request", "asked"} \/ (t.pc = "promote" /\ t.row # NoEpoch)) /\ ~t.reset
       => epoch # NoEpoch /\ Same(t) /\ Current(t)
  /\ t.pc = "asked" /\ ~t.reset => t.told = epoch.snapshot

\* A turn that has not read a row holds none, and is quiet.
Quiet(t) == /\ t.pc \in {"idle", "check", "open", "find"} => t.row = NoEpoch
            /\ t.pc \in {"check", "open", "reopen", "insert", "promote", "find", "latest", "reconcile", "replace"} => ~t.blocked
            /\ t.pc = "promote" /\ t.row # NoEpoch => Current(t)

TurnSound == Opening(turn) /\ Preparing(turn) /\ Updating(turn) /\ Asking(turn) /\ Quiet(turn)

IInv == TypeOK /\ Log /\ Stored /\ TurnSound

-----------------------------------------------------------------------------
(* Steps that only change the turn.                                        *)

\* Such a step keeps what is said of the stored epoch.
LEMMA ReadsKeep ==
  ASSUME IInv, Reads, turn' \in Turn, TurnSound'
  PROVE  IInv'
BY DEF IInv, Reads, TypeOK, Log, Stored

\* A turn that is over knows nothing.
LEMMA IdleSound ==
  ASSUME turn' = Idle PROVE turn' \in Turn /\ TurnSound'
<1>1. turn' = [pc |-> "idle", row |-> NoEpoch, compaction |-> 0, observed |-> Nothing,
               says |-> Silence, blocked |-> FALSE, told |-> Nothing, reset |-> FALSE]
  BY DEF Idle
<1>2. Nothing \in Observation /\ Nothing \in Known /\ Silence \in Text
  BY DEF Nothing, Silence, Observation, Known, Text
<1>3. turn' \in Turn
  BY <1>1, <1>2 DEF Turn, PCs
<1>4. TurnSound'
  BY <1>1 DEF TurnSound, Opening, Preparing, Updating, Asking, Quiet
<1> QED BY <1>3, <1>4

\* The turn ends.
LEMMA GiveUpStep == ASSUME IInv, turn' = Idle, Reads PROVE IInv'
BY IdleSound, ReadsKeep

\* A turn begins.
LEMMA BeginStep == ASSUME IInv, BeginTurn PROVE IInv'
<1>1. turn' = [pc |-> "check", row |-> NoEpoch, compaction |-> 0, observed |-> Nothing,
               says |-> Silence, blocked |-> FALSE, told |-> Nothing, reset |-> FALSE]
  BY DEF BeginTurn, Idle
<1>2. Nothing \in Observation /\ Nothing \in Known /\ Silence \in Text
  BY DEF Nothing, Silence, Observation, Known, Text, IInv, TypeOK
<1>3. turn' \in Turn
  BY <1>1, <1>2 DEF Turn, PCs
<1>4. TurnSound'
  BY <1>1 DEF TurnSound, Opening, Preparing, Updating, Asking, Quiet
<1> QED BY <1>3, <1>4, ReadsKeep DEF BeginTurn

\* The turn looks for an epoch.
LEMMA ExistsStep == ASSUME IInv, Exists PROVE IInv'
<1> USE DEF IInv, TypeOK
<1>1. turn \in Turn /\ turn.pc = "check" /\ turn.row = NoEpoch /\ ~turn.blocked
  BY DEF Exists, At, TurnSound, Quiet
<1>2. turn' = [turn EXCEPT !.pc = IF epoch = NoEpoch THEN "open" ELSE "promote"] /\ Reads
  BY DEF Exists
<1>3. turn' \in Turn
  BY <1>1, <1>2 DEF Turn, PCs
<1>4. /\ turn'.pc \in {"open", "promote"} /\ (turn'.pc = "open" => epoch = NoEpoch)
      /\ turn'.row = NoEpoch /\ ~turn'.blocked
  BY <1>1, <1>2 DEF Turn
<1>5. TurnSound'
  BY <1>2, <1>4 DEF Reads, TurnSound, Opening, Preparing, Updating, Asking, Quiet
<1> QED BY <1>2, <1>3, <1>5, ReadsKeep

\* What can be observed makes a generation.
LEMMA FreshTyped ==
  ASSUME IInv, NEW observed \in Observation, NEW from \in Nat
  PROVE  /\ Fresh(observed, from) \in Row
         /\ Fresh(observed, from).baseline = Fresh(observed, from).snapshot
         /\ Fresh(observed, from).snapshot = Generation(observed)
         /\ Fresh(observed, from).from = from
         /\ \A s \in Sources : observed[s] # Unavailable => Generation(observed)[s] = observed[s]
<1>1. Generation(observed) \in Known
  BY DEF Generation, Known, Observation
<1> QED BY <1>1 DEF Fresh, Row, Generation

\* The first baseline is rendered.
LEMMA OpenStep == ASSUME IInv, Open PROVE IInv'
<1> USE DEF IInv, TypeOK
<1>1. PICK observed \in Known :
        turn' = [turn EXCEPT !.pc = IF @ = "open" THEN "insert" ELSE "reinsert",
                             !.row = Fresh(observed, seq), !.observed = observed]
  BY DEF Open
<1>2. turn \in Turn /\ turn.pc \in {"open", "reopen"} /\ Reads /\ seq \in Nat
      /\ epoch = NoEpoch /\ ~turn.blocked
  BY DEF Open, TurnSound, Opening, Quiet
<1>3. observed \in Observation
  BY DEF Known, Observation
<1> DEFINE row == Fresh(observed, seq)
<1>4. /\ row \in Row /\ row.baseline = row.snapshot /\ row.from = seq
      /\ \A s \in Sources : observed[s] # Unavailable => row.snapshot[s] = observed[s]
  BY <1>2, <1>3, FreshTyped
<1> HIDE DEF row
<1>5. turn' \in Turn
  <2>1. turn' = [turn EXCEPT !.pc = IF turn.pc = "open" THEN "insert" ELSE "reinsert",
                             !.row = row, !.observed = observed]
    BY <1>1 DEF row
  <2> QED BY <1>2, <1>3, <1>4, <2>1 DEF Turn, PCs
<1>6. /\ turn'.pc \in {"insert", "reinsert"} /\ turn'.row = row /\ turn'.observed = observed
      /\ ~turn'.blocked
  BY <1>1, <1>2 DEF Turn, row
<1>7. Baselined(turn)'
  BY <1>2, <1>4, <1>6 DEF Baselined, Reads
<1>8. TurnSound'
  BY <1>2, <1>4, <1>6, <1>7 DEF Reads, Log, TurnSound, Opening, Preparing, Updating, Asking, Quiet
<1> QED BY <1>2, <1>5, <1>8, ReadsKeep

\* Inputs were promoted.
LEMMA PromoteStep == ASSUME IInv, Promote PROVE IInv'
<1> USE DEF IInv, TypeOK
<1>1. turn \in Turn /\ turn.pc = "promote" /\ ~turn.blocked
  BY DEF Promote, At, TurnSound, Quiet
<1>2. turn' = [turn EXCEPT !.pc = IF turn.row = NoEpoch THEN "find" ELSE "request"] /\ Reads
  BY DEF Promote
<1>3. turn' \in Turn
  BY <1>1, <1>2 DEF Turn, PCs
<1>4. /\ turn'.pc \in {"find", "request"} /\ (turn'.pc = "find" <=> turn.row = NoEpoch)
      /\ turn'.row = turn.row /\ turn'.blocked = turn.blocked /\ turn'.reset = turn.reset
      /\ turn'.observed = turn.observed /\ turn.row \in Row \cup {NoEpoch}
  BY <1>1, <1>2 DEF Turn
<1>5. Asking(turn)'
  BY <1>1, <1>2, <1>4 DEF Reads, TurnSound, Asking, Same, Current
<1>6. TurnSound'
  BY <1>1, <1>2, <1>4, <1>5 DEF Reads, TurnSound, Opening, Preparing, Updating, Quiet
<1> QED BY <1>2, <1>3, <1>6, ReadsKeep

\* The turn reads the stored epoch.
LEMMA FindStep == ASSUME IInv, Find PROVE IInv'
<1> USE DEF IInv, TypeOK
<1>1. turn \in Turn /\ turn.pc = "find" /\ ~turn.blocked
  BY DEF Find, At, TurnSound, Quiet
<1>2. turn' = [turn EXCEPT !.pc = IF epoch = NoEpoch THEN "reopen" ELSE "latest", !.row = epoch] /\ Reads
  BY DEF Find
<1>3. turn' \in Turn
  BY <1>1, <1>2 DEF Turn, PCs
<1>4. /\ turn'.pc \in {"reopen", "latest"} /\ (turn'.pc = "reopen" <=> epoch = NoEpoch)
      /\ turn'.row = epoch /\ ~turn'.blocked
  BY <1>1, <1>2 DEF Turn
<1>5. TurnSound'
  BY <1>2, <1>4 DEF Reads, TurnSound, Opening, Preparing, Updating, Asking, Quiet
<1> QED BY <1>2, <1>3, <1>5, ReadsKeep

\* The turn reads the latest compaction.
LEMMA LatestStep == ASSUME IInv, Latest PROVE IInv'
<1> USE DEF IInv, TypeOK
<1>1. PICK seen \in compactions \cup {0} :
        /\ \A c \in compactions : c <= seen
        /\ turn' = [turn EXCEPT !.pc = "reconcile", !.compaction = seen]
  BY DEF Latest
<1>2. turn \in Turn /\ turn.pc = "latest" /\ ~turn.blocked /\ Reads
  BY DEF Latest, At, TurnSound, Quiet
<1>3. seen \in Nat /\ seen <= seq
  BY DEF Log
<1>4. turn' \in Turn
  BY <1>1, <1>2, <1>3 DEF Turn, PCs
<1>5. /\ turn'.pc = "reconcile" /\ turn'.compaction = seen /\ turn'.row = turn.row
      /\ ~turn'.blocked /\ turn'.reset = turn.reset
  BY <1>1, <1>2 DEF Turn
<1>6. Preparing(turn)'
  BY <1>1, <1>2, <1>3, <1>5 DEF Reads, TurnSound, Preparing
<1>7. TurnSound'
  BY <1>2, <1>5, <1>6 DEF Reads, TurnSound, Opening, Updating, Asking, Quiet
<1> QED BY <1>2, <1>4, <1>7, ReadsKeep

-----------------------------------------------------------------------------
(* Reconciliation.                                                         *)

\* The turn compares what it observed with what was told.
LEMMA ReconcileStep == ASSUME IInv, Reconcile PROVE IInv'
<1> USE DEF IInv, TypeOK
<1>1. PICK observed \in Observation, broken \in SUBSET Sources :
        LET snapshot == turn.row.snapshot
            says == Changes(observed, snapshot)
            replaces == Due \/ Incompatible(observed, snapshot, broken)
            from == IF Due THEN turn.compaction ELSE seq
            after == [turn EXCEPT !.observed = observed, !.compaction = 0]
        IN \/ /\ replaces /\ Blocked(observed, snapshot)
              /\ turn' = [after EXCEPT !.pc = "request", !.blocked = TRUE]
           \/ /\ replaces /\ ~Blocked(observed, snapshot)
              /\ turn' = [after EXCEPT !.pc = "replace", !.row = Fresh(observed, from)]
           \/ /\ ~replaces /\ says = Silence
              /\ turn' = [after EXCEPT !.pc = "request"]
           \/ /\ ~replaces /\ says # Silence
              /\ turn' = [after EXCEPT !.pc = "update", !.says = says,
                                       !.row = [@ EXCEPT !.snapshot = Advanced(observed, snapshot)]]
  BY DEF Reconcile
<1> DEFINE snapshot == turn.row.snapshot
           says == Changes(observed, snapshot)
           replaces == Due \/ Incompatible(observed, snapshot, broken)
           from == IF Due THEN turn.compaction ELSE seq
           next == Fresh(observed, from)
           advanced == Advanced(observed, snapshot)
           row == [turn.row EXCEPT !.snapshot = advanced]
<1>2. /\ turn \in Turn /\ turn.pc = "reconcile" /\ ~turn.blocked /\ Reads
      /\ seq \in Nat /\ turn.compaction \in Nat /\ turn.compaction <= seq
  BY DEF Reconcile, At, TurnSound, Quiet, Preparing, Turn
<1>3. /\ turn.row \in Row /\ (epoch # NoEpoch => epoch = turn.row) /\ (~turn.reset => epoch # NoEpoch)
      /\ epoch # NoEpoch => \A c \in compactions : c <= turn.compaction
      /\ epoch # NoEpoch => turn.compaction \in compactions \cup {0}
  BY <1>2 DEF TurnSound, Preparing
<1>4. snapshot \in Known /\ turn.row.from \in Nat
  BY <1>3 DEF Row
<1>5. says \in Text /\ advanced \in Known
  <2>1. \A s \in Sources : /\ observed[s] \in Values \cup {None, Unavailable}
                           /\ snapshot[s] \in Values \cup {None}
    BY <1>4 DEF Observation, Known
  <2>2. says \in Text
    BY <2>1 DEF Changes, Text
  <2>3. advanced \in Known
    BY <2>1 DEF Advanced, Known
  <2> QED BY <2>2, <2>3
<1>6. row \in Row /\ row.baseline = turn.row.baseline /\ row.from = turn.row.from /\ row.snapshot = advanced
  BY <1>3, <1>5 DEF Row
<1>7. from \in Nat /\ from <= seq
  BY <1>2
<1>8. /\ next \in Row /\ next.baseline = next.snapshot /\ next.from = from
      /\ \A s \in Sources : observed[s] # Unavailable => next.snapshot[s] = observed[s]
  BY <1>7, FreshTyped
<1>9. \A s \in Sources :
        /\ advanced[s] = IF says[s] = Unsaid THEN snapshot[s] ELSE says[s]
        /\ observed[s] # Unavailable => advanced[s] = observed[s]
        /\ advanced[s] = None /\ snapshot[s] # None => observed[s] = None
  <2> SUFFICES ASSUME NEW s \in Sources
               PROVE  /\ advanced[s] = IF says[s] = Unsaid THEN snapshot[s] ELSE says[s]
                      /\ observed[s] # Unavailable => advanced[s] = observed[s]
                      /\ advanced[s] = None /\ snapshot[s] # None => observed[s] = None
    OBVIOUS
  <2>1. observed[s] # Unsaid
    BY MarksAssumption DEF Observation
  <2>2. /\ says[s] = IF observed[s] \in {Unavailable, snapshot[s]} THEN Unsaid ELSE observed[s]
        /\ advanced[s] = IF observed[s] = Unavailable THEN snapshot[s] ELSE observed[s]
    BY DEF Changes, Advanced
  <2> QED BY <2>1, <2>2
<1>10. says = Silence => \A s \in Sources : observed[s] # Unavailable => snapshot[s] = observed[s]
  BY <1>9 DEF Silence
<1>11. epoch # NoEpoch => \A u \in updates : u.seq <= from
  <2> SUFFICES ASSUME epoch # NoEpoch, NEW u \in updates PROVE u.seq <= from
    OBVIOUS
  <2>1. CASE ~Due
    BY <2>1 DEF Log
  <2>2. CASE Due
    <3>1. epoch = turn.row /\ turn.compaction \in compactions /\ turn.compaction > epoch.from
      BY <1>2, <1>3, <1>4, <2>2 DEF Due
    <3>2. u.seq <= turn.compaction
      BY <3>1 DEF Stored
    <3> QED BY <2>2, <3>2
  <2> QED BY <2>1, <2>2
<1>12. CASE replaces /\ Blocked(observed, snapshot)
  <2>1. turn' = [[turn EXCEPT !.observed = observed, !.compaction = 0] EXCEPT !.pc = "request", !.blocked = TRUE]
    BY <1>1, <1>12
  <2>2. turn' \in Turn
    BY <1>2, <2>1 DEF Turn, PCs
  <2>3. turn'.pc = "request" /\ turn'.blocked /\ turn'.row = turn.row /\ turn'.reset = turn.reset
    BY <1>2, <2>1 DEF Turn
  <2>4. TurnSound'
    BY <1>2, <1>3, <2>3 DEF Reads, TurnSound, Opening, Preparing, Updating, Asking, Quiet, Same, Current
  <2> QED BY <1>2, <2>2, <2>4, ReadsKeep
<1>13. CASE replaces /\ ~Blocked(observed, snapshot)
  <2>1. turn' = [[turn EXCEPT !.observed = observed, !.compaction = 0] EXCEPT !.pc = "replace", !.row = next]
    BY <1>1, <1>13
  <2> HIDE DEF next
  <2>2. turn' \in Turn
    BY <1>2, <1>8, <2>1 DEF Turn, PCs
  <2>3. /\ turn'.pc = "replace" /\ ~turn'.blocked /\ turn'.row = next /\ turn'.reset = turn.reset
        /\ turn'.observed = observed
    BY <1>2, <2>1 DEF Turn
  <2>4. Baselined(turn)'
    BY <1>2, <1>7, <1>8, <2>3 DEF Baselined, Reads
  <2>5. epoch # NoEpoch => \A s \in Sources : epoch.snapshot[s] # None => observed[s] # Unavailable
    BY <1>3, <1>13 DEF Blocked
  <2> HIDE DEF from
  <2>6. Preparing(turn)'
    BY <1>2, <1>3, <1>8, <1>11, <2>3, <2>4, <2>5 DEF Reads, Preparing
  <2>7. TurnSound'
    BY <1>2, <2>3, <2>6 DEF Reads, TurnSound, Opening, Updating, Asking, Quiet
  <2> QED BY <1>2, <2>2, <2>7, ReadsKeep
<1>14. CASE ~replaces /\ says = Silence
  <2>1. turn' = [[turn EXCEPT !.observed = observed, !.compaction = 0] EXCEPT !.pc = "request"]
    BY <1>1, <1>14
  <2>2. turn' \in Turn
    BY <1>2, <2>1 DEF Turn, PCs
  <2>3. /\ turn'.pc = "request" /\ turn'.row = turn.row /\ turn'.reset = turn.reset /\ turn'.observed = observed
    BY <1>2, <2>1 DEF Turn
  <2>4. Current(turn)'
    BY <1>10, <1>14, <2>3 DEF Current
  <2>5. TurnSound'
    BY <1>2, <1>3, <2>3, <2>4 DEF Reads, TurnSound, Opening, Preparing, Updating, Asking, Quiet, Same
  <2> QED BY <1>2, <2>2, <2>5, ReadsKeep
<1>15. CASE ~replaces /\ says # Silence
  <2>1. turn' = [[turn EXCEPT !.observed = observed, !.compaction = 0]
                   EXCEPT !.pc = "update", !.says = says, !.row = row]
    BY <1>1, <1>2, <1>15 DEF Turn
  <2>a. ~Due
    BY <1>15
  <2> HIDE DEF row, says
  <2>2. turn' \in Turn
    BY <1>2, <1>5, <1>6, <2>1 DEF Turn, PCs
  <2>3. /\ turn'.pc = "update" /\ turn'.row = row /\ turn'.reset = turn.reset
        /\ turn'.observed = observed /\ turn'.says = says
    BY <1>2, <2>1 DEF Turn
  <2>4. Current(turn)'
    BY <1>6, <1>9, <2>3 DEF Current
  <2>5. epoch # NoEpoch => \A c \in compactions : c <= epoch.from
    BY <1>2, <1>3, <1>4, <2>a DEF Due, Log
  <2>6. epoch # NoEpoch => epoch.snapshot = snapshot
    BY <1>3
  <2> HIDE DEF advanced
  <2>7. Updating(turn)'
    <3>1. epoch # NoEpoch => epoch.baseline = row.baseline /\ epoch.from = row.from
      BY <1>3, <1>6
    <3> QED BY <1>2, <1>6, <1>9, <2>3, <2>4, <2>5, <2>6, <3>1 DEF Reads, Updating
  <2>8. TurnSound'
    BY <1>2, <1>3, <2>3, <2>7 DEF Reads, TurnSound, Opening, Preparing, Asking, Quiet
  <2> QED BY <1>2, <2>2, <2>8, ReadsKeep
<1> QED BY <1>1, <1>12, <1>13, <1>14, <1>15

-----------------------------------------------------------------------------
(* Writes of the turn.                                                     *)

\* A baseline of its own, stored over a history that ends before it, is
\* exact: there is nothing to show after it.
LEMMA BaselineExact ==
  ASSUME IInv, NEW row, row \in Row, row.baseline = row.snapshot, row.from <= seq,
         \A u \in updates : u.seq <= row.from
  PROVE  /\ row.from <= seq
         /\ \A u \in updates, c \in compactions : c > row.from => u.seq <= c
         /\ \A s \in Sources : Tells(updates, row.baseline, row.from, s, row.snapshot[s])
<1>1. \A u \in updates : u.seq \in Nat
  BY DEF IInv, TypeOK, Update
<1>2. row.from \in Nat /\ \A c \in compactions : c \in Nat
  BY DEF Row, IInv, TypeOK
<1>3. Shown(updates, row.from) = {}
  BY <1>1, <1>2 DEF Shown
<1>4. \A u \in updates, c \in compactions : c > row.from => u.seq <= c
  BY <1>1, <1>2
<1> QED BY <1>3, <1>4 DEF Tells

\* The first baseline is stored.
LEMMA InsertStep == ASSUME IInv, Insert PROVE IInv'
<1> USE DEF IInv, TypeOK
<1>1. /\ turn.pc \in {"insert", "reinsert"} /\ epoch' = turn.row
      /\ turn' = [turn EXCEPT !.pc = IF turn.pc = "insert" THEN "promote" ELSE "request"]
      /\ UNCHANGED <<seq, updates, compactions>>
  BY DEF Insert
<1>2. turn \in Turn /\ Baselined(turn) /\ \A u \in updates : u.seq <= turn.row.from
  BY <1>1 DEF TurnSound, Opening
<1>3. turn.row \in Row
  BY <1>2 DEF Baselined
<1>4. turn' \in Turn
  BY <1>1, <1>2 DEF Turn, PCs
<1>5. /\ turn'.pc \in {"promote", "request"} /\ turn'.row = turn.row /\ turn'.observed = turn.observed
      /\ turn'.blocked = turn.blocked /\ turn'.reset = turn.reset
      /\ (turn'.pc = "promote" => ~turn.blocked)
  BY <1>1, <1>2 DEF Turn, TurnSound, Quiet
<1>6. Stored'
  BY <1>1, <1>2, <1>3, BaselineExact DEF Stored, Baselined
<1>8. Current(turn)'
  BY <1>2, <1>5 DEF Baselined, Current
<1>9. Asking(turn)'
  <2>1. turn.row \in Row
    BY <1>2 DEF Baselined
  <2>2. Same(turn)'
    BY <1>1, <1>3, <1>5 DEF Same
  <2>3. epoch' # NoEpoch
    BY <1>1, <1>3 DEF NoEpoch, Row
  <2> QED BY <1>5, <1>8, <2>1, <2>2, <2>3 DEF Asking
<1>10. TurnSound'
  BY <1>5, <1>8, <1>9 DEF TurnSound, Opening, Preparing, Updating, Quiet
<1>11. Log'
  BY <1>1 DEF Log
<1> QED BY <1>1, <1>3, <1>4, <1>6, <1>10, <1>11

\* An update is published and the snapshot advanced, or neither.
LEMMA PublishStep == ASSUME IInv, PublishUpdate PROVE IInv'
<1> USE DEF IInv, TypeOK
<1>1. CASE Dies
  BY <1>1, GiveUpStep DEF Dies
<1>2. CASE /\ epoch # NoEpoch /\ seq < MaxSeq
           /\ seq' = seq + 1
           /\ updates' = updates \cup {[seq |-> seq', says |-> turn.says]}
           /\ epoch' = [epoch EXCEPT !.snapshot = turn.row.snapshot]
           /\ turn' = [turn EXCEPT !.pc = "request", !.says = Silence]
           /\ UNCHANGED compactions
  <2> DEFINE new == [seq |-> seq + 1, says |-> turn.says]
  <2>1. turn \in Turn /\ turn.pc = "update" /\ seq \in Nat /\ MaxSeq \in Nat /\ epoch \in Row
    BY <1>2, MaxSeqAssumption DEF PublishUpdate, At
  <2>2. /\ turn.row \in Row /\ Current(turn)
        /\ epoch.baseline = turn.row.baseline /\ epoch.from = turn.row.from
        /\ \A c \in compactions : c <= epoch.from
        /\ \A s \in Sources :
             turn.row.snapshot[s] = IF turn.says[s] = Unsaid THEN epoch.snapshot[s] ELSE turn.says[s]
    BY <1>2, <2>1 DEF TurnSound, Updating
  <2>3. /\ epoch' \in Row /\ epoch'.baseline = epoch.baseline /\ epoch'.from = epoch.from
        /\ epoch'.snapshot = turn.row.snapshot
    BY <1>2, <2>1, <2>2 DEF Row
  <2>4. new \in Update /\ new.seq = seq + 1 /\ new.says = turn.says
    <3>1. seq + 1 \in Nat \ {0} /\ turn.says \in Text
      BY <2>1 DEF Turn
    <3> QED BY <3>1 DEF Update
  <2> HIDE DEF new
  <2>5. updates' = updates \cup {new}
    BY <1>2 DEF new
  <2>6. turn' \in Turn
    <3>1. Silence \in Text
      BY DEF Silence, Text
    <3> QED BY <1>2, <2>1, <3>1 DEF Turn, PCs
  <2>7. /\ turn'.pc = "request" /\ turn'.row = turn.row /\ turn'.observed = turn.observed
        /\ turn'.blocked = turn.blocked /\ turn'.reset = turn.reset
    BY <1>2, <2>1 DEF Turn
  <2>8. \A u \in updates : u.seq \in Nat /\ u.seq <= seq
    BY DEF Log, Update
  <2>9. \A c \in compactions : c \in Nat /\ c <= seq
    BY DEF Log
  <2>10. seq' \in 0 .. MaxSeq /\ seq' = seq + 1
    BY <1>2, <2>1
  <2>11. Log'
    <3>1. \A u \in updates' : u.seq <= seq'
      BY <2>1, <2>4, <2>5, <2>8, <2>10
    <3>2. \A u, w \in updates' : u.seq = w.seq => u = w
      BY <2>1, <2>4, <2>5, <2>8 DEF Log
    <3>3. \A c \in compactions' : c <= seq'
      BY <1>2, <2>1, <2>9, <2>10
    <3> QED BY <3>1, <3>2, <3>3 DEF Log
  <2>12. epoch.from \in Nat /\ epoch.from <= seq
    BY <1>2, <2>1 DEF Row, Stored
  <2>13. Stored'
    <3>1. epoch'.from <= seq'
      BY <2>1, <2>3, <2>10, <2>12
    <3>2. \A u \in updates', c \in compactions' : c > epoch'.from => u.seq <= c
      BY <1>2, <2>2, <2>3, <2>9, <2>12
    <3>3. ASSUME NEW s \in Sources
          PROVE  Tells(updates', epoch'.baseline, epoch'.from, s, epoch'.snapshot[s])
      <4>1. Tells(updates, epoch.baseline, epoch.from, s, epoch.snapshot[s])
        BY <1>2 DEF Stored
      <4>2. Shown(updates', epoch.from) = Shown(updates, epoch.from) \cup {new}
        BY <2>1, <2>4, <2>5, <2>8, <2>12 DEF Shown
      <4>3. CASE turn.says[s] = Unsaid
        <5>1. {u \in Shown(updates', epoch.from) : u.says[s] # Unsaid}
              = {u \in Shown(updates, epoch.from) : u.says[s] # Unsaid}
          BY <2>4, <4>2, <4>3
        <5>2. epoch'.snapshot[s] = epoch.snapshot[s]
          BY <2>2, <2>3, <4>3
        <5> QED BY <2>3, <4>1, <5>1, <5>2 DEF Tells
      <4>4. CASE turn.says[s] # Unsaid
        <5>1. new \in {u \in Shown(updates', epoch.from) : u.says[s] # Unsaid}
          BY <2>4, <4>2, <4>4
        <5>2. \A w \in Shown(updates', epoch.from) : w.seq <= new.seq
          BY <2>1, <2>4, <2>5, <2>8 DEF Shown
        <5>3. epoch'.snapshot[s] = new.says[s]
          BY <2>2, <2>3, <2>4, <4>4
        <5> QED BY <2>3, <5>1, <5>2, <5>3 DEF Tells
      <4> QED BY <4>3, <4>4
    <3> QED BY <3>1, <3>2, <3>3 DEF Stored
  <2>15. TurnSound'
    <3>1. Current(turn)'
      BY <2>2, <2>7 DEF Current
    <3>2. Same(turn)'
      BY <2>2, <2>3, <2>7 DEF Same
    <3>3. epoch' # NoEpoch
      BY <2>3 DEF NoEpoch, Row
    <3> QED BY <2>2, <2>7, <3>1, <3>2, <3>3 DEF TurnSound, Opening, Preparing, Updating, Asking, Quiet
  <2>16. updates' \subseteq Update /\ compactions' \subseteq Nat \ {0}
    BY <1>2, <2>4, <2>5
  <2> QED BY <2>3, <2>6, <2>10, <2>11, <2>13, <2>15, <2>16
<1> QED BY <1>1, <1>2 DEF PublishUpdate

\* A new baseline takes the place of the old one.
LEMMA ReplaceStep == ASSUME IInv, Replace PROVE IInv'
<1> USE DEF IInv, TypeOK
<1>1. CASE Dies
  BY <1>1, GiveUpStep DEF Dies
<1>2. CASE /\ epoch # NoEpoch
           /\ epoch' = turn.row
           /\ turn' = [turn EXCEPT !.pc = "request"]
           /\ UNCHANGED <<seq, updates, compactions>>
  <2>1. turn \in Turn /\ turn.pc = "replace"
    BY DEF Replace, At
  <2>2. Baselined(turn) /\ (\A u \in updates : u.seq <= turn.row.from) /\ ~turn.blocked
    BY <1>2, <2>1 DEF TurnSound, Preparing, Quiet
  <2>3. turn.row \in Row
    BY <2>2 DEF Baselined
  <2>4. epoch' = turn.row
    BY <1>2
  <2>5. turn' \in Turn
    BY <1>2, <2>1 DEF Turn, PCs
  <2>6. /\ turn'.pc = "request" /\ turn'.row = turn.row /\ turn'.observed = turn.observed
        /\ turn'.reset = turn.reset
    BY <1>2, <2>1 DEF Turn
  <2>7. Stored'
    BY <1>2, <2>2, <2>3, <2>4, BaselineExact DEF Stored, Baselined
  <2>9. Current(turn)' /\ Same(turn)' /\ turn.row \in Row /\ epoch' # NoEpoch
    BY <2>2, <2>3, <2>4, <2>6 DEF Baselined, Current, Same, NoEpoch, Row
  <2>10. TurnSound'
    BY <2>6, <2>9 DEF TurnSound, Opening, Preparing, Updating, Asking, Quiet
  <2>11. Log'
    BY <1>2 DEF Log
  <2> QED BY <1>2, <2>3, <2>4, <2>5, <2>7, <2>10, <2>11
<1> QED BY <1>1, <1>2 DEF Replace

-----------------------------------------------------------------------------
(* The request, compaction, and the rest of the Session.                   *)

\* There is one last word.
LEMMA TellsOne ==
  ASSUME IInv, NEW baseline, NEW from, NEW s, NEW v, NEW w,
         Tells(updates, baseline, from, s, v), Tells(updates, baseline, from, s, w)
  PROVE  v = w
<1> DEFINE spoken == {u \in Shown(updates, from) : u.says[s] # Unsaid}
<1>1. spoken \subseteq updates
  BY DEF Shown
<1>2. \A u \in updates : u.seq \in Nat
  BY DEF IInv, TypeOK, Update
<1>3. CASE spoken = {}
  BY <1>3 DEF Tells
<1>4. CASE spoken # {}
  <2>1. PICK u \in spoken : u.says[s] = v /\ \A x \in spoken : x.seq <= u.seq
    BY <1>4 DEF Tells
  <2>2. PICK x \in spoken : x.says[s] = w /\ \A y \in spoken : y.seq <= x.seq
    BY <1>4 DEF Tells
  <2>3. u.seq <= x.seq /\ x.seq <= u.seq
    BY <2>1, <2>2
  <2>4. u.seq = x.seq
    BY <1>1, <1>2, <2>3
  <2>5. u = x
    BY <1>1, <2>4 DEF IInv, Log
  <2> QED BY <2>1, <2>2, <2>5
<1> QED BY <1>3, <1>4

\* The request shows what the snapshot has as told.
LEMMA RequestStep == ASSUME IInv, Request PROVE IInv'
<1> USE DEF IInv, TypeOK
<1>1. PICK told \in Known :
        /\ \A s \in Sources : Tells(updates, turn.row.baseline, turn.row.from, s, told[s])
        /\ turn' = [turn EXCEPT !.pc = "asked", !.told = told]
  BY DEF Request
<1>2. turn \in Turn /\ turn.pc = "request" /\ turn.row \in Row /\ Reads
  BY DEF Request, At, TurnSound, Asking
<1>3. turn' \in Turn
  BY <1>1, <1>2 DEF Turn, PCs
<1>4. /\ turn'.pc = "asked" /\ turn'.row = turn.row /\ turn'.observed = turn.observed
      /\ turn'.blocked = turn.blocked /\ turn'.reset = turn.reset /\ turn'.told = told
  BY <1>1, <1>2 DEF Turn
<1>5. ~turn.reset => epoch # NoEpoch /\ Same(turn) /\ Current(turn)
  BY <1>2 DEF TurnSound, Asking
<1>6. ~turn.reset => told = epoch.snapshot
  <2> SUFFICES ASSUME ~turn.reset PROVE told = epoch.snapshot
    OBVIOUS
  <2>1. epoch \in Row /\ epoch.baseline = turn.row.baseline /\ epoch.from = turn.row.from
    BY <1>5 DEF Same
  <2>2. \A s \in Sources : Tells(updates, epoch.baseline, epoch.from, s, epoch.snapshot[s])
    BY <1>5 DEF Stored
  <2>3. \A s \in Sources : told[s] = epoch.snapshot[s]
    BY <1>1, <2>1, <2>2, TellsOne
  <2>4. epoch.snapshot \in Known
    BY <2>1 DEF Row
  <2> QED BY <2>3, <2>4 DEF Known
<1>7. TurnSound'
  BY <1>2, <1>4, <1>5, <1>6 DEF Reads, TurnSound, Opening, Preparing, Updating, Asking, Quiet, Same, Current
<1> QED BY <1>2, <1>3, <1>7, ReadsKeep

\* A compaction ends the turn with a message later than any update.
LEMMA CompactStep == ASSUME IInv, Compact PROVE IInv'
<1> USE DEF IInv, TypeOK
<1>1. /\ seq' = seq + 1 /\ compactions' = compactions \cup {seq + 1} /\ turn' = Idle
      /\ UNCHANGED <<epoch, updates>> /\ seq \in Nat /\ seq' \in 0 .. MaxSeq
  BY MaxSeqAssumption DEF Compact
<1>2. turn' \in Turn /\ TurnSound'
  BY <1>1, IdleSound
<1>3. \A u \in updates : u.seq \in Nat /\ u.seq <= seq
  BY DEF Log, Update
<1>4. \A c \in compactions : c \in Nat /\ c <= seq
  BY DEF Log
<1>5. Log'
  BY <1>1, <1>3, <1>4 DEF Log
<1>6. Stored'
  <2>1. epoch # NoEpoch => epoch.from \in Nat /\ epoch.from <= seq + 1
    BY <1>1 DEF Stored, Row
  <2>2. epoch # NoEpoch => \A u \in updates, c \in compactions' : c > epoch.from => u.seq <= c
    BY <1>1, <1>3 DEF Stored
  <2> QED BY <1>1, <2>1, <2>2 DEF Stored
<1>7. compactions' \subseteq Nat \ {0}
  BY <1>1
<1> QED BY <1>1, <1>2, <1>5, <1>6, <1>7

\* Other events count on.
LEMMA OtherStep == ASSUME IInv, Other PROVE IInv'
<1> USE DEF IInv, TypeOK
<1>1. seq' = seq + 1 /\ seq \in Nat /\ seq' \in 0 .. MaxSeq /\ UNCHANGED <<epoch, updates, compactions, turn>>
  BY MaxSeqAssumption DEF Other
<1>2. \A u \in updates : u.seq \in Nat
  BY DEF Update
<1>3. \A c \in compactions : c \in Nat
  OBVIOUS
<1>4. Log'
  BY <1>1, <1>2, <1>3 DEF Log
<1>5. Stored'
  BY <1>1 DEF Stored, Row
<1>6. \A row \in Row : row.from <= seq => row.from <= seq'
  BY <1>1 DEF Row
<1>7. Baselined(turn) => Baselined(turn)'
  BY <1>1, <1>6 DEF Baselined
<1>8. turn.pc = "reconcile" => turn.compaction <= seq'
  BY <1>1 DEF TurnSound, Preparing, Turn
<1>9. TurnSound'
  BY <1>1, <1>7, <1>8 DEF TurnSound, Opening, Preparing, Updating, Asking, Quiet, Same, Current
<1> QED BY <1>1, <1>4, <1>5, <1>9

\* A reset takes the epoch away, and leaves the turn with what it read.
LEMMA ResetStep ==
  ASSUME IInv, Resets, seq < MaxSeq, seq' = seq + 1,
         updates' \subseteq updates, compactions' \subseteq compactions
  PROVE  IInv'
<1> USE DEF IInv, TypeOK
<1>1. seq \in Nat /\ seq' \in 0 .. MaxSeq
  BY MaxSeqAssumption
<1>2. /\ turn \in Turn /\ turn' \in Turn /\ turn'.reset = (turn.pc # "idle") /\ turn'.pc = turn.pc
      /\ turn'.row = turn.row /\ turn'.observed = turn.observed /\ turn'.blocked = turn.blocked
      /\ turn'.compaction = turn.compaction /\ turn'.told = turn.told
  BY DEF Resets, Turn
<1>3. epoch' = NoEpoch
  BY DEF Resets
<1>4. \A u \in updates : u.seq \in Nat
  BY DEF Update
<1>5. Log'
  BY <1>1, <1>4 DEF Log
<1>6. \A row \in Row : row.from <= seq => row.from <= seq'
  BY <1>1 DEF Row
<1>7. Baselined(turn) => Baselined(turn)'
  BY <1>2, <1>6 DEF Baselined
<1>8. turn.pc = "reconcile" => turn.compaction <= seq'
  BY <1>1, <1>2 DEF TurnSound, Preparing, Turn
<1>9. Current(turn) => Current(turn)'
  BY <1>2 DEF Current
<1>10. TurnSound'
  <2>1. Opening(turn)'
    BY <1>2, <1>3, <1>7 DEF TurnSound, Opening
  <2>2. Preparing(turn)'
    BY <1>2, <1>3, <1>7, <1>8 DEF TurnSound, Preparing
  <2>3. Updating(turn)' /\ Quiet(turn)'
    BY <1>2, <1>3, <1>9 DEF TurnSound, Updating, Quiet
  <2>4. Asking(turn)'
    BY <1>2, <1>3 DEF TurnSound, Asking
  <2> QED BY <2>1, <2>2, <2>3, <2>4 DEF TurnSound
<1> QED BY <1>1, <1>2, <1>3, <1>5, <1>10 DEF Stored

-----------------------------------------------------------------------------
(* The invariant.                                                          *)

\* A Session begins without an epoch.
LEMMA InitIInv == ASSUME Init PROVE IInv
<1>1. Nothing \in Observation /\ Nothing \in Known /\ Silence \in Text
  BY DEF Nothing, Silence, Observation, Known, Text
<1>2. turn \in Turn
  BY <1>1 DEF Init, Idle, Turn, PCs
<1>3. TypeOK
  BY <1>2, MaxSeqAssumption DEF Init, TypeOK
<1>4. TurnSound
  BY DEF Init, Idle, TurnSound, Opening, Preparing, Updating, Asking, Quiet
<1> QED BY <1>3, <1>4 DEF Init, IInv, Log, Stored

\* Every step keeps the invariant.
LEMMA NextIInv == ASSUME IInv, [Next]_vars PROVE IInv'
<1>1. CASE BeginTurn \/ Exists \/ Open \/ Insert \/ Promote \/ Find \/ Latest \/ Reconcile
  BY <1>1, BeginStep, ExistsStep, OpenStep, InsertStep, PromoteStep, FindStep, LatestStep, ReconcileStep
<1>2. CASE PublishUpdate \/ Replace \/ Request \/ Compact \/ Other
  BY <1>2, PublishStep, ReplaceStep, RequestStep, CompactStep, OtherStep
<1>3. CASE GiveUp
  BY <1>3, GiveUpStep DEF GiveUp
<1>4. CASE Move
  BY <1>4, ResetStep DEF Move
<1>5. ASSUME NEW boundary \in 0 .. seq, Revert(boundary) PROVE IInv'
  BY <1>5, ResetStep DEF Revert, IInv, TypeOK
<1>6. CASE UNCHANGED vars
  BY <1>6 DEF vars, IInv, TypeOK, Log, Stored, TurnSound, Opening, Preparing, Updating, Asking, Quiet,
              Baselined, Same, Current
<1> QED BY <1>1, <1>2, <1>3, <1>4, <1>5, <1>6 DEF Next

\* The invariant holds in every reachable state.
LEMMA Invariant == Spec => []IInv
BY InitIInv, NextIInv, PTL DEF Spec

\* The epoch, the history and the turn stay in the states the model declares.
THEOREM TypeCorrect == Spec => []TypeOK
<1>1. IInv => TypeOK
  BY DEF IInv
<1> QED BY <1>1, Invariant, PTL

\* The snapshot of an epoch is what its baseline and history tell the model.
THEOREM SnapshotsExact == Spec => []EpochExact
<1>1. IInv => EpochExact
  BY DEF IInv, Stored, EpochExact
<1> QED BY <1>1, Invariant, PTL

\* A request tells what its turn observed, unless it had to wait.
THEOREM RequestsCurrent == Spec => []RequestCurrent
<1>1. ASSUME IInv PROVE RequestCurrent
  BY <1>1 DEF IInv, TurnSound, Asking, Same, Current, RequestCurrent, At
<1> QED BY <1>1, Invariant, PTL

\* Context that was told leaves an epoch only when its source is gone.
THEOREM AdmittedStays == Spec => AdmittedKept
<1> DEFINE Kept == \A s \in Sources :
                     /\ epoch # NoEpoch /\ epoch' # NoEpoch
                     /\ epoch.snapshot[s] # None /\ epoch'.snapshot[s] = None
                     => turn.observed[s] = None
<1>1. ASSUME IInv, [Next]_vars PROVE Kept \/ UNCHANGED vars
  <2>1. CASE PublishUpdate
    <3>1. CASE epoch = NoEpoch
      BY <3>1
    <3>2. CASE epoch # NoEpoch
      <4>1. epoch' = [epoch EXCEPT !.snapshot = turn.row.snapshot] /\ turn.pc = "update" /\ epoch \in Row
        BY <1>1, <2>1, <3>2 DEF PublishUpdate, At, IInv, TypeOK
      <4>2. epoch'.snapshot = turn.row.snapshot
        BY <4>1 DEF Row
      <4> QED BY <1>1, <3>2, <4>1, <4>2 DEF IInv, TurnSound, Updating
    <3> QED BY <3>1, <3>2
  <2>2. CASE Replace
    <3>1. CASE epoch = NoEpoch
      BY <3>1
    <3>2. CASE epoch # NoEpoch
      <4>1. epoch' = turn.row /\ turn.pc = "replace"
        BY <2>2, <3>2 DEF Replace, At
      <4>2. Baselined(turn) /\ \A s \in Sources : epoch.snapshot[s] # None => turn.observed[s] # Unavailable
        BY <1>1, <3>2, <4>1 DEF IInv, TurnSound, Preparing
      <4>3. epoch'.snapshot = turn.row.snapshot
        BY <4>1, <4>2 DEF Baselined, Row
      <4> QED BY <4>2, <4>3 DEF Baselined
    <3> QED BY <3>1, <3>2
  <2>3. CASE Insert
    BY <1>1, <2>3 DEF Insert, IInv, TurnSound, Opening
  <2>4. CASE Move
    BY <2>4 DEF Move, Resets
  <2>5. ASSUME NEW boundary \in 0 .. seq, Revert(boundary) PROVE Kept
    BY <2>5 DEF Revert, Resets
  <2>6. CASE UNCHANGED epoch
    BY <2>6
  <2>7. BeginTurn \/ Exists \/ Open \/ Promote \/ Find \/ Latest \/ Reconcile \/ Request \/ Compact \/ GiveUp \/ Other
          => UNCHANGED epoch
    BY DEF BeginTurn, Exists, Open, Promote, Find, Latest, Reconcile, Request, Compact, GiveUp, Other, Reads
  <2> QED BY <1>1, <2>1, <2>2, <2>3, <2>4, <2>5, <2>6, <2>7 DEF Next
<1> QED BY <1>1, Invariant, PTL DEF Spec, AdmittedKept

=============================================================================
