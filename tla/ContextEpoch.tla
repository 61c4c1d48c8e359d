---------------------------- MODULE ContextEpoch ----------------------------
(***************************************************************************)
(* The system context of one Session: the stored epoch, the Context        *)
(* Updated messages of its history, and the fiber that runs its turns      *)
(* (RunCoordinator keeps it alone), while the Session is moved, reverted   *)
(* and compacted.  packages/core/src/session/context-epoch.ts, history.ts, *)
(* runner/llm.ts and packages/core/src/system-context/index.ts.            *)
(* What a source contributes is a value.  Rendered text is the map from    *)
(* each source to the value the text shows: the baseline maps every        *)
(* source, an update those that changed.                                   *)
(***************************************************************************)
EXTENDS Integers

CONSTANTS Sources,     \* keys of context sources
          Removable,   \* those that can render their removal
          Values,      \* what a source may contribute
          None,        \* no contribution: the source is not composed
          Unavailable, \* the source cannot be observed for now
          Unsaid,      \* an update that does not speak of a source
          MaxSeq       \* bound: events of the Session

ASSUME RemovableAssumption == Removable \subseteq Sources
ASSUME MarksAssumption ==
  /\ None \notin Values /\ Unavailable \notin Values \cup {None}
  /\ Unsaid \notin Values \cup {None, Unavailable}
ASSUME MaxSeqAssumption == MaxSeq \in Nat

VARIABLES seq,         \* latest sequence of the Session's log
          epoch,       \* the row of session_context_epoch
          updates,     \* the system messages of the history
          compactions, \* sequences of its compaction messages
          turn         \* the locals of the turn attempt in progress

vars == <<seq, epoch, updates, compactions, turn>>

-----------------------------------------------------------------------------
(* State.                                                                  *)

Known == [Sources -> Values \cup {None}]
Observation == [Sources -> Values \cup {None, Unavailable}]
Text == [Sources -> Values \cup {None, Unsaid}]

\* `from` is baseline_seq.
Row == [baseline : Known, snapshot : Known, from : Nat]
NoEpoch == [baseline |-> None]
Update == [seq : Nat \ {0}, says : Text]

Nothing == [s \in Sources |-> None]
Silence == [s \in Sources |-> Unsaid]

\* "check": the Location is the runner's, `exists` is read next; "open" and
\* "insert": initialize; "promote"; "find", "latest", "reconcile": prepare;
\* "reopen", "reinsert": prepare without a row; "update", "replace": about to
\* write; "request": the history is read next; "asked": the request is made.
PCs == {"idle", "check", "open", "insert", "promote", "find", "latest", "reconcile", "reopen", "reinsert",
        "update", "replace", "request", "asked"}

\* `row` is the epoch the turn read, or is about to write; `observed` and
\* `blocked` are what became of its observation, `told` is what its request
\* shows.  History: `reset` tells that a move or a revert came meanwhile.
Turn == [pc : PCs, row : Row \cup {NoEpoch}, compaction : Nat, observed : Observation,
         says : Text, blocked : BOOLEAN, told : Known, reset : BOOLEAN]

Idle == [pc |-> "idle", row |-> NoEpoch, compaction |-> 0, observed |-> Nothing,
         says |-> Silence, blocked |-> FALSE, told |-> Nothing, reset |-> FALSE]

TypeOK == /\ seq \in 0 .. MaxSeq
          /\ epoch \in Row \cup {NoEpoch}
          /\ updates \subseteq Update
          /\ compactions \subseteq Nat \ {0}
          /\ turn \in Turn

Init == /\ seq = 0
        /\ epoch = NoEpoch /\ updates = {} /\ compactions = {}
        /\ turn = Idle

-----------------------------------------------------------------------------
(* What the model is told.                                                 *)

\* Mutant: a compaction hides the updates before it, whatever the baseline.
ShownAfterCompaction(log, from) == {u \in log : u.seq > from /\ \A c \in compactions : u.seq > c}

\* The updates of the history a request shows, by the rows of messageRows.
Shown(log, from) == {u \in log : u.seq > from}

\* Baseline and history together show v for s: the last word is v.
Tells(log, baseline, from, s, v) ==
  LET spoken == {u \in Shown(log, from) : u.says[s] # Unsaid} IN
  \/ spoken = {} /\ v = baseline[s]
  \/ \E u \in spoken : u.says[s] = v /\ \A w \in spoken : w.seq <= u.seq

-----------------------------------------------------------------------------
(* The interpreters of a SystemContext.                                    *)

\* initializeObservation: what can be observed, and nothing else.
Generation(observed) == [s \in Sources |-> IF observed[s] = Unavailable THEN None ELSE observed[s]]

Fresh(observed, from) ==
  [baseline |-> Generation(observed), snapshot |-> Generation(observed), from |-> from]

\* Mutant: a new baseline waits only when all admitted context is missing.
BlockedByAll(observed, snapshot) == \A s \in Sources : observed[s] = Unavailable /\ snapshot[s] # None

\* replaceObservation: admitted context must not be lost.
Blocked(observed, snapshot) == \E s \in Sources : observed[s] = Unavailable /\ snapshot[s] # None

\* A change no update can tell: the stored value cannot be decoded, or the
\* source went and cannot render that.
Incompatible(observed, snapshot, broken) ==
  \E s \in Sources : /\ snapshot[s] # None
                     /\ \/ observed[s] \in Values /\ s \in broken
                        \/ observed[s] = None /\ s \notin Removable

\* reconcileObservation: what to say, and the snapshot that says it.
Changes(observed, snapshot) ==
  [s \in Sources |-> IF observed[s] \in {Unavailable, snapshot[s]} THEN Unsaid ELSE observed[s]]
Advanced(observed, snapshot) ==
  [s \in Sources |-> IF observed[s] = Unavailable THEN snapshot[s] ELSE observed[s]]

-----------------------------------------------------------------------------
(* A turn attempt up to its request.                                       *)

At(pc) == turn.pc = pc
Reads == UNCHANGED <<seq, epoch, updates, compactions>>

\* getSession: a turn goes on only at the Location of its runner.  A runner the
\* Session has moved away from interrupts itself here; what a turn observes is
\* any contribution of the Location it runs at.
BeginTurn == At("idle") /\ turn' = [Idle EXCEPT !.pc = "check"] /\ Reads

Exists == /\ At("check") /\ Reads
          /\ turn' = [turn EXCEPT !.pc = IF epoch = NoEpoch THEN "open" ELSE "promote"]

\* SystemContext.initialize, then latestSequence: every source is observed.
\* (An unavailable one fails the turn, see GiveUp.)
Open == /\ turn.pc \in {"open", "reopen"} /\ Reads
        /\ \E observed \in Known :
             turn' = [turn EXCEPT !.pc = IF @ = "open" THEN "insert" ELSE "reinsert",
                                  !.row = Fresh(observed, seq), !.observed = observed]

Insert == /\ turn.pc \in {"insert", "reinsert"}
          /\ epoch' = turn.row
          /\ turn' = [turn EXCEPT !.pc = IF @ = "insert" THEN "promote" ELSE "request"]
          /\ UNCHANGED <<seq, updates, compactions>>

\* Inputs are promoted (Other counts the events); `initialized ?? prepare`.
Promote == /\ At("promote") /\ Reads
           /\ turn' = [turn EXCEPT !.pc = IF turn.row = NoEpoch THEN "find" ELSE "request"]

Find == /\ At("find") /\ Reads
        /\ turn' = [turn EXCEPT !.pc = IF epoch = NoEpoch THEN "reopen" ELSE "latest", !.row = epoch]

Latest == /\ At("latest") /\ Reads
          /\ \E seen \in compactions \cup {0} :
               /\ \A c \in compactions : c <= seen
               /\ turn' = [turn EXCEPT !.pc = "reconcile", !.compaction = seen]

\* A compaction later than the baseline asks for a new one.
Due == turn.compaction > turn.row.from

Reconcile ==
  /\ At("reconcile") /\ Reads
  /\ \E observed \in Observation, broken \in SUBSET Sources :
       LET snapshot == turn.row.snapshot
           says == Changes(observed, snapshot)
           replaces == Due \/ Incompatible(observed, snapshot, broken)
           from == IF Due THEN turn.compaction ELSE seq
           after == [turn EXCEPT !.observed = observed, !.compaction = 0]
       IN \/ /\ replaces /\ Blocked(observed, snapshot)
             /\ turn' = [after EXCEPT !.pc = "request", !.blocked = TRUE]
          \/ /\ replaces /\ ~Blocked(observed, snapshot)
             /\ turn' = [after EXCEPT !.pc = "replace", !.row = Fresh(observed, from)]
          \/ /\ ~replaces /\ says = Silence
             /\ turn' = [after EXCEPT !.pc = "request"]
          \/ /\ ~replaces /\ says # Silence
             /\ turn' = [after EXCEPT !.pc = "update", !.says = says,
                                      !.row = [@ EXCEPT !.snapshot = Advanced(observed, snapshot)]]

\* The drain dies when the row is gone: nothing is committed.
Dies == turn' = Idle /\ Reads

\* publish of Context Updated; `advance` is part of its transaction.
PublishUpdate ==
  /\ At("update")
  /\ \/ epoch = NoEpoch /\ Dies
     \/ /\ epoch # NoEpoch /\ seq < MaxSeq
        /\ seq' = seq + 1
        /\ updates' = updates \cup {[seq |-> seq', says |-> turn.says]}
        /\ epoch' = [epoch EXCEPT !.snapshot = turn.row.snapshot]
        /\ turn' = [turn EXCEPT !.pc = "request", !.says = Silence]
        /\ UNCHANGED compactions

Replace ==
  /\ At("replace")
  /\ \/ epoch = NoEpoch /\ Dies
     \/ /\ epoch # NoEpoch
        /\ epoch' = turn.row
        /\ turn' = [turn EXCEPT !.pc = "request"]
        /\ UNCHANGED <<seq, updates, compactions>>

\* entriesForRunner: the request shows the baseline and the history after it.
Request ==
  /\ At("request") /\ Reads
  /\ \E told \in Known :
       /\ \A s \in Sources : Tells(updates, turn.row.baseline, turn.row.from, s, told[s])
       /\ turn' = [turn EXCEPT !.pc = "asked", !.told = told]

\* compactIfNeeded or compactAfterOverflow completes; the turn begins again.
Compact == /\ At("asked") /\ seq < MaxSeq
           /\ seq' = seq + 1 /\ compactions' = compactions \cup {seq'}
           /\ turn' = Idle
           /\ UNCHANGED <<epoch, updates>>

\* The turn is over: it ends, fails or is interrupted, its process is lost,
\* initial context is unavailable, or the snapshot cannot be decoded.
GiveUp == turn.pc # "idle" /\ turn' = Idle /\ Reads

-----------------------------------------------------------------------------
(* The rest of the Session.                                                *)

\* Any other durable event: admissions, promotions, steps.
Other == /\ seq < MaxSeq /\ seq' = seq + 1
         /\ UNCHANGED <<epoch, updates, compactions, turn>>

Resets == epoch' = NoEpoch /\ turn' = [turn EXCEPT !.reset = (turn.pc # "idle")]

\* The Session goes to another Location.
Move == /\ seq < MaxSeq /\ seq' = seq + 1
        /\ Resets
        /\ UNCHANGED <<updates, compactions>>

\* Mutant: a revert deletes messages and leaves the epoch alone.
RevertKeeping(boundary) ==
  /\ seq < MaxSeq /\ seq' = seq + 1
  /\ updates' = {u \in updates : u.seq <= boundary}
  /\ compactions' = {c \in compactions : c <= boundary}
  /\ UNCHANGED <<epoch, turn>>

\* revert.commit: the messages after the boundary go.
Revert(boundary) ==
  /\ seq < MaxSeq /\ seq' = seq + 1
  /\ updates' = {u \in updates : u.seq <= boundary}
  /\ compactions' = {c \in compactions : c <= boundary}
  /\ Resets

-----------------------------------------------------------------------------

Next == \/ BeginTurn \/ Exists \/ Open \/ Insert \/ Promote \/ Find \/ Latest \/ Reconcile
        \/ PublishUpdate \/ Replace \/ Request \/ Compact \/ GiveUp
        \/ Other \/ Move
        \/ \E boundary \in 0 .. seq : Revert(boundary)

Spec == Init /\ [][Next]_vars

-----------------------------------------------------------------------------
(* Safety.                                                                 *)

\* What the snapshot says the model knows of each source is what the stored
\* baseline and the history tell it, whatever compaction, revert, movement
\* or failure came between: the next comparison starts from the truth.
EpochExact ==
  epoch # NoEpoch =>
    \A s \in Sources : Tells(updates, epoch.baseline, epoch.from, s, epoch.snapshot[s])

\* A request tells the model what the next comparison takes as told, and the
\* value of every source its turn observed, unless a new baseline has to wait
\* for admitted context.  (A move or a revert during the turn takes the epoch
\* away from under it.)
RequestCurrent ==
  At("asked") /\ ~turn.reset =>
    /\ epoch # NoEpoch /\ turn.told = epoch.snapshot
    /\ turn.blocked \/ \A s \in Sources : turn.observed[s] # Unavailable => turn.told[s] = turn.observed[s]

\* Context the model has been told of is not dropped from an epoch because it
\* cannot be observed: only a source that is gone leaves.
AdmittedKept ==
  [][\A s \in Sources :
       /\ epoch # NoEpoch /\ epoch' # NoEpoch
       /\ epoch.snapshot[s] # None /\ epoch'.snapshot[s] = None
       => turn.observed[s] = None]_vars

=============================================================================
