----------------------------- MODULE SessionDrain -----------------------------
(***************************************************************************)
(* Clients that prompt, resume, interrupt and revert Sessions, and the     *)
(* drain each Session runs: packages/core/src/session.ts (prompt),         *)
(* session/execution/local.ts and the loop of session/runner/llm.ts, over  *)
(* the inbox (SessionInput) and the promise of the run coordinator         *)
(* (SerialDrain, which RunCoordinator implements).                         *)
(*                                                                         *)
(* A step is what runs between two awaits that other fibers can tell       *)
(* apart: a read, a transaction, a provider stream.  What happens inside a *)
(* provider turn is one step with its outcomes.                            *)
(***************************************************************************)
EXTENDS SessionInput

CONSTANTS Clients,
          Steps,       \* Session -> its agent's provider-turn allowance, `steps`, if it has one
          MaxReverts   \* bound: committed reverts

ASSUME StepsAssumption == Steps \in [Sessions -> (Nat \ {0}) \cup {None}]
ASSUME RevertsAssumption == MaxReverts \in Nat

VARIABLES client,   \* client -> where its prompt call stands
          runner,   \* Session -> the locals of its drain
          busy, owed,   \* the coordinator, see SerialDrain
          asked,    \* history: inputs whose accepted wake nothing has cancelled
          receipts, \* history: inputs as prompt calls confirmed them
          past,     \* history: Session -> what its drain has done
          reverts   \* history: number of reverts, for the bound

Coordinator == INSTANCE SerialDrain WITH Keys <- Sessions

vars == <<seq, input, client, runner, busy, owed, asked, receipts, past, reverts>>

-----------------------------------------------------------------------------
(* State.                                                                  *)

Calls == [id : Ids, session : Sessions, delivery : Deliveries, prompt : Prompts, resume : BOOLEAN]
ClientState == [pc : {"publish", "refind", "wake"}, call : Calls] \cup [pc : {"idle"}, call : {None}]
NotCalling == [pc |-> "idle", call |-> None]

\* "steer?" and "queue?": about to read hasSteer and hasQueue; "turn": about
\* to start a turn; "queued" and "steers": about to select what to promote;
\* "promoting": publishing `batch`; "request": history read next; "stream":
\* the provider runs; "steer again?" and "queue again?": the loop conditions;
\* "stopping": interrupted.
PCs == {"steer?", "queue?", "turn", "queued", "steers", "promoting", "request", "stream",
        "steer again?", "queue again?", "stopping"}
Promotions == Deliveries \cup {None}

Selected == [id : Ids, row : Row]

\* promotion, step and recoverOverflow are the arguments of the turn; `next`
\* is where promoting the batch leads; `fresh` is promoted > 0; `compacted`
\* tells that this turn has compacted the history it would compact again.
Drain == [pc : PCs, force : BOOLEAN, promotion : Promotions, step : Nat \ {0}, cutoff : Nat,
          batch : SUBSET Selected, next : {"steers", "request", None}, fresh : BOOLEAN,
          recover : BOOLEAN, compacted : BOOLEAN]

\* A drain that holds nothing of a turn yet.
Before(pc, force, promotion, step, recover) ==
  [pc |-> pc, force |-> force, promotion |-> promotion, step |-> step, cutoff |-> 0,
   batch |-> {}, next |-> None, fresh |-> FALSE, recover |-> recover, compacted |-> FALSE]

NoDrain == Before("idle", FALSE, None, 1, FALSE)

\* turns: provider turns since the drain began or promoted; rested: the model
\* asked for no continuation, and no queued input was promoted since; served:
\* this drain promoted an input; reverted: a revert committed during it;
\* failed: no drain runs and the last one gave up.
Past == [turns : Nat, rested : BOOLEAN, served : BOOLEAN, reverted : BOOLEAN, failed : BOOLEAN]
NewPast == [turns |-> 0, rested |-> TRUE, served |-> FALSE, reverted |-> FALSE, failed |-> FALSE]

Receipt == [id : Ids, session : Sessions, delivery : Deliveries, prompt : Prompts]

TypeOK == /\ InboxTypeOK /\ Coordinator!TypeOK
          /\ client \in [Clients -> ClientState]
          /\ runner \in [Sessions -> Drain \cup {NoDrain}]
          /\ asked \subseteq Ids
          /\ receipts \subseteq Receipt
          /\ past \in [Sessions -> Past]
          /\ reverts \in 0..MaxReverts

Init == /\ InboxInit /\ Coordinator!Init
        /\ client = [c \in Clients |-> NotCalling]
        /\ runner = [s \in Sessions |-> NoDrain]
        /\ asked = {}
        /\ receipts = {}
        /\ past = [s \in Sessions |-> NewPast]
        /\ reverts = 0

Of(s) == {id \in Ids : Stored(id) /\ input[id].session = s}
At(s, pc) == runner[s].pc = pc

-----------------------------------------------------------------------------
(* session.prompt, uninterruptible but for a crash of the process.         *)

\* A drain is forked for s: drain(s, force) calls runner.run.
Begun(force) == Before("steer?", force, None, 1, FALSE)
Begin(s, force) == /\ Coordinator!Start(s)
                   /\ runner' = [runner EXCEPT ![s] = Begun(force)]
                   /\ past' = [past EXCEPT ![s] = NewPast]

Idle(s) == ~busy[s] /\ ~owed[s]

\* Mutant: a wake that finds the Session active is taken as served.
WakeIfIdle(s, id) ==
  /\ \/ Idle(s) /\ Begin(s, FALSE) /\ UNCHANGED owed
     \/ ~Idle(s) /\ UNCHANGED <<busy, owed, runner, past>>
  /\ asked' = IF id \in Of(s) /\ ~Visible(id) THEN asked \cup {id} ELSE asked

\* execution.wake, for the input that was admitted.
Wake(s, id) ==
  /\ \/ Idle(s) /\ Begin(s, FALSE) /\ UNCHANGED owed
     \/ ~Idle(s) /\ Coordinator!Request(s) /\ UNCHANGED <<runner, past>>
  /\ asked' = IF id \in Of(s) /\ ~Visible(id) THEN asked \cup {id} ELSE asked

\* The end of a call: the stored input is the receipt if it is the same one,
\* and the Session is woken unless resume is false.
Confirm(call) ==
  IF Equivalent(call.id, call.session, call.delivery, call.prompt)
  THEN /\ receipts' = receipts \cup {[id |-> call.id, session |-> call.session,
                                      delivery |-> call.delivery, prompt |-> call.prompt]}
       /\ \/ call.resume /\ Wake(call.session, call.id)
          \/ ~call.resume /\ UNCHANGED <<busy, owed, runner, past, asked>>
  ELSE UNCHANGED <<busy, owed, runner, past, asked, receipts>>

\* `find` in admit.  Nothing read between an early return and the wake can
\* change what they do, so both are this step.
PromptFinds(c, call) ==
  /\ client[c] = NotCalling /\ Stored(call.id)
  /\ Confirm(call)
  /\ UNCHANGED <<seq, input, client, reverts>>

PromptMisses(c, call) ==
  /\ client[c] = NotCalling /\ ~Stored(call.id)
  /\ client' = [client EXCEPT ![c] = [pc |-> "publish", call |-> call]]
  /\ UNCHANGED <<seq, input, runner, busy, owed, asked, receipts, past, reverts>>

\* The transaction of PromptAdmitted: it commits, or it dies of a conflict.
PromptPublishes(c) ==
  LET call == client[c].call IN
  /\ client[c].pc = "publish"
  /\ \/ /\ Admit(call.id, call.session, call.delivery, call.prompt)
        /\ client' = [client EXCEPT ![c].pc = "wake"]
     \/ /\ Stored(call.id)
        /\ client' = [client EXCEPT ![c].pc = "refind"]
        /\ UNCHANGED <<seq, input>>
  /\ UNCHANGED <<runner, busy, owed, asked, receipts, past, reverts>>

\* catchDefect: another call admitted the identifier first.
PromptRefinds(c) ==
  /\ client[c].pc = "refind"
  /\ Confirm(client[c].call)
  /\ client' = [client EXCEPT ![c] = NotCalling]
  /\ UNCHANGED <<seq, input, reverts>>

\* After its own commit the receipt is the call; the row may be gone by now.
PromptWakes(c) ==
  LET call == client[c].call IN
  /\ client[c].pc = "wake"
  /\ receipts' = IF Equivalent(call.id, call.session, call.delivery, call.prompt)
                 THEN receipts \cup {[id |-> call.id, session |-> call.session,
                                      delivery |-> call.delivery, prompt |-> call.prompt]}
                 ELSE receipts
  /\ \/ call.resume /\ Wake(call.session, call.id)
     \/ ~call.resume /\ UNCHANGED <<busy, owed, runner, past, asked>>
  /\ client' = [client EXCEPT ![c] = NotCalling]
  /\ UNCHANGED <<seq, input, reverts>>

-----------------------------------------------------------------------------
(* resume, interrupt, revert.commit, the loss of the process.              *)

\* An explicit run of an idle Session; one that is not idle is joined.
Resume(s) == /\ Idle(s)
             /\ Begin(s, TRUE) /\ UNCHANGED owed
             /\ UNCHANGED <<seq, input, client, asked, receipts, reverts>>

\* The coordinator pays what it owes.
StartOwed(s) == /\ owed[s]
                /\ Begin(s, FALSE)
                /\ UNCHANGED <<seq, input, client, asked, receipts, reverts>>

Interrupt(s) == /\ ~Idle(s)
                /\ Coordinator!Cancel(s)
                /\ runner' = [runner EXCEPT ![s] = IF busy[s] THEN Before("stopping", FALSE, None, 1, FALSE) ELSE @]
                /\ past' = [past EXCEPT ![s] = NewPast]
                /\ asked' = asked \ Of(s)
                /\ UNCHANGED <<seq, input, client, receipts, reverts>>

Revert(s, n) == /\ reverts < MaxReverts
                /\ DeleteAfter(s, n)
                /\ asked' = asked \ RevertedBy(s, n)
                /\ receipts' = {r \in receipts : r.id \notin RevertedBy(s, n)}
                /\ past' = [past EXCEPT ![s].reverted = busy[s]]
                /\ reverts' = reverts + 1
                /\ UNCHANGED <<client, runner, busy, owed>>

\* Only the rows survive.
Crash == /\ client' = [c \in Clients |-> NotCalling]
         /\ runner' = [s \in Sessions |-> NoDrain]
         /\ busy' = [s \in Sessions |-> FALSE]
         /\ owed' = [s \in Sessions |-> FALSE]
         /\ past' = [s \in Sessions |-> NewPast]
         /\ asked' = {}
         /\ UNCHANGED <<seq, input, receipts, reverts>>

-----------------------------------------------------------------------------
(* runner.run and its turns.  A step of the drain that only reads.         *)

Reads(s) == /\ busy[s]
            /\ UNCHANGED <<seq, input, client, busy, owed, asked, receipts, reverts>>
Goes(s, drain) == runner' = [runner EXCEPT ![s] = drain]
Ends(s, failed) == /\ Coordinator!Finish(s) /\ Goes(s, NoDrain)
                   /\ past' = [past EXCEPT ![s] = [NewPast EXCEPT !.failed = failed]]

\* runTurn(sessionID, promotion, step)
Turn(s, promotion, step) == Before("turn", runner[s].force, promotion, step, TRUE)

HasSteer(s) == /\ At(s, "steer?") /\ Reads(s) /\ UNCHANGED past
               /\ Goes(s, IF Pending(s, "steer") # {} THEN Turn(s, "steer", 1)
                                                      ELSE [runner[s] EXCEPT !.pc = "queue?"])

\* Mutant: a drain that finds nothing to promote runs a turn all the same.
HasQueueOrNot(s) ==
  /\ At(s, "queue?") /\ UNCHANGED <<seq, input, client, asked, receipts, reverts, busy, owed, past>>
  /\ Goes(s, IF Pending(s, "queue") # {} THEN Turn(s, "queue", 1) ELSE Turn(s, None, 1))

HasQueue(s) ==
  /\ At(s, "queue?") /\ UNCHANGED <<seq, input, client, asked, receipts, reverts>>
  /\ \/ Pending(s, "queue") # {} /\ Goes(s, Turn(s, "queue", 1)) /\ UNCHANGED <<busy, owed, past>>
     \/ Pending(s, "queue") = {} /\ runner[s].force /\ Goes(s, Turn(s, None, 1)) /\ UNCHANGED <<busy, owed, past>>
     \/ Pending(s, "queue") = {} /\ ~runner[s].force /\ Ends(s, FALSE)

\* runTurnAttempt up to the promotion: the cutoff is the latest sequence.
BeginTurn(s) ==
  /\ At(s, "turn") /\ Reads(s) /\ UNCHANGED past
  /\ Goes(s, LET promotion == runner[s].promotion IN
             [runner[s] EXCEPT !.cutoff = IF promotion = None THEN @ ELSE seq[s],
                               !.pc = CASE promotion = "queue" -> "queued"
                                        [] promotion = "steer" -> "steers"
                                        [] promotion = None -> "request"])

SelectQueued(s) ==
  /\ At(s, "queued") /\ Reads(s) /\ UNCHANGED past
  /\ Goes(s, IF NextQueued(s) = {} THEN [runner[s] EXCEPT !.pc = "steers"]
             ELSE [runner[s] EXCEPT !.pc = "promoting", !.batch = NextQueued(s), !.next = "steers", !.fresh = TRUE])

\* Mutant: promoting new input does not reset the step.
KeepStep(drain) == [drain EXCEPT !.pc = "request", !.fresh = FALSE]

\* `if (promoted > 0) currentStep = 1`
ResetStep(drain) ==
  [drain EXCEPT !.pc = "request", !.promotion = None, !.step = IF drain.fresh THEN 1 ELSE @, !.fresh = FALSE]

SelectSteers(s) ==
  LET steers == SteersUpTo(s, runner[s].cutoff) IN
  /\ At(s, "steers") /\ Reads(s) /\ UNCHANGED past
  /\ Goes(s, IF steers = {} THEN ResetStep(runner[s])
             ELSE [runner[s] EXCEPT !.pc = "promoting", !.batch = steers, !.next = "request", !.fresh = TRUE])

\* `publish` is done with one row of the batch.
Published(s, e) ==
  LET drain == [runner[s] EXCEPT !.batch = @ \ {e}] IN
  CASE drain.batch # {} -> drain
    [] drain.batch = {} /\ drain.next = "steers" -> [drain EXCEPT !.pc = "steers", !.next = None]
    [] drain.batch = {} /\ drain.next # "steers" -> ResetStep([drain EXCEPT !.next = None])

PublishNext(s) ==
  LET e == FirstOf(runner[s].batch) IN
  /\ At(s, "promoting") /\ Goes(s, Published(s, e))
  /\ \/ /\ Promote(e)
        /\ asked' = asked \ {e.id}
        /\ past' = [past EXCEPT ![s].turns = 0, ![s].served = TRUE,
                                ![s].rested = @ /\ e.row.delivery # "queue"]
     \/ /\ AlreadyPromoted(e)
        /\ UNCHANGED <<seq, input, asked, past>>
  /\ UNCHANGED <<client, busy, owed, receipts, reverts>>

\* compactIfNeeded compacted: the request is rebuilt.  Nothing is left to
\* compact then but the summary, which is not compacted again.
Compact(s) ==
  /\ At(s, "request") /\ ~runner[s].compacted /\ Reads(s) /\ UNCHANGED past
  /\ Goes(s, [runner[s] EXCEPT !.pc = "turn", !.compacted = TRUE])

Stream(s) == /\ At(s, "request") /\ Reads(s) /\ UNCHANGED past
             /\ Goes(s, [runner[s] EXCEPT !.pc = "stream"])

\* A context overflow before any output, recovered at most once in a turn.
RecoverOverflow(s) ==
  /\ At(s, "stream") /\ runner[s].recover /\ Reads(s) /\ UNCHANGED past
  /\ Goes(s, [runner[s] EXCEPT !.pc = "turn", !.recover = FALSE, !.compacted = TRUE])

\* Mutant: off by one, the last step still offers tools.
OffersToolsOnLast(s) == Steps[s] # None => runner[s].step <= Steps[s]

\* ~isLastStep: only then are there tools that ask for a continuation.  An
\* agent without `steps` has no last step.
OffersTools(s) == Steps[s] # None => runner[s].step < Steps[s]

\* n + 1, counted only where an allowance is compared with it.
NextStep(s, n) == IF Steps[s] = None THEN n ELSE n + 1

Continue(s) ==
  /\ At(s, "stream") /\ OffersTools(s) /\ Reads(s)
  /\ Goes(s, Turn(s, "steer", NextStep(s, runner[s].step)))
  /\ past' = [past EXCEPT ![s].turns = NextStep(s, @), ![s].rested = FALSE]

Settle(s) ==
  /\ At(s, "stream") /\ Reads(s)
  /\ Goes(s, Before("steer again?", runner[s].force, None, runner[s].step, FALSE))
  /\ past' = [past EXCEPT ![s].turns = NextStep(s, @), ![s].rested = TRUE]

HasSteerAgain(s) ==
  /\ At(s, "steer again?") /\ Reads(s) /\ UNCHANGED past
  /\ Goes(s, IF Pending(s, "steer") # {} THEN Turn(s, "steer", NextStep(s, runner[s].step))
                                         ELSE [runner[s] EXCEPT !.pc = "queue again?"])

\* Mutant: the steps of the next queued input are counted from zero.
HasQueueFromZero(s) ==
  /\ At(s, "queue again?") /\ UNCHANGED <<seq, input, client, asked, receipts, reverts>>
  /\ \/ Pending(s, "queue") # {} /\ Goes(s, Turn(s, "queue", 0)) /\ UNCHANGED <<busy, owed, past>>
     \/ Pending(s, "queue") = {} /\ Ends(s, FALSE)

HasQueueAgain(s) ==
  /\ At(s, "queue again?") /\ UNCHANGED <<seq, input, client, asked, receipts, reverts>>
  /\ \/ Pending(s, "queue") # {} /\ Goes(s, Turn(s, "queue", 1)) /\ UNCHANGED <<busy, owed, past>>
     \/ Pending(s, "queue") = {} /\ Ends(s, FALSE)

\* The drain ends without having done its work: nothing else asks for it
\* unless a wake came in the meantime.
GivesUp(s) == /\ Ends(s, TRUE)
              /\ asked' = IF owed[s] THEN asked ELSE asked \ Of(s)
              /\ UNCHANGED <<seq, input, client, receipts, reverts>>

PublishDies(s) == At(s, "promoting") /\ PromotionDies(FirstOf(runner[s].batch)) /\ GivesUp(s)

\* Context that cannot be observed, a Session that moved, a provider or
\* storage failure, a declined tool call.
Fail(s) == runner[s].pc \notin {"idle", "stopping"} /\ GivesUp(s)

Stop(s) == At(s, "stopping") /\ GivesUp(s)

-----------------------------------------------------------------------------

Advance(s) == \/ HasSteer(s) \/ HasQueue(s) \/ BeginTurn(s) \/ SelectQueued(s) \/ SelectSteers(s)
              \/ PublishNext(s) \/ PublishDies(s) \/ Compact(s) \/ Stream(s) \/ RecoverOverflow(s)
              \/ Continue(s) \/ Settle(s) \/ HasSteerAgain(s) \/ HasQueueAgain(s) \/ Stop(s)

Prompting(c) == PromptPublishes(c) \/ PromptRefinds(c) \/ PromptWakes(c)

Next == \/ \E c \in Clients, call \in Calls : PromptFinds(c, call) \/ PromptMisses(c, call)
        \/ \E c \in Clients : Prompting(c)
        \/ \E s \in Sessions : Resume(s) \/ StartOwed(s) \/ Interrupt(s) \/ Advance(s) \/ Fail(s)
        \/ \E s \in Sessions : \E n \in 0..seq[s] : Revert(s, n)
        \/ Crash

Spec == Init /\ [][Next]_vars

\* The coordinator starts what it owes (RunCoordinator implements that), the
\* fiber of a drain runs on, and a provider stream ends.
Fairness == /\ \A c \in Clients : WF_vars(Prompting(c))
            /\ \A s \in Sessions : WF_vars(StartOwed(s)) /\ WF_vars(Advance(s))

FairSpec == Spec /\ Fairness

-----------------------------------------------------------------------------
(* Safety.                                                                 *)

\* What prompt confirmed is what the inbox holds: two calls with one
\* identifier, however they race, never both succeed with different inputs.
ReceiptsAgree ==
  \A r \in receipts : /\ Stored(r.id)
                      /\ input[r.id].session = r.session
                      /\ input[r.id].delivery = r.delivery
                      /\ input[r.id].prompt = r.prompt

\* Inputs of one delivery become visible in admission order.  (An input that
\* a revert deleted while it was being promoted has no admission left.)
PromotionOrder ==
  \A i, j \in Ids :
    /\ Stored(i) /\ Stored(j)
    /\ input[i].session = input[j].session /\ input[i].delivery = input[j].delivery
    /\ input[i].admitted < input[j].admitted
    /\ Visible(j) /\ input[j].admitted # input[j].promoted
    => Visible(i) /\ input[i].promoted < input[j].promoted

\* A provider request leaves out no steer that was admitted when its turn
\* took the cutoff.
SteersReachTurn ==
  \A s \in Sessions : runner[s].pc \in {"request", "stream"} =>
    \A id \in Pending(s, "steer") : input[id].admitted > runner[s].cutoff

Within(s, n) == Steps[s] # None => n <= Steps[s]

\* Promoting an input restores the whole allowance of turns and nothing else
\* does: the step of a request counts the turns since, whatever path led to it
\* (continuation, compaction, overflow recovery, steering, queue), and without
\* new input a drain takes no more turns than the agent's allowance, if it has
\* one.  (A revert may delete the input a reset counted on.)
AllowanceExact ==
  \A s \in Sessions :
    \/ past[s].reverted
    \/ Within(s, past[s].turns) /\ (At(s, "stream") => runner[s].step = past[s].turns + 1)

\* A queued input is promoted only when the model rests and no other queued
\* input was promoted since it last did: one at a time.
QueueOneByOne ==
  [][\A id \in Ids : Stored(id) /\ ~Visible(id) /\ input[id].delivery = "queue" /\ input'[id].promoted # 0
       => past[input[id].session].rested]_vars

\* An input whose wake was accepted and not cancelled still has a drain owed,
\* or one at work that is going to read its kind before it ends.
WakesServed ==
  \A id \in asked :
    LET s == input[id].session IN
    /\ Stored(id) /\ ~Visible(id)
    /\ owed[s] \/ (busy[s] /\ runner[s].pc \notin
                     (IF input[id].delivery = "steer" THEN {"stopping", "queue?", "queue again?"} ELSE {"stopping"}))

\* A drain that was not forced calls the provider only once it has promoted
\* an input, unless a revert took that input away.
WakeBringsInput ==
  \A s \in Sessions : At(s, "stream") => runner[s].force \/ past[s].served \/ past[s].reverted

-----------------------------------------------------------------------------
(* The inbox, as whoever prompts knows it.                                 *)

EntryOf(row) ==
  [status |-> IF row = NoRow THEN "absent" ELSE IF row.promoted = 0 THEN "waiting" ELSE "visible",
   session |-> row.session, delivery |-> row.delivery, prompt |-> row.prompt, ticket |-> row.admitted]

entries == [id \in Ids |-> EntryOf(input[id])]

Promised == INSTANCE DurableInbox WITH entry <- entries, Tickets <- Nat

-----------------------------------------------------------------------------
(* Liveness.                                                               *)

\* An accepted wake is never lost: its input becomes visible, unless the
\* drain is interrupted or fails, the input is reverted or the process lost.
\* A steer is read by the next turn.  A queued input waits for the model to
\* rest, which an agent without `steps` is never made to do.
NeverRests(s, id) == [](input[id].delivery = "queue" /\ ~past[s].rested)

WokenInputServed ==
  \A s \in Sessions, id \in Ids :
    (id \in asked /\ id \in Of(s)) ~> (id \notin asked \/ past[s].failed \/ NeverRests(s, id))

=============================================================================
