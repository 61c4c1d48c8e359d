---------------------------- MODULE ProviderTurn ----------------------------
(* One provider turn and the settlement of its tool calls (packages/core/src/  *)
(* session/runner/llm.ts, runTurnAttempt and failInterruptedTools; runner/     *)
(* publish-llm-event.ts) with what the projection stores (session/             *)
(* message-updater.ts).  The provider streams calls; local ones run in fibers  *)
(* that publish their results while the stream goes on; after the stream the   *)
(* runner awaits them and closes what is open.  A client may interrupt the     *)
(* turn, the process may be lost; a later drain then settles what is left.     *)
(*                                                                             *)
(* One permit serialises publication, so a publication is one step, except     *)
(* that a loop over the calls stores one event at a time, and that an event    *)
(* the stream publishes may be cut off by an interrupt after the flags of the  *)
(* publisher are set and before the event is stored.  Text and reasoning only  *)
(* matter as what starts the assistant.                                        *)
EXTENDS Naturals, Sequences

CONSTANTS Calls,    \* tool calls the provider may make
          Hosted    \* those it executes itself

ASSUME HostedAssumption == Hosted \subseteq Calls

VARIABLES turn,          \* how the turn is made: tools disabled, overflow recoverable
          main,          \* the runner's fiber: where it is and what it has learnt
          interrupted,   \* a client has interrupted the drain
          pub,           \* the publisher's flags, with overflowFailure and needsContinuation
          tool,          \* the publisher's Map of calls
          fiber,         \* the fiber of a local call
          broken,        \* the first failure of a fiber, which FiberSet.join reports
          store,         \* projection: the state of a call in its assistant message
          closed,        \* log: Tool.Success and Tool.Failed events of a call
          opened,        \* log: Step.Started is stored
          steps          \* log: the Step.Ended and Step.Failed events

volatile == <<main, pub, tool, fiber, broken>>
stored == <<store, closed, opened, steps>>
vars == <<turn, interrupted, volatile, stored>>

Local == Calls \ Hosted

Unknown == [known |-> FALSE, called |-> FALSE, settled |-> FALSE]

Silent == [started |-> FALSE, active |-> FALSE, failed |-> FALSE, provider |-> FALSE,
           finished |-> FALSE, overflow |-> FALSE, continues |-> FALSE]

Phases == {"stream", "recover", "report", "fail", "clear", "await", "settle", "halt",
           "decline", "end", "return", "leave", "ended", "recovering", "next"}

Exits == {"none", "success", "error", "overflow", "defect", "interrupt"}

Outcomes == {"none", "continue", "stop", "compacted", "failed", "interrupted", "lost"}

TypeOK ==
  /\ turn \in [disabled : BOOLEAN, recoverable : BOOLEAN]
  /\ main \in [pc : Phases, exit : Exits, closing : SUBSET Calls, outcome : Outcomes,
               settled : {"none", "success", "declined", "failed", "interrupt"}]
  /\ interrupted \in BOOLEAN
  /\ pub \in [DOMAIN Silent -> BOOLEAN]
  /\ tool \in [Calls -> [DOMAIN Unknown -> BOOLEAN]]
  /\ fiber \in [Local -> {"none", "working", "done", "failing", "gone"}]
  /\ broken \in {"none", "declined", "failed"}
  /\ store \in [Calls -> {"none", "pending", "running", "completed", "error"}]
  /\ closed \in [Calls -> Nat]
  /\ opened \in BOOLEAN
  /\ steps \in Seq({"ended", "failed"})
  /\ \A c \in Local : fiber[c] # "none" => tool[c].called
  /\ \A c \in Calls : store[c] \in {"running", "completed"} /\ main.pc = "stream" => tool[c].called

Idle == [pc |-> "stream", exit |-> "none", closing |-> {}, outcome |-> "none", settled |-> "none"]

Init ==
  /\ turn \in [disabled : BOOLEAN, recoverable : BOOLEAN]
  /\ main = Idle
  /\ interrupted = FALSE
  /\ pub = Silent
  /\ tool = [c \in Calls |-> Unknown]
  /\ fiber = [c \in Local |-> "none"]
  /\ broken = "none"
  /\ store = [c \in Calls |-> "none"]
  /\ closed = [c \in Calls |-> 0]
  /\ opened = FALSE
  /\ steps = <<>>

Goto(pc) == main' = [main EXCEPT !.pc = pc]

-----------------------------------------------------------------------------
(* What the publisher does and the projection makes of it.                     *)

Started == [pub EXCEPT !.started = TRUE, !.active = @ \/ ~pub.started]

\* startAssistant, its event stored.
StartAssistant == pub' = Started /\ opened' = (opened \/ ~pub.started)

\* failAssistant; pubBefore is the publisher with what the caller has set.
FailAssistant(pubBefore) ==
  IF pubBefore.failed THEN pub' = pubBefore /\ UNCHANGED <<opened, steps>>
  ELSE /\ pub' = [pubBefore EXCEPT !.started = TRUE, !.active = FALSE, !.failed = TRUE]
       /\ opened' = (opened \/ ~pub.started)
       /\ steps' = Append(steps, "failed")

Open(c) == store[c] \in {"pending", "running"}

\* Tool.Failed and Tool.Success, projected: only an open call takes them.
StoreFailed(c) ==
  /\ closed' = [closed EXCEPT ![c] = @ + 1]
  /\ store' = [store EXCEPT ![c] = IF Open(c) THEN "error" ELSE @]

StoreSuccess(c) ==
  /\ closed' = [closed EXCEPT ![c] = @ + 1]
  /\ store' = [store EXCEPT ![c] = IF @ = "running" THEN "completed" ELSE @]

\* Mutants: calls that are settled are closed again; only hosted ones are ever closed.
AllKnown(hostedOnly) == {c \in Calls : tool[c].known /\ (hostedOnly => tool[c].called /\ c \in Hosted)}
OnlyHosted(hostedOnly) == {c \in Hosted : tool[c].called /\ ~tool[c].settled}

\* The calls failUnsettledTools is to close.
Unsettled(hostedOnly) ==
  {c \in Calls : tool[c].known /\ ~tool[c].settled /\ (hostedOnly => tool[c].called /\ c \in Hosted)}

\* One round of the loop of failUnsettledTools.
Close(c) ==
  /\ c \in main.closing
  /\ main' = [main EXCEPT !.closing = @ \ {c}]
  /\ tool' = [tool EXCEPT ![c] = [@ EXCEPT !.settled = TRUE]]
  /\ StoreFailed(c)
  /\ UNCHANGED <<turn, interrupted, pub, fiber, broken, opened, steps>>

-----------------------------------------------------------------------------
(* The stream.                                                                 *)

Streaming == main.pc = "stream" /\ main.closing = {} /\ ~pub.overflow /\ ~pub.provider

StreamText ==
  /\ Streaming /\ ~pub.started
  /\ StartAssistant
  /\ UNCHANGED <<turn, interrupted, main, tool, fiber, broken, store, closed, steps>>

StreamInput(c) ==
  /\ Streaming /\ ~tool[c].known
  /\ StartAssistant
  /\ tool' = [tool EXCEPT ![c] = [@ EXCEPT !.known = TRUE]]
  /\ store' = [store EXCEPT ![c] = "pending"]
  /\ UNCHANGED <<turn, interrupted, main, fiber, broken, closed, steps>>

\* A call; a local one starts its fiber, or on the last step fails all that is unsettled.
StreamCall(c) ==
  /\ Streaming /\ ~tool[c].called
  /\ LET runs == c \in Local /\ ~turn.disabled
         fails == c \in Local /\ turn.disabled
     IN  /\ pub' = [Started EXCEPT !.continues = @ \/ runs]
         /\ opened' = (opened \/ ~pub.started)
         /\ tool' = [tool EXCEPT ![c] = [@ EXCEPT !.known = TRUE, !.called = TRUE]]
         /\ store' = [store EXCEPT ![c] = "running"]
         /\ fiber' = IF runs THEN [fiber EXCEPT ![c] = "working"] ELSE fiber
         /\ main' = IF fails THEN [main EXCEPT !.closing = Unsettled(FALSE)'] ELSE main
  /\ UNCHANGED <<turn, interrupted, broken, closed, steps>>

\* A hosted call's result; one for a settled call is dropped or ends the stream as a defect.
StreamResult(c) ==
  /\ Streaming /\ c \in Hosted /\ tool[c].called /\ ~tool[c].settled
  /\ tool' = [tool EXCEPT ![c] = [@ EXCEPT !.settled = TRUE]]
  /\ StoreSuccess(c) \/ StoreFailed(c)
  /\ UNCHANGED <<turn, interrupted, main, pub, fiber, broken, opened, steps>>

StreamFinish ==
  /\ Streaming /\ ~pub.finished
  /\ pub' = [pub EXCEPT !.active = FALSE, !.finished = TRUE]
  /\ UNCHANGED <<turn, interrupted, main, tool, fiber, broken, stored>>

\* A context overflow before any output is set aside; other errors fail the step.
StreamProviderError ==
  /\ Streaming
  /\ \/ ~pub.started /\ pub' = [pub EXCEPT !.overflow = TRUE] /\ UNCHANGED <<opened, steps>>
     \/ FailAssistant([pub EXCEPT !.provider = TRUE])
  /\ UNCHANGED <<turn, interrupted, main, tool, fiber, broken, store, closed>>

\* The provider ends the stream or breaks it, or what it sent is out of order.
StreamEnds(exit) ==
  /\ main.pc = "stream" /\ main.closing = {}
  /\ main' = [main EXCEPT !.pc = "recover", !.exit = exit]
  /\ UNCHANGED <<turn, interrupted, pub, tool, fiber, broken, stored>>

Cut == main' = [main EXCEPT !.pc = "recover", !.exit = "interrupt", !.closing = {}]

\* An interrupt between two events, also of a loop over the calls.
InterruptStream ==
  /\ main.pc = "stream" /\ interrupted
  /\ Cut
  /\ UNCHANGED <<turn, interrupted, pub, tool, fiber, broken, stored>>

\* An interrupt that cuts off Step.Started, or Step.Failed after a provider error.
CutStep ==
  /\ Streaming /\ interrupted
  /\ \/ ~pub.started /\ pub' = Started
     \/ ~pub.failed /\ pub.started /\ pub' = [pub EXCEPT !.provider = TRUE, !.active = FALSE, !.failed = TRUE]
  /\ Cut
  /\ UNCHANGED <<turn, interrupted, tool, fiber, broken, stored>>

\* An interrupt on the way of a call from unknown to its fiber: before its input is stored,
\* before Tool.Called is published, before it is stored, or before the fiber is started.
CutCall(c) ==
  /\ Streaming /\ interrupted /\ ~tool[c].called
  /\ StartAssistant
  /\ \E called \in BOOLEAN, state \in {"none", "pending", "running"} :
       /\ tool' = [tool EXCEPT ![c] = [@ EXCEPT !.known = TRUE, !.called = called]]
       /\ store' = [store EXCEPT ![c] = state]
       /\ state = "none" => ~called /\ ~tool[c].known
       /\ state = "pending" /\ tool[c].known => store[c] = "pending"
       /\ state = "running" => called /\ (tool[c].known => store[c] # "none")
  /\ Cut
  /\ UNCHANGED <<turn, interrupted, fiber, broken, closed, steps>>

\* An interrupt that cuts off the event that settles a call.
CutSettlement(c) ==
  /\ main.pc = "stream" /\ interrupted
  /\ \/ Streaming /\ c \in Hosted /\ tool[c].called /\ ~tool[c].settled
     \/ c \in main.closing
  /\ tool' = [tool EXCEPT ![c] = [@ EXCEPT !.settled = TRUE]]
  /\ Cut
  /\ UNCHANGED <<turn, interrupted, pub, fiber, broken, stored>>

-----------------------------------------------------------------------------
(* The fibers of local calls.                                                  *)

\* The tool succeeds or fails with a result for the model, or its fiber breaks.
ToolReturns(c, result) ==
  /\ fiber[c] = "working"
  /\ fiber' = [fiber EXCEPT ![c] = result]
  /\ UNCHANGED <<turn, interrupted, main, pub, tool, broken, stored>>

\* The user declines a permission or a question, or the tool or its output store breaks.
ToolBreaks(c, how) ==
  /\ fiber[c] = "working"
  /\ fiber' = [fiber EXCEPT ![c] = "gone"]
  /\ broken' = IF broken = "none" THEN how ELSE broken
  /\ UNCHANGED <<turn, interrupted, main, pub, tool, stored>>

\* The result is published without interruption; one for a call that was failed meanwhile
\* is dropped, or breaks the fiber when it is a success.
PublishResult(c) ==
  /\ fiber[c] \in {"done", "failing"} /\ main.closing = {}
  /\ fiber' = [fiber EXCEPT ![c] = "gone"]
  /\ IF tool[c].settled
     THEN /\ broken' = IF broken = "none" /\ fiber[c] = "done" THEN "failed" ELSE broken
          /\ UNCHANGED <<tool, store, closed>>
     ELSE /\ tool' = [tool EXCEPT ![c] = [@ EXCEPT !.settled = TRUE]]
          /\ IF fiber[c] = "done" THEN StoreSuccess(c) ELSE StoreFailed(c)
          /\ UNCHANGED broken
  /\ UNCHANGED <<turn, interrupted, main, pub, opened, steps>>

Alive == {c \in Local : fiber[c] \in {"working", "done", "failing"}}

\* Mutant: fibers that never ran count as ended.
ClearedAll ==
  /\ \A c \in Alive : fiber[c] = "working"
  /\ fiber' = [c \in Local |-> "gone"]

\* FiberSet.clear interrupts the fibers and waits for those that are publishing.
Cleared ==
  /\ \A c \in Alive : fiber[c] = "working"
  /\ fiber' = [c \in Local |-> IF c \in Alive THEN "gone" ELSE fiber[c]]

-----------------------------------------------------------------------------
(* After the stream; only the recovery and the wait can be interrupted.        *)

At(pc) == main.pc = pc /\ main.closing = {}

Overflowed ==
  turn.recoverable /\ ~pub.started /\ (pub.overflow \/ main.exit = "overflow")

Recover ==
  /\ At("recover")
  /\ \/ ~interrupted /\ Goto("report")
     \/ ~Overflowed /\ Goto("report")
     \/ Overflowed /\ ~interrupted /\ main' = [main EXCEPT !.pc = "leave", !.outcome = "compacted"]
     \/ Overflowed /\ interrupted /\ main' = [main EXCEPT !.pc = "leave", !.outcome = "interrupted"]
  /\ UNCHANGED <<turn, interrupted, pub, tool, fiber, broken, stored>>

\* Publish the overflow that was not recovered; a broken stream fails hosted calls and the step.
Report ==
  /\ At("report")
  /\ IF pub.overflow THEN FailAssistant([pub EXCEPT !.provider = TRUE])
     ELSE UNCHANGED <<pub, opened, steps>>
  /\ IF main.exit \in {"error", "overflow"} /\ ~pub'.provider
     THEN main' = [main EXCEPT !.pc = "fail", !.closing = Unsettled(TRUE)]
     ELSE Goto("clear")
  /\ UNCHANGED <<turn, interrupted, tool, fiber, broken, store, closed>>

FailStep ==
  /\ At("fail")
  /\ FailAssistant(pub)
  /\ Goto("clear")
  /\ UNCHANGED <<turn, interrupted, tool, fiber, broken, store, closed>>

Clear ==
  /\ At("clear")
  /\ IF main.exit = "interrupt" THEN Cleared ELSE UNCHANGED fiber
  /\ Goto("await")
  /\ UNCHANGED <<turn, interrupted, pub, tool, broken, stored>>

\* Mutant: the wait for the tools cannot be interrupted.
AwaitAll ==
  /\ At("await")
  /\ \E settled \in {"success", "declined", "failed"} :
       /\ settled = "success" => broken = "none" /\ Alive = {}
       /\ settled \in {"declined", "failed"} => broken = settled
       /\ main' = [main EXCEPT !.pc = "settle", !.settled = settled]
  /\ UNCHANGED <<turn, interrupted, pub, tool, fiber, broken, stored>>

\* A failed fiber ends the wait at once, whatever the others do; an interrupt, also one
\* that the stream has already seen, ends it before that.
Await ==
  /\ At("await")
  /\ \E settled \in {"success", "declined", "failed", "interrupt"} :
       /\ interrupted <=> settled = "interrupt"
       /\ settled = "success" => broken = "none" /\ Alive = {}
       /\ settled \in {"declined", "failed"} => broken = settled
       /\ main' = [main EXCEPT !.pc = "settle", !.settled = settled]
  /\ UNCHANGED <<turn, interrupted, pub, tool, fiber, broken, stored>>

Halted == main.exit = "interrupt" \/ main.settled = "interrupt"

Settle ==
  /\ At("settle")
  /\ IF main.settled = "declined" \/ Halted THEN Cleared ELSE UNCHANGED fiber
  /\ main' = [main EXCEPT
       !.pc = IF main.settled = "declined" THEN "decline" ELSE IF Halted THEN "halt" ELSE "end",
       !.closing = IF main.settled = "success" /\ ~Halted THEN {} ELSE Unsettled(FALSE)]
  /\ UNCHANGED <<turn, interrupted, pub, tool, broken, stored>>

Decline ==
  /\ At("decline")
  /\ main' = [main EXCEPT !.pc = "leave", !.outcome = "interrupted"]
  /\ UNCHANGED <<turn, interrupted, pub, tool, fiber, broken, stored>>

\* Mutant: the step of an interrupted turn is not failed.
HaltOpen ==
  /\ At("halt")
  /\ Goto("end")
  /\ UNCHANGED <<turn, interrupted, pub, tool, fiber, broken, stored>>

Halt ==
  /\ At("halt")
  /\ IF pub.active THEN FailAssistant(pub) ELSE UNCHANGED <<pub, opened, steps>>
  /\ Goto("end")
  /\ UNCHANGED <<turn, interrupted, tool, fiber, broken, store, closed>>

\* Step.Ended, and the last two calls of failUnsettledTools.
End ==
  /\ At("end")
  /\ IF pub.finished /\ ~pub.provider
     THEN StartAssistant /\ steps' = Append(steps, "ended")
     ELSE UNCHANGED <<pub, opened, steps>>
  /\ main' = [main EXCEPT !.pc = "return",
       !.closing = IF pub.provider THEN Unsettled(FALSE)
                   ELSE IF main.exit = "success" THEN Unsettled(TRUE) ELSE {}]
  /\ UNCHANGED <<turn, interrupted, tool, fiber, broken, store, closed>>

Return ==
  /\ At("return")
  /\ main' = [main EXCEPT !.pc = "leave",
       !.outcome = IF main.exit \in {"error", "overflow", "defect"} THEN "failed"
                   ELSE IF Halted THEN "interrupted"
                   ELSE IF pub.continues /\ ~pub.provider THEN "continue" ELSE "stop"]
  /\ UNCHANGED <<turn, interrupted, pub, tool, fiber, broken, stored>>

\* The scope of the turn ends with its fibers.
Leave ==
  /\ At("leave")
  /\ Cleared
  /\ Goto("ended")
  /\ UNCHANGED <<turn, interrupted, pub, tool, broken, stored>>

-----------------------------------------------------------------------------
(* What comes after the turn.                                                  *)

\* The drain goes on to another turn, for the results or for a steer or a queued input.
Continue ==
  /\ main.pc = "ended" /\ main.outcome \in {"continue", "stop"}
  /\ Goto("next")
  /\ UNCHANGED <<turn, interrupted, pub, tool, fiber, broken, stored>>

\* A later drain begins with failInterruptedTools.
NewDrain ==
  /\ main.pc = "ended"
  /\ Goto("recovering")
  /\ UNCHANGED <<turn, interrupted, pub, tool, fiber, broken, stored>>

RecoverCall(c) ==
  /\ main.pc = "recovering" /\ Open(c)
  /\ StoreFailed(c)
  /\ UNCHANGED <<turn, interrupted, volatile, opened, steps>>

Recovered ==
  /\ main.pc = "recovering" /\ \A c \in Calls : ~Open(c)
  /\ Goto("next")
  /\ UNCHANGED <<turn, interrupted, pub, tool, fiber, broken, stored>>

Interrupt ==
  /\ ~interrupted /\ main.pc \notin {"ended", "recovering", "next"}
  /\ interrupted' = TRUE
  /\ UNCHANGED <<turn, volatile, stored>>

\* The process is lost, in the turn or in the recovery.
Crash ==
  /\ main.pc # "next"
  /\ main' = [Idle EXCEPT !.pc = "ended", !.outcome = "lost"]
  /\ interrupted' = FALSE
  /\ pub' = Silent
  /\ tool' = [c \in Calls |-> Unknown]
  /\ fiber' = [c \in Local |-> "none"]
  /\ broken' = "none"
  /\ UNCHANGED <<turn, stored>>

MainStep ==
  \/ \E c \in Calls : Close(c)
  \/ InterruptStream
  \/ Recover \/ Report \/ FailStep \/ Clear \/ Await \/ Settle \/ Decline \/ Halt
  \/ End \/ Return \/ Leave

StreamStep ==
  \/ StreamText \/ StreamFinish \/ StreamProviderError
  \/ \E c \in Calls : StreamInput(c) \/ StreamCall(c) \/ StreamResult(c)
  \/ \E exit \in {"success", "error", "overflow", "defect"} : StreamEnds(exit)
  \/ CutStep
  \/ \E c \in Calls : CutCall(c) \/ CutSettlement(c)

ToolStep(c) ==
  \/ \E result \in {"done", "failing"} : ToolReturns(c, result)
  \/ \E how \in {"declined", "failed"} : ToolBreaks(c, how)

Next ==
  \/ MainStep \/ StreamStep
  \/ \E c \in Local : ToolStep(c) \/ PublishResult(c)
  \/ Continue \/ NewDrain \/ Recovered
  \/ \E c \in Calls : RecoverCall(c)
  \/ Interrupt \/ Crash

Spec == Init /\ [][Next]_vars

\* The runtime runs the runner and a fiber with a result; providers, tools and users owe nothing.
FairSpec == Spec /\ WF_vars(MainStep) /\ \A c \in Local : WF_vars(PublishResult(c))

-----------------------------------------------------------------------------
(* Properties.                                                                 *)

(* A tool call is settled once in the log: whichever of the stream, its fiber, *)
(* the runner that closes the turn and the drain that recovers it comes first, *)
(* none of the others settles it again.  (On the last step of an agent it may: *)
(* see SettledBeforeContinuation.)                                             *)
SettledOnce == ~turn.disabled => \A c \in Calls : closed[c] <= 1

(* Another provider turn never begins with a call of this one still running,   *)
(* though the turn may go on after a fiber broke while others still work.      *)
ResultsBeforeContinuation ==
  main.pc = "next" /\ ~turn.disabled => \A c \in Calls : store[c] # "running"

(* "Tool results are durably settled before provider continuation"             *)
(* (specs/v2/schema-changelog.md:183), also on the last step, where tools are  *)
(* disabled and the provider calls them all the same.                          *)
SettledBeforeContinuation == main.pc = "next" => \A c \in Calls : store[c] # "running"

(* A turn that was interrupted leaves its step closed, whether the stream, the *)
(* wait for the tools, or nothing was left to interrupt.  The one exception is *)
(* a provider's error whose own event the interrupt has cut off.               *)
InterruptedStepClosed ==
  main.pc = "ended" /\ Halted /\ opened => steps # <<>> \/ pub.failed

(* What a session promises of each tool call: see ToolCalls.                   *)
Log == INSTANCE ToolCalls WITH shown <- store, settled <- closed

(* An interrupt ends the turn, whatever its tools and its provider do.         *)
InterruptEndsTurn == interrupted ~> main.pc \in {"ended", "recovering", "next"}
=============================================================================
