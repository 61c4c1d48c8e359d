-------------------------- MODULE ProviderTurnProofs --------------------------
(* Where tools are enabled, a tool call is settled once and before the next    *)
(* provider turn, for every set of calls, and the turn implements ToolCalls;   *)
(* whether they are or not, an interrupted turn leaves its step closed.        *)
EXTENDS ProviderTurn, TLAPS

\* The turn is still being made: its fiber, its publisher and its tools are there.
Running == main.pc \notin {"ended", "recovering", "next"}

Runner ==
  [pc : Phases, exit : Exits, closing : SUBSET Calls, outcome : Outcomes,
   settled : {"none", "success", "declined", "failed", "interrupt"}]

Typed ==
  /\ turn.disabled \in BOOLEAN
  /\ main \in Runner
  /\ tool \in [Calls -> [known : BOOLEAN, called : BOOLEAN, settled : BOOLEAN]]
  /\ fiber \in [Local -> {"none", "working", "done", "failing", "gone"}]
  /\ store \in [Calls -> {"none", "pending", "running", "completed", "error"}]
  /\ closed \in [Calls -> Nat]

\* No interrupt has cut off an event, and no fiber was cleared.
Whole == main.exit # "interrupt" /\ main.settled \notin {"declined", "interrupt"}

\* What the runner knows where: how the stream and the wait ended, and its outcome.
RunnerSound ==
  /\ main.pc = "stream" => main.exit = "none"
  /\ Running /\ main.pc # "stream" => main.exit # "none"
  /\ main.pc \in {"stream", "recover", "report", "fail", "clear", "await"} => main.settled = "none"
  /\ main.pc = "settle" => main.settled # "none"
  /\ main.pc = "halt" => ~Whole
  /\ main.pc \in {"halt", "end", "return"} => main.settled \notin {"none", "declined"}
  /\ Running /\ main.pc # "leave" => main.outcome = "none"

\* Calls are closed in a few places only, and those to be closed are not settled yet.
ClosingSound ==
  /\ main.closing # {} => main.pc \in {"fail", "halt", "decline", "end", "return"}
  /\ \A c \in main.closing : tool[c].known /\ ~tool[c].settled

\* A call is closed in the log at most once, and then neither open nor unsettled.
ClosedOnce ==
  \A c \in Calls :
    /\ closed[c] <= 1
    /\ closed[c] = 1 => ~Open(c) /\ (Running => tool[c].settled)

\* What the flags of a call say of each other, and of the store while the provider streams.
FlagsSound ==
  \A c \in Calls :
    /\ tool[c].called \/ tool[c].settled => tool[c].known
    /\ main.pc = "stream" /\ tool[c].settled => tool[c].called
    /\ main.pc = "stream" /\ tool[c].called /\ ~tool[c].settled => store[c] = "running"

\* A fiber belongs to a call of this turn, which runs until it is settled.
FibersSound ==
  \A c \in Alive : Running /\ tool[c].called /\ (tool[c].settled \/ store[c] = "running")

\* A running call is one the publisher still has to settle, and its fiber is on the way to it.
RunningOwed ==
  Running /\ main.exit # "interrupt" =>
    /\ \A c \in Calls : store[c] = "running" => tool[c].called /\ ~tool[c].settled
    /\ \A c \in Local :
         /\ tool[c].called => fiber[c] # "none"
         /\ Whole /\ broken = "none" /\ fiber[c] = "gone" => tool[c].settled

\* Once the wait is over whatever is not settled is about to be closed.
WaitOver ==
  /\ main.pc = "settle" /\ main.settled = "success" => broken = "none" /\ Alive = {}
  /\ main.pc \in {"end", "return"} /\ Whole =>
       \A c \in Local : tool[c].called /\ ~tool[c].settled => c \in main.closing
  /\ main.pc = "return" /\ Whole /\ main.exit = "success" =>
       \A c \in Calls : tool[c].called /\ ~tool[c].settled => c \in main.closing

\* Nothing runs where another turn may follow.
NothingRuns ==
  (main.pc \in {"leave", "ended"} /\ main.outcome \in {"continue", "stop"}) \/ main.pc = "next" =>
    \A c \in Calls : store[c] # "running"

Enabled ==
  /\ ClosingSound
  /\ ClosedOnce
  /\ FlagsSound
  /\ FibersSound
  /\ RunningOwed
  /\ WaitOver
  /\ NothingRuns

Inv == Typed /\ RunnerSound /\ (~turn.disabled => Enabled)

\* Nothing was called at the start.
LEMMA InitInv == Init => Inv
<1> SUFFICES ASSUME Init PROVE Inv
  OBVIOUS
<1> USE DEF Init
<1>1. main = [pc |-> "stream", exit |-> "none", closing |-> {}, outcome |-> "none", settled |-> "none"]
  BY DEF Idle
<1>2. Typed
  <2>1. turn.disabled \in BOOLEAN
    OBVIOUS
  <2>2. /\ tool \in [Calls -> [known : BOOLEAN, called : BOOLEAN, settled : BOOLEAN]]
        /\ fiber \in [Local -> {"none", "working", "done", "failing", "gone"}]
        /\ store \in [Calls -> {"none", "pending", "running", "completed", "error"}]
        /\ closed \in [Calls -> Nat]
    BY DEF Unknown
  <2> QED BY <1>1, <2>1, <2>2 DEF Typed, Runner, Phases, Exits, Outcomes
<1>3. RunnerSound
  BY <1>1 DEF RunnerSound, Running
<1>4. Alive = {} /\ \A c \in Calls : tool[c] = Unknown /\ store[c] = "none" /\ closed[c] = 0
  BY HostedAssumption DEF Alive, Local
<1>5. Enabled
  BY <1>1, <1>4 DEF Enabled, ClosingSound, ClosedOnce, FlagsSound, FibersSound, RunningOwed,
        WaitOver, NothingRuns, Running, Unknown, Local, Open
<1> QED BY <1>2, <1>3, <1>5 DEF Inv

\* A call that is not settled in a turn under way is not closed in the log either.
LEMMA NotClosed ==
  ASSUME Typed, ClosedOnce, Running, NEW c \in Calls, ~tool[c].settled
  PROVE  closed[c] = 0
<1>1. closed[c] \in Nat
  BY DEF Typed
<1>2. closed[c] <= 1 /\ closed[c] # 1
  BY DEF ClosedOnce
<1> QED BY <1>1, <1>2

-----------------------------------------------------------------------------
(* The stream.                                                                 *)

\* A call that is new to the publisher.
LEMMA StreamInputInv ==
  ASSUME Inv, NEW c \in Calls, StreamInput(c)
  PROVE  Inv'
<1> USE DEF Inv
<1>0. /\ main.pc = "stream" /\ ~tool[c].known
      /\ UNCHANGED <<turn, main, fiber, broken, closed>>
      /\ store' = [store EXCEPT ![c] = "pending"]
      /\ tool' = [tool EXCEPT ![c] = [@ EXCEPT !.known = TRUE]]
  BY DEF StreamInput, Streaming
<1>1. Typed' /\ RunnerSound'
  BY <1>0 DEF Typed, RunnerSound, Running
<1>2. /\ tool'[c].known /\ tool'[c].called = tool[c].called /\ tool'[c].settled = tool[c].settled
      /\ store'[c] = "pending"
      /\ \A d \in Calls \ {c} : tool'[d] = tool[d] /\ store'[d] = store[d]
  BY <1>0 DEF Typed
<1>3. ASSUME ~turn.disabled PROVE Enabled'
  <2>0. ~tool[c].called /\ ~tool[c].settled /\ Alive' = Alive /\ c \notin Alive /\ closed[c] = 0
    <3>1. ~tool[c].called /\ ~tool[c].settled
      BY <1>0, <1>3 DEF Enabled, FlagsSound, Typed
    <3>2. closed[c] = 0
      BY <1>0, <1>3, <3>1, NotClosed DEF Running, Enabled
    <3>3. Alive' = Alive
      BY <1>0 DEF Alive
    <3> QED BY <1>3, <3>1, <3>2, <3>3 DEF Enabled, FibersSound
  <2>1. ClosingSound' /\ ClosedOnce' /\ FlagsSound'
    BY <1>0, <1>2, <1>3, <2>0 DEF Enabled, ClosingSound, ClosedOnce, FlagsSound, Open, Running
  <2>2. FibersSound'
    BY <1>0, <1>2, <1>3, <2>0 DEF Enabled, FibersSound, Running, Alive, Local
  <2>3. RunningOwed' /\ WaitOver' /\ NothingRuns'
    BY <1>0, <1>2, <1>3, <2>0 DEF Enabled, RunningOwed, WaitOver, NothingRuns, Running, Whole, Local
  <2> QED BY <2>1, <2>2, <2>3 DEF Enabled
<1> QED BY <1>0, <1>1, <1>3

-----------------------------------------------------------------------------
(* The runner.                                                                 *)

\* A step of the runner alone changes what it knows and whom it will close.
LEMMA RunnerInv ==
  ASSUME Inv, UNCHANGED <<turn, tool, fiber, broken, store, closed>>,
         main' \in Runner, RunnerSound', Running' <=> Running,
         main'.pc = "stream" => main.pc = "stream",
         main'.exit # "interrupt" => main.exit # "interrupt",
         Running /\ Whole' => Whole,
         ~turn.disabled => ClosingSound' /\ WaitOver' /\ NothingRuns'
  PROVE  Inv'
<1> USE DEF Inv
<1>1. Typed'
  BY DEF Typed
<1>2. ASSUME ~turn.disabled PROVE Enabled'
  <2>1. ClosedOnce' /\ FlagsSound'
    BY <1>2 DEF Enabled, ClosedOnce, FlagsSound, Open
  <2>2. FibersSound'
    BY <1>2 DEF Enabled, FibersSound, Alive
  <2>3. RunningOwed'
    BY <1>2 DEF Enabled, RunningOwed
  <2> QED BY <1>2, <2>1, <2>2, <2>3 DEF Enabled
<1> QED BY <1>1, <1>2

\* The stream ends, by itself or by an interrupt.
LEMMA StreamEndsInv ==
  ASSUME Inv, main.pc = "stream", UNCHANGED <<turn, tool, fiber, broken, store, closed>>,
         NEW exit \in Exits \ {"none"},
         main' = [main EXCEPT !.pc = "recover", !.exit = exit, !.closing = {}]
  PROVE  Inv'
<1> USE DEF Inv
<1>1. main' \in Runner
  BY DEF Typed, Runner, Phases
<1>2. /\ main'.pc = "recover" /\ main'.exit = exit /\ main'.closing = {}
      /\ main'.settled = main.settled /\ main'.outcome = main.outcome
  BY DEF Typed, Runner
<1>3. main.settled = "none" /\ main.exit = "none" /\ main.outcome = "none" /\ Running
  BY DEF RunnerSound, Running
<1>4. RunnerSound' /\ Running'
  BY <1>2, <1>3 DEF RunnerSound, Running
<1>5. ClosingSound' /\ WaitOver' /\ NothingRuns'
  BY <1>2 DEF ClosingSound, WaitOver, NothingRuns
<1> QED BY <1>1, <1>2, <1>3, <1>4, <1>5, RunnerInv DEF Whole

\* The steps from the end of the stream to the wait for the tools.
LEMMA BeforeWaitInv ==
  ASSUME Inv, Recover \/ Report \/ FailStep \/ Await \/ Decline \/ Halt
  PROVE  Inv'
<1> USE DEF Inv
<1>0. /\ UNCHANGED <<turn, tool, fiber, broken, store, closed>>
      /\ main.closing = {}
  BY DEF Recover, Report, FailStep, Await, Decline, Halt, At, stored
<1>1. CASE Recover
  <2>1. \/ main' = [main EXCEPT !.pc = "report"]
        \/ \E outcome \in {"compacted", "interrupted"} :
             main' = [main EXCEPT !.pc = "leave", !.outcome = outcome]
    BY <1>1 DEF Recover, Goto
  <2>2. main.pc = "recover"
    BY <1>1 DEF Recover, At
  <2>3. main' \in Runner
    BY <2>1 DEF Typed, Runner, Phases, Outcomes
  <2>4. /\ main'.exit = main.exit /\ main'.closing = {} /\ main'.settled = main.settled
        /\ \/ main'.pc = "report" /\ main'.outcome = main.outcome
           \/ main'.pc = "leave" /\ main'.outcome \in {"compacted", "interrupted"}
    BY <1>0, <2>1 DEF Typed, Runner
  <2>5. RunnerSound' /\ ClosingSound' /\ WaitOver' /\ NothingRuns'
    BY <2>2, <2>4 DEF RunnerSound, Running, ClosingSound, WaitOver, NothingRuns
  <2> QED BY <1>0, <2>2, <2>3, <2>4, <2>5, RunnerInv DEF Running, Whole
<1>2. CASE Report \/ FailStep
  <2>1. main.pc \in {"report", "fail"}
    BY <1>2 DEF Report, FailStep, At
  <2>2. \/ main' = [main EXCEPT !.pc = "fail", !.closing = Unsettled(TRUE)]
        \/ main' = [main EXCEPT !.pc = "clear"]
    BY <1>2 DEF Report, FailStep, Goto
  <2>3. main' \in Runner
    <3>1. Unsettled(TRUE) \in SUBSET Calls
      BY DEF Unsettled
    <3> QED BY <2>2, <3>1 DEF Typed, Runner, Phases
  <2>4. /\ main'.exit = main.exit /\ main'.settled = main.settled /\ main'.outcome = main.outcome
        /\ \/ main'.pc = "fail" /\ main'.closing = Unsettled(TRUE)
           \/ main'.pc = "clear" /\ main'.closing = {}
    BY <1>0, <2>2 DEF Typed, Runner
  <2>5. RunnerSound' /\ ClosingSound' /\ WaitOver' /\ NothingRuns'
    BY <1>0, <2>1, <2>4 DEF RunnerSound, Running, ClosingSound, WaitOver, NothingRuns, Unsettled
  <2> QED BY <1>0, <2>1, <2>3, <2>4, <2>5, RunnerInv DEF Running, Whole
<1>3. CASE Await
  <2>1. PICK settled \in {"success", "declined", "failed", "interrupt"} :
          /\ settled = "success" => broken = "none" /\ Alive = {}
          /\ main' = [main EXCEPT !.pc = "settle", !.settled = settled]
    BY <1>3 DEF Await
  <2>2. main.pc = "await" /\ main.settled = "none"
    BY <1>3 DEF Await, At, RunnerSound
  <2>3. main' \in Runner
    BY <2>1 DEF Typed, Runner, Phases
  <2>4. /\ main'.exit = main.exit /\ main'.closing = {} /\ main'.outcome = main.outcome
        /\ main'.pc = "settle" /\ main'.settled = settled
    BY <1>0, <2>1 DEF Typed, Runner
  <2>5. RunnerSound' /\ ClosingSound' /\ NothingRuns'
    BY <2>2, <2>4 DEF RunnerSound, Running, ClosingSound, NothingRuns
  <2>6. WaitOver'
    BY <1>0, <2>1, <2>4 DEF WaitOver, Alive
  <2> QED BY <1>0, <2>2, <2>3, <2>4, <2>5, <2>6, RunnerInv DEF Running, Whole
<1>4. CASE Decline
  <2>1. main' = [main EXCEPT !.pc = "leave", !.outcome = "interrupted"] /\ main.pc = "decline"
    BY <1>4 DEF Decline, At
  <2>2. main' \in Runner
    BY <2>1 DEF Typed, Runner, Phases, Outcomes
  <2>3. /\ main'.exit = main.exit /\ main'.closing = {} /\ main'.settled = main.settled
        /\ main'.pc = "leave" /\ main'.outcome = "interrupted"
    BY <1>0, <2>1 DEF Typed, Runner
  <2>4. RunnerSound' /\ ClosingSound' /\ WaitOver' /\ NothingRuns'
    BY <2>1, <2>3 DEF RunnerSound, Running, ClosingSound, WaitOver, NothingRuns
  <2> QED BY <1>0, <2>1, <2>2, <2>3, <2>4, RunnerInv DEF Running, Whole
<1>5. CASE Halt
  <2>1. main' = [main EXCEPT !.pc = "end"] /\ main.pc = "halt"
    BY <1>5 DEF Halt, At, Goto
  <2>2. main' \in Runner
    BY <2>1 DEF Typed, Runner, Phases
  <2>3. /\ main'.exit = main.exit /\ main'.closing = {} /\ main'.settled = main.settled
        /\ main'.pc = "end" /\ main'.outcome = main.outcome
    BY <1>0, <2>1 DEF Typed, Runner
  <2>4. ~Whole'
    BY <2>1, <2>3 DEF RunnerSound, Whole
  <2>5. RunnerSound' /\ ClosingSound' /\ WaitOver' /\ NothingRuns'
    BY <2>1, <2>3, <2>4 DEF RunnerSound, Running, ClosingSound, WaitOver, NothingRuns
  <2> QED BY <1>0, <2>1, <2>2, <2>3, <2>5, RunnerInv DEF Running, Whole
<1> QED BY <1>1, <1>2, <1>3, <1>4, <1>5

\* The end of the turn: what the wait has left over is closed, and then nothing runs.
LEMMA AfterWaitInv ==
  ASSUME Inv, End \/ Return
  PROVE  Inv'
<1> USE DEF Inv
<1>0. /\ UNCHANGED <<turn, tool, fiber, broken, store, closed>>
      /\ main.closing = {} /\ Running
  BY DEF End, Return, At, stored, Running
<1>1. CASE End
  <2>1. PICK closing \in SUBSET Calls :
          /\ closing \in {{}, Unsettled(FALSE), Unsettled(TRUE)}
          /\ main.exit = "success" => closing \in {Unsettled(FALSE), Unsettled(TRUE)}
          /\ main' = [main EXCEPT !.pc = "return", !.closing = closing]
    <3>1. Unsettled(FALSE) \in SUBSET Calls /\ Unsettled(TRUE) \in SUBSET Calls
      BY DEF Unsettled
    <3>2. CASE pub.provider
      BY <1>1, <3>1, <3>2 DEF End
    <3>3. CASE ~pub.provider /\ main.exit = "success"
      BY <1>1, <3>1, <3>3 DEF End
    <3>4. CASE ~pub.provider /\ main.exit # "success"
      BY <1>1, <3>4 DEF End
    <3> QED BY <3>2, <3>3, <3>4
  <2>2. main.pc = "end"
    BY <1>1 DEF End, At
  <2>3. main' \in Runner
    BY <2>1 DEF Typed, Runner, Phases
  <2>4. /\ main'.exit = main.exit /\ main'.closing = closing /\ main'.settled = main.settled
        /\ main'.pc = "return" /\ main'.outcome = main.outcome
    BY <2>1 DEF Typed, Runner
  <2>5. RunnerSound' /\ Running' /\ NothingRuns'
    BY <2>2, <2>4 DEF RunnerSound, Running, NothingRuns
  <2>6. ASSUME ~turn.disabled PROVE ClosingSound' /\ WaitOver'
    <3>1. ClosingSound'
      BY <1>0, <2>1, <2>4 DEF ClosingSound, Unsettled
    <3>2. Whole => \A c \in Local : ~(tool[c].called /\ ~tool[c].settled)
      BY <1>0, <2>2, <2>6 DEF Enabled, WaitOver
    <3>3. main.exit = "success" => \A c \in Hosted : tool[c].called /\ ~tool[c].settled => c \in closing
      <4> SUFFICES ASSUME main.exit = "success", NEW c \in Hosted, tool[c].called, ~tool[c].settled
                   PROVE  c \in closing
        OBVIOUS
      <4>1. c \in Calls /\ tool[c].known
        BY <2>6, HostedAssumption DEF Enabled, FlagsSound
      <4>2. c \in Unsettled(FALSE) /\ c \in Unsettled(TRUE)
        BY <4>1 DEF Unsettled
      <4> QED BY <2>1, <4>2
    <3>4. WaitOver'
      BY <1>0, <2>4, <3>2, <3>3 DEF WaitOver, Whole, Local
    <3> QED BY <3>1, <3>4
  <2> QED BY <1>0, <2>2, <2>3, <2>4, <2>5, <2>6, RunnerInv DEF Whole
<1>2. CASE Return
  <2>1. PICK outcome \in {"failed", "interrupted", "continue", "stop"} :
          /\ main' = [main EXCEPT !.pc = "leave", !.outcome = outcome]
          /\ outcome \in {"continue", "stop"} =>
               main.exit \notin {"error", "overflow", "defect"} /\ ~Halted
    <3>1. CASE main.exit \in {"error", "overflow", "defect"}
      BY <1>2, <3>1 DEF Return
    <3>2. CASE main.exit \notin {"error", "overflow", "defect"} /\ Halted
      BY <1>2, <3>2 DEF Return
    <3>3. CASE main.exit \notin {"error", "overflow", "defect"} /\ ~Halted
      BY <1>2, <3>3 DEF Return
    <3> QED BY <3>1, <3>2, <3>3
  <2>2. main.pc = "return"
    BY <1>2 DEF Return, At
  <2>3. main' \in Runner
    BY <2>1 DEF Typed, Runner, Phases, Outcomes
  <2>4. /\ main'.exit = main.exit /\ main'.closing = {} /\ main'.settled = main.settled
        /\ main'.pc = "leave" /\ main'.outcome = outcome
    BY <1>0, <2>1 DEF Typed, Runner
  <2>5. RunnerSound' /\ ClosingSound' /\ WaitOver' /\ Running'
    BY <2>2, <2>4 DEF RunnerSound, Running, ClosingSound, WaitOver
  <2>6. ASSUME ~turn.disabled PROVE NothingRuns'
    <3> SUFFICES ASSUME outcome \in {"continue", "stop"}
                 PROVE  \A c \in Calls : store[c] # "running"
      BY <1>0, <2>4 DEF NothingRuns
    <3>1. Whole /\ main.exit = "success"
      BY <1>0, <2>1, <2>2 DEF Whole, Halted, RunnerSound, Typed, Runner, Exits
    <3>2. \A c \in Calls : ~(tool[c].called /\ ~tool[c].settled)
      BY <1>0, <2>2, <2>6, <3>1 DEF Enabled, WaitOver
    <3> QED BY <1>0, <2>6, <3>1, <3>2 DEF Enabled, RunningOwed, Whole
  <2> QED BY <1>0, <2>2, <2>3, <2>4, <2>5, <2>6, RunnerInv DEF Whole
<1> QED BY <1>1, <1>2

\* What follows the turn.
LEMMA FollowingInv ==
  ASSUME Inv, Continue \/ NewDrain \/ Recovered
  PROVE  Inv'
<1> USE DEF Inv
<1>0. UNCHANGED <<turn, tool, fiber, broken, store, closed>> /\ ~Running
  BY DEF Continue, NewDrain, Recovered, stored, Running
<1>1. PICK pc \in {"recovering", "next"} :
        /\ main' = [main EXCEPT !.pc = pc]
        /\ pc = "next" => \/ main.pc = "ended" /\ main.outcome \in {"continue", "stop"}
                          \/ \A c \in Calls : ~Open(c)
  BY DEF Continue, NewDrain, Recovered, Goto
<1>2. main' \in Runner
  BY <1>1 DEF Typed, Runner, Phases
<1>3. main'.pc = pc /\ main'.closing = main.closing /\ main'.exit = main.exit
  BY <1>1 DEF Typed, Runner
<1>4. RunnerSound' /\ ~Running'
  BY <1>3 DEF RunnerSound, Running
<1>5. ASSUME ~turn.disabled PROVE ClosingSound' /\ WaitOver' /\ NothingRuns'
  <2>1. main.closing = {}
    BY <1>0, <1>5 DEF Enabled, ClosingSound, Running
  <2>2. ClosingSound' /\ WaitOver'
    BY <1>3, <2>1 DEF ClosingSound, WaitOver
  <2>3. NothingRuns'
    BY <1>0, <1>1, <1>3, <1>5 DEF Enabled, NothingRuns, Open
  <2> QED BY <2>2, <2>3
<1> QED BY <1>0, <1>2, <1>3, <1>4, <1>5, RunnerInv

\* A step of the runner that clears the fibers.
LEMMA ClearedInv ==
  ASSUME Inv, UNCHANGED <<turn, tool, broken, store, closed>>, Cleared,
         main' \in Runner, RunnerSound', Running' => Running /\ ~Whole',
         main'.pc # "stream", main'.exit = main.exit,
         ~turn.disabled => ClosingSound' /\ WaitOver' /\ NothingRuns'
  PROVE  Inv'
<1> USE DEF Inv
<1>1. /\ fiber' \in [Local -> {"none", "working", "done", "failing", "gone"}]
      /\ \A c \in Local : fiber'[c] = IF c \in Alive THEN "gone" ELSE fiber[c]
  BY DEF Cleared, Typed
<1>2. Typed'
  BY <1>1 DEF Typed
<1>3. Alive' = {}
  BY <1>1 DEF Alive
<1>4. ASSUME ~turn.disabled PROVE Enabled'
  <2>1. ClosedOnce' /\ FlagsSound'
    BY <1>4 DEF Enabled, ClosedOnce, FlagsSound, Open
  <2>2. FibersSound'
    BY <1>3 DEF FibersSound
  <2>3. RunningOwed'
    <3>1. \A c \in Local : fiber[c] # "none" => fiber'[c] # "none"
      BY <1>1
    <3> QED BY <1>4, <3>1 DEF Enabled, RunningOwed
  <2> QED BY <1>4, <2>1, <2>2, <2>3 DEF Enabled
<1> QED BY <1>2, <1>4

\* The steps of the runner that may clear the fibers: after an interrupt of the stream,
\* after the wait, and at the end of the turn.
LEMMA ClearingInv ==
  ASSUME Inv, Clear \/ Settle \/ Leave
  PROVE  Inv'
<1> USE DEF Inv
<1>0. UNCHANGED <<turn, tool, broken, store, closed>> /\ main.closing = {} /\ Running
  BY DEF Clear, Settle, Leave, At, stored, Running
<1>1. CASE Clear
  <2>1. /\ main.pc = "clear" /\ main' = [main EXCEPT !.pc = "await"]
        /\ IF main.exit = "interrupt" THEN Cleared ELSE fiber' = fiber
    BY <1>1 DEF Clear, At, Goto
  <2>2. main' \in Runner
    BY <2>1 DEF Typed, Runner, Phases
  <2>3. /\ main'.exit = main.exit /\ main'.closing = {} /\ main'.settled = main.settled
        /\ main'.pc = "await" /\ main'.outcome = main.outcome
    BY <1>0, <2>1 DEF Typed, Runner
  <2>4. RunnerSound' /\ ClosingSound' /\ WaitOver' /\ NothingRuns' /\ Running'
    BY <2>1, <2>3 DEF RunnerSound, Running, ClosingSound, WaitOver, NothingRuns
  <2>5. CASE main.exit = "interrupt"
    BY <1>0, <2>1, <2>2, <2>3, <2>4, <2>5, ClearedInv DEF Whole
  <2>6. CASE main.exit # "interrupt"
    BY <1>0, <2>1, <2>2, <2>3, <2>4, <2>6, RunnerInv DEF Whole
  <2> QED BY <2>5, <2>6
<1>2. CASE Leave
  <2>1. main.pc = "leave" /\ main' = [main EXCEPT !.pc = "ended"] /\ Cleared
    BY <1>2 DEF Leave, At, Goto
  <2>2. main' \in Runner
    BY <2>1 DEF Typed, Runner, Phases
  <2>3. main'.exit = main.exit /\ main'.closing = {} /\ main'.pc = "ended" /\ main'.outcome = main.outcome
    BY <1>0, <2>1 DEF Typed, Runner
  <2>4. RunnerSound' /\ ClosingSound' /\ WaitOver' /\ ~Running'
    BY <2>3 DEF RunnerSound, Running, ClosingSound, WaitOver
  <2>5. ~turn.disabled => NothingRuns'
    BY <1>0, <2>1, <2>3 DEF Enabled, NothingRuns
  <2> QED BY <1>0, <2>1, <2>2, <2>3, <2>4, <2>5, ClearedInv
<1>3. CASE Settle
  <2> DEFINE broke == main.settled = "declined" \/ Halted
             closing == IF main.settled = "success" /\ ~Halted THEN {} ELSE Unsettled(FALSE)
             pc == IF main.settled = "declined" THEN "decline" ELSE IF Halted THEN "halt" ELSE "end"
  <2>1. /\ main.pc = "settle" /\ IF broke THEN Cleared ELSE fiber' = fiber
        /\ main' = [main EXCEPT !.pc = pc, !.closing = closing]
    BY <1>3 DEF Settle, At
  <2>2. closing \in SUBSET Calls /\ pc \in {"decline", "halt", "end"}
    BY DEF Unsettled
  <2>3. /\ Halted <=> main.exit = "interrupt" \/ main.settled = "interrupt"
        /\ pc = "decline" <=> main.settled = "declined"
        /\ pc = "end" <=> ~broke
    BY DEF Halted
  <2>a. closing \in {{}, Unsettled(FALSE)}
    OBVIOUS
  <2>b. ~broke /\ closing = {} => main.settled = "success" \/ Unsettled(FALSE) = {}
    OBVIOUS
  <2> HIDE DEF closing, pc
  <2>4. main' \in Runner
    BY <2>1, <2>2 DEF Typed, Runner, Phases
  <2>5. /\ main'.exit = main.exit /\ main'.closing = closing /\ main'.settled = main.settled
        /\ main'.pc = pc /\ main'.outcome = main.outcome
    BY <2>1 DEF Typed, Runner
  <2>6. RunnerSound' /\ Running' /\ NothingRuns'
    BY <2>1, <2>2, <2>3, <2>5 DEF RunnerSound, Running, NothingRuns, Whole
  <2>7. ClosingSound'
    BY <1>0, <2>2, <2>5, <2>a DEF ClosingSound, Unsettled
  <2>8. CASE broke
    <3>1. ~Whole'
      BY <2>3, <2>5, <2>8 DEF Whole
    <3>2. WaitOver'
      BY <2>2, <2>3, <2>5, <2>8 DEF WaitOver
    <3> QED BY <1>0, <2>1, <2>2, <2>4, <2>5, <2>6, <2>7, <2>8, <3>1, <3>2, ClearedInv
  <2>9. CASE ~broke
    <3>1. ASSUME ~turn.disabled PROVE WaitOver'
      <4> SUFFICES ASSUME NEW c \in Local, tool[c].called, ~tool[c].settled
                   PROVE  c \in closing
        BY <1>0, <2>3, <2>5, <2>9 DEF WaitOver
      <4>1. c \in Calls /\ tool[c].known
        BY <3>1 DEF Local, Enabled, FlagsSound
      <4>2. c \in Unsettled(FALSE)
        BY <4>1 DEF Unsettled
      <4>3. CASE main.settled = "success"
        <5>1. Whole /\ broken = "none" /\ Alive = {}
          BY <2>1, <2>3, <2>9, <3>1, <4>3 DEF Enabled, WaitOver, Whole
        <5>2. fiber[c] # "none" /\ c \notin Alive
          BY <1>0, <3>1, <5>1 DEF Enabled, RunningOwed, Whole
        <5>3. fiber[c] = "gone"
          BY <5>2 DEF Alive, Typed
        <5> QED BY <1>0, <3>1, <5>1, <5>3 DEF Enabled, RunningOwed, Whole
      <4>4. CASE main.settled # "success"
        BY <2>a, <2>b, <2>9, <4>2, <4>4
      <4> QED BY <4>3, <4>4
    <3> QED BY <1>0, <2>1, <2>2, <2>3, <2>4, <2>5, <2>6, <2>7, <2>9, <3>1, RunnerInv DEF Whole
  <2> QED BY <2>8, <2>9
<1> QED BY <1>1, <1>2, <1>3

-----------------------------------------------------------------------------
(* Settlement.                                                                 *)

\* Settling a call keeps the types.
LEMMA SettlementTyped ==
  ASSUME Typed, NEW c \in Calls, turn' = turn, main' \in Runner,
         tool' = [tool EXCEPT ![c] = [@ EXCEPT !.settled = TRUE]],
         closed' = [closed EXCEPT ![c] = @ + 1],
         NEW state \in {"none", "pending", "running", "completed", "error"},
         store' = [store EXCEPT ![c] = state],
         \/ fiber' = fiber
         \/ c \in Local /\ fiber' = [fiber EXCEPT ![c] = "gone"]
  PROVE  Typed'
<1>1. [tool[c] EXCEPT !.settled = TRUE] \in [known : BOOLEAN, called : BOOLEAN, settled : BOOLEAN]
  BY DEF Typed
<1>2. tool' \in [Calls -> [known : BOOLEAN, called : BOOLEAN, settled : BOOLEAN]]
  BY <1>1 DEF Typed
<1>3. closed' \in [Calls -> Nat]
  BY DEF Typed
<1>4. store' \in [Calls -> {"none", "pending", "running", "completed", "error"}]
  BY DEF Typed
<1>5. fiber' \in [Local -> {"none", "working", "done", "failing", "gone"}]
  BY DEF Typed
<1>6. turn'.disabled \in BOOLEAN
  BY DEF Typed
<1> QED BY <1>2, <1>3, <1>4, <1>5, <1>6 DEF Typed

\* A call that was not settled is: by the provider, by its fiber or by the runner.
LEMMA SettlementInv ==
  ASSUME Inv, NEW c \in Calls, Running, ~tool[c].settled, tool[c].known,
         UNCHANGED <<turn, broken>>,
         tool' = [tool EXCEPT ![c] = [@ EXCEPT !.settled = TRUE]],
         closed' = [closed EXCEPT ![c] = @ + 1],
         NEW state \in {"none", "pending", "running", "completed", "error"},
         store' = [store EXCEPT ![c] = state],
         main' \in {main, [main EXCEPT !.closing = @ \ {c}]},
         main.closing # {} => main'.closing = main.closing \ {c},
         \/ fiber' = fiber
         \/ c \in Local /\ fiber' = [fiber EXCEPT ![c] = "gone"],
         ~turn.disabled => /\ state \notin {"pending", "running"}
                           /\ main.pc = "stream" => tool[c].called
  PROVE  Inv'
<1> USE DEF Inv
<1>1. /\ tool'[c].settled /\ tool'[c].known = tool[c].known /\ tool'[c].called = tool[c].called
      /\ \A d \in Calls \ {c} : tool'[d] = tool[d] /\ store'[d] = store[d] /\ closed'[d] = closed[d]
      /\ store'[c] = state /\ closed'[c] = closed[c] + 1
  BY DEF Typed
<1>2. /\ main' \in Runner
      /\ main'.pc = main.pc /\ main'.exit = main.exit /\ main'.settled = main.settled
      /\ main'.outcome = main.outcome /\ main'.closing = main.closing \ {c}
  BY DEF Typed, Runner
<1>3. Typed'
  BY <1>2, SettlementTyped
<1>4. RunnerSound' /\ Running' /\ (Whole' <=> Whole)
  BY <1>2 DEF RunnerSound, Running, Whole
<1>5. Alive' \subseteq Alive /\ \A d \in Local \ {c} : fiber'[d] = fiber[d]
  BY DEF Alive, Typed
<1>6. ASSUME ~turn.disabled PROVE Enabled'
  <2>1. closed[c] = 0
    BY <1>6, NotClosed DEF Enabled
  <2>2. ClosingSound'
    BY <1>1, <1>2, <1>6 DEF Enabled, ClosingSound, Typed, Runner
  <2>3. ClosedOnce'
    BY <1>1, <1>4, <1>6, <2>1 DEF Enabled, ClosedOnce, Open
  <2>4. FlagsSound'
    BY <1>1, <1>2, <1>6 DEF Enabled, FlagsSound
  <2>5. FibersSound'
    <3> SUFFICES ASSUME NEW d \in Alive'
                 PROVE  tool'[d].called /\ (tool'[d].settled \/ store'[d] = "running")
      BY <1>4 DEF FibersSound
    <3>1. d \in Alive /\ d \in Calls
      BY <1>5 DEF Alive, Local
    <3> QED BY <1>1, <1>6, <3>1 DEF Enabled, FibersSound
  <2>6. RunningOwed'
    <3>1. \A d \in Local : fiber[d] # "none" => fiber'[d] # "none"
      BY DEF Typed
    <3>2. \A d \in Local : d # c /\ fiber'[d] = "gone" => fiber[d] = "gone"
      BY <1>5
    <3>3. \A d \in Local : d \in Calls
      BY DEF Local
    <3> QED BY <1>1, <1>2, <1>4, <1>6, <3>1, <3>2, <3>3 DEF Enabled, RunningOwed
  <2>7. WaitOver'
    <3>1. \A d \in Local : d \in Calls
      BY DEF Local
    <3> QED BY <1>1, <1>2, <1>4, <1>5, <1>6, <3>1 DEF Enabled, WaitOver
  <2>8. NothingRuns'
    BY <1>1, <1>2, <1>6 DEF Enabled, NothingRuns
  <2> QED BY <1>6, <2>2, <2>3, <2>4, <2>5, <2>6, <2>7, <2>8 DEF Enabled
<1> QED BY <1>3, <1>4, <1>6

\* A fiber moves on or ends; one that ends without a settled result has broken.
LEMMA FiberInv ==
  ASSUME Inv, NEW c \in Local, c \in Alive, UNCHANGED <<turn, main, tool, store, closed>>,
         NEW stage \in {"done", "failing", "gone"}, fiber' = [fiber EXCEPT ![c] = stage],
         broken' = "none" => broken = "none",
         stage = "gone" => tool[c].settled \/ broken' # "none"
  PROVE  Inv'
<1> USE DEF Inv
<1>1. /\ Alive' \subseteq Alive /\ fiber'[c] = stage
      /\ \A d \in Local \ {c} : fiber'[d] = fiber[d]
  BY DEF Alive, Typed
<1>2. Typed' /\ RunnerSound'
  BY DEF Typed, RunnerSound, Running, Whole
<1>3. ASSUME ~turn.disabled PROVE Enabled'
  <2>1. ClosingSound' /\ ClosedOnce' /\ FlagsSound' /\ NothingRuns'
    BY <1>3 DEF Enabled, ClosingSound, ClosedOnce, FlagsSound, NothingRuns, Open, Running
  <2>2. FibersSound'
    BY <1>1, <1>3 DEF Enabled, FibersSound, Running
  <2>3. RunningOwed'
    BY <1>1, <1>3 DEF Enabled, RunningOwed, Running, Whole
  <2>4. WaitOver'
    BY <1>1, <1>3 DEF Enabled, WaitOver, Whole
  <2> QED BY <1>3, <2>1, <2>2, <2>3, <2>4 DEF Enabled
<1> QED BY <1>2, <1>3

\* One round of the loop that fails what is not settled.
LEMMA CloseInv ==
  ASSUME Inv, NEW c \in Calls, Close(c)
  PROVE  Inv'
<1> USE DEF Inv
<1>0. /\ UNCHANGED <<turn, broken, fiber>> /\ c \in main.closing
      /\ main' = [main EXCEPT !.closing = @ \ {c}]
      /\ tool' = [tool EXCEPT ![c] = [@ EXCEPT !.settled = TRUE]]
      /\ closed' = [closed EXCEPT ![c] = @ + 1]
      /\ store' = [store EXCEPT ![c] = IF Open(c) THEN "error" ELSE @]
  BY DEF Close, StoreFailed
<1> DEFINE state == IF Open(c) THEN "error" ELSE store[c]
<1>1. /\ state \in {"none", "pending", "running", "completed", "error"}
      /\ state \notin {"pending", "running"}
      /\ store' = [store EXCEPT ![c] = state]
  BY <1>0 DEF Open, Typed
<1>2. main'.closing = main.closing \ {c}
  BY <1>0 DEF Typed, Runner
<1> HIDE DEF state
<1>3. CASE ~turn.disabled
  <2>1. Running /\ ~tool[c].settled /\ tool[c].known /\ main.pc # "stream"
    BY <1>0, <1>3 DEF Enabled, ClosingSound, Running
  <2> QED BY <1>0, <1>1, <1>2, <2>1, SettlementInv
<1>4. CASE turn.disabled
  <2>1. main' \in Runner /\ main'.pc = main.pc /\ main'.exit = main.exit
        /\ main'.settled = main.settled /\ main'.outcome = main.outcome
    BY <1>0 DEF Typed, Runner
  <2>2. Typed'
    BY <1>0, <1>1, <2>1, SettlementTyped
  <2>3. RunnerSound'
    BY <2>1 DEF RunnerSound, Running, Whole
  <2> QED BY <1>0, <1>4, <2>2, <2>3
<1> QED BY <1>3, <1>4 DEF Typed

\* The provider reports the result of a call of its own.
LEMMA StreamResultInv ==
  ASSUME Inv, NEW c \in Calls, StreamResult(c)
  PROVE  Inv'
<1> USE DEF Inv
<1>0. /\ UNCHANGED <<turn, broken, fiber, main>> /\ main.pc = "stream" /\ main.closing = {}
      /\ tool[c].called /\ ~tool[c].settled
      /\ tool' = [tool EXCEPT ![c] = [@ EXCEPT !.settled = TRUE]]
      /\ closed' = [closed EXCEPT ![c] = @ + 1]
      /\ StoreSuccess(c) \/ StoreFailed(c)
  BY DEF StreamResult, Streaming, StoreSuccess, StoreFailed
<1>1. PICK state \in {"none", "pending", "running", "completed", "error"} :
        /\ store' = [store EXCEPT ![c] = state]
        /\ store[c] = "running" => state \in {"completed", "error"}
  BY <1>0 DEF StoreSuccess, StoreFailed, Open, Typed
<1>2. CASE ~turn.disabled
  <2>1. Running /\ tool[c].known /\ store[c] = "running"
    BY <1>0, <1>2 DEF Running, Enabled, FlagsSound
  <2> QED BY <1>0, <1>1, <2>1, SettlementInv
<1>3. CASE turn.disabled
  <2>1. Typed'
    BY <1>0, <1>1, SettlementTyped DEF Typed
  <2>2. RunnerSound'
    BY <1>0 DEF RunnerSound, Running, Whole
  <2> QED BY <1>0, <1>3, <2>1, <2>2
<1> QED BY <1>2, <1>3 DEF Typed

\* A fiber publishes its result, or finds its call settled already.
LEMMA PublishResultInv ==
  ASSUME Inv, NEW c \in Local, PublishResult(c)
  PROVE  Inv'
<1> USE DEF Inv
<1>0. /\ UNCHANGED <<turn, main>> /\ main.closing = {} /\ c \in Alive
      /\ fiber' = [fiber EXCEPT ![c] = "gone"]
  BY DEF PublishResult, Alive
<1>a. c \in Calls
  BY DEF Local
<1>1. CASE ~tool[c].settled
  <2>1. /\ tool' = [tool EXCEPT ![c] = [@ EXCEPT !.settled = TRUE]]
        /\ closed' = [closed EXCEPT ![c] = @ + 1] /\ broken' = broken
        /\ StoreSuccess(c) \/ StoreFailed(c)
    BY <1>1 DEF PublishResult, StoreSuccess, StoreFailed
  <2>2. PICK state \in {"none", "pending", "running", "completed", "error"} :
          /\ store' = [store EXCEPT ![c] = state]
          /\ store[c] = "running" => state \in {"completed", "error"}
    BY <1>a, <2>1 DEF StoreSuccess, StoreFailed, Open, Typed
  <2>3. CASE ~turn.disabled
    <3>1. Running /\ tool[c].called /\ tool[c].known /\ store[c] = "running"
      BY <1>0, <1>a, <1>1, <2>3 DEF Enabled, FibersSound, FlagsSound
    <3> QED BY <1>0, <1>a, <1>1, <2>1, <2>2, <3>1, SettlementInv
  <2>4. CASE turn.disabled
    <3>1. Typed'
      BY <1>0, <1>a, <2>1, <2>2, SettlementTyped DEF Typed
    <3>2. RunnerSound'
      BY <1>0 DEF RunnerSound, Running, Whole
    <3> QED BY <1>0, <2>4, <3>1, <3>2
  <2> QED BY <2>3, <2>4 DEF Typed
<1>2. CASE tool[c].settled
  <2>1. UNCHANGED <<tool, store, closed>> /\ (broken' = "none" => broken = "none")
    BY <1>2 DEF PublishResult
  <2> QED BY <1>0, <1>a, <1>2, <2>1, FiberInv
<1> QED BY <1>1, <1>2, <1>a DEF Typed

-----------------------------------------------------------------------------
(* Calls, interrupts and what follows a crash.                                 *)

\* A call is known and under way; where tools are enabled a local one gets its fiber.
LEMMA StreamCallInv ==
  ASSUME Inv, NEW c \in Calls, StreamCall(c)
  PROVE  Inv'
<1> USE DEF Inv
<1>0. /\ UNCHANGED <<turn, broken, closed>> /\ main.pc = "stream" /\ main.closing = {}
      /\ ~tool[c].called
      /\ tool' = [tool EXCEPT ![c] = [@ EXCEPT !.known = TRUE, !.called = TRUE]]
      /\ store' = [store EXCEPT ![c] = "running"]
      /\ fiber' = IF c \in Local /\ ~turn.disabled THEN [fiber EXCEPT ![c] = "working"] ELSE fiber
      /\ \/ main' = main
         \/ turn.disabled /\ main' = [main EXCEPT !.closing = Unsettled(FALSE)']
  BY DEF StreamCall, Streaming
<1>1. /\ tool' \in [Calls -> [known : BOOLEAN, called : BOOLEAN, settled : BOOLEAN]]
      /\ tool'[c].known /\ tool'[c].called /\ tool'[c].settled = tool[c].settled
      /\ store'[c] = "running"
      /\ \A d \in Calls \ {c} : tool'[d] = tool[d] /\ store'[d] = store[d]
  <2>1. [tool[c] EXCEPT !.known = TRUE, !.called = TRUE] \in [known : BOOLEAN, called : BOOLEAN, settled : BOOLEAN]
    BY DEF Typed
  <2> QED BY <1>0, <2>1 DEF Typed
<1>2. main' \in Runner
  <2>1. Unsettled(FALSE)' \in SUBSET Calls
    BY DEF Unsettled
  <2> QED BY <1>0, <2>1 DEF Typed, Runner
<1>3. Typed'
  BY <1>0, <1>1, <1>2 DEF Typed
<1>4. RunnerSound'
  BY <1>0 DEF RunnerSound, Running, Whole, Typed, Runner
<1>5. ASSUME ~turn.disabled PROVE Enabled'
  <2>0. main' = main /\ Running
    BY <1>0, <1>5 DEF Running
  <2>1. ~tool[c].settled
    BY <1>0, <1>5 DEF Enabled, FlagsSound
  <2>2. closed[c] = 0
    BY <1>5, <2>0, <2>1, NotClosed DEF Enabled
  <2>3. ClosingSound' /\ FlagsSound'
    BY <1>0, <1>1, <1>5, <2>0, <2>1 DEF Enabled, ClosingSound, FlagsSound
  <2>4. ClosedOnce'
    BY <1>0, <1>1, <1>5, <2>0, <2>2 DEF Enabled, ClosedOnce, Open, Running
  <2>5. /\ \A d \in Local \ {c} : fiber'[d] = fiber[d]
        /\ c \in Local => fiber'[c] = "working"
    BY <1>0, <1>5 DEF Typed
  <2>6. FibersSound'
    <3> SUFFICES ASSUME NEW d \in Alive'
                 PROVE  tool'[d].called /\ (tool'[d].settled \/ store'[d] = "running")
      BY <2>0 DEF FibersSound, Running
    <3>1. d = c \/ (d \in Alive /\ d \in Calls)
      BY <2>5 DEF Alive, Local
    <3> QED BY <1>1, <1>5, <3>1 DEF Enabled, FibersSound
  <2>7. RunningOwed'
    <3>1. \A d \in Local : d \in Calls
      BY DEF Local
    <3> QED BY <1>0, <1>1, <1>5, <2>0, <2>1, <2>5, <3>1 DEF Enabled, RunningOwed, Running, Whole
  <2>8. WaitOver' /\ NothingRuns'
    BY <1>0, <2>0 DEF WaitOver, NothingRuns
  <2> QED BY <2>3, <2>4, <2>6, <2>7, <2>8 DEF Enabled
<1> QED BY <1>0, <1>3, <1>4, <1>5

\* An interrupt that cuts off an event of one call ends the stream, flags and store apart.
LEMMA CutInv ==
  ASSUME Inv, NEW c \in Calls, main.pc = "stream", Cut, UNCHANGED <<turn, broken, fiber, closed>>,
         NEW flags \in [known : BOOLEAN, called : BOOLEAN, settled : BOOLEAN],
         tool' = [tool EXCEPT ![c] = flags],
         NEW state \in {"none", "pending", "running", "completed", "error"},
         store' = [store EXCEPT ![c] = state],
         flags.known, tool[c].called => flags.called, tool[c].settled => flags.settled,
         state = store[c] \/ ~tool[c].called
  PROVE  Inv'
<1> USE DEF Inv
<1>1. /\ main' \in Runner /\ main'.pc = "recover" /\ main'.exit = "interrupt" /\ main'.closing = {}
      /\ main'.settled = main.settled /\ main'.outcome = main.outcome
  BY DEF Cut, Typed, Runner, Phases, Exits
<1>2. tool'[c] = flags /\ store'[c] = state /\ \A d \in Calls \ {c} : tool'[d] = tool[d] /\ store'[d] = store[d]
  BY DEF Typed
<1>3. Typed'
  BY <1>1 DEF Typed
<1>4. RunnerSound' /\ Running' /\ Running
  BY <1>1 DEF RunnerSound, Running, Whole
<1>5. ASSUME ~turn.disabled PROVE Enabled'
  <2>1. ClosingSound' /\ FlagsSound' /\ RunningOwed' /\ WaitOver' /\ NothingRuns'
    BY <1>1, <1>2, <1>5 DEF Enabled, ClosingSound, FlagsSound, RunningOwed, WaitOver, NothingRuns, Whole
  <2>2. ClosedOnce'
    <3>1. ~tool[c].called => closed[c] = 0
      BY <1>4, <1>5, NotClosed DEF Enabled, FlagsSound
    <3> QED BY <1>2, <1>4, <1>5, <3>1 DEF Enabled, ClosedOnce, Open
  <2>3. FibersSound'
    <3> SUFFICES ASSUME NEW d \in Alive
                 PROVE  tool'[d].called /\ (tool'[d].settled \/ store'[d] = "running")
      BY <1>4 DEF FibersSound, Alive
    <3>1. d \in Calls
      BY DEF Alive, Local
    <3> QED BY <1>2, <1>5, <3>1 DEF Enabled, FibersSound
  <2> QED BY <2>1, <2>2, <2>3 DEF Enabled
<1> QED BY <1>3, <1>4, <1>5

\* The three places of the stream where an interrupt finds an event under way.
LEMMA CutsInv ==
  ASSUME Inv, CutStep \/ InterruptStream \/ \E c \in Calls : CutCall(c) \/ CutSettlement(c)
  PROVE  Inv'
<1> USE DEF Inv
<1>1. CASE CutStep \/ InterruptStream
  <2>1. /\ main.pc = "stream" /\ UNCHANGED <<turn, tool, fiber, broken, store, closed>>
        /\ main' = [main EXCEPT !.pc = "recover", !.exit = "interrupt", !.closing = {}]
    BY <1>1 DEF CutStep, InterruptStream, Streaming, Cut, stored
  <2> QED BY <2>1, StreamEndsInv DEF Exits
<1>2. ASSUME NEW c \in Calls, CutCall(c) PROVE Inv'
  <2>1. PICK called \in BOOLEAN, state \in {"none", "pending", "running"} :
          /\ tool' = [tool EXCEPT ![c] = [@ EXCEPT !.known = TRUE, !.called = called]]
          /\ store' = [store EXCEPT ![c] = state]
    BY <1>2 DEF CutCall
  <2>2. /\ main.pc = "stream" /\ Cut /\ ~tool[c].called
        /\ UNCHANGED <<turn, broken, fiber, closed>>
    BY <1>2 DEF CutCall, Streaming
  <2> DEFINE flags == [tool[c] EXCEPT !.known = TRUE, !.called = called]
  <2>3. /\ flags \in [known : BOOLEAN, called : BOOLEAN, settled : BOOLEAN]
        /\ flags.known /\ flags.settled = tool[c].settled
    BY DEF Typed
  <2>4. tool' = [tool EXCEPT ![c] = flags]
    BY <2>1
  <2>5. state \in {"none", "pending", "running", "completed", "error"}
    OBVIOUS
  <2> HIDE DEF flags
  <2> QED BY <2>1, <2>2, <2>3, <2>4, <2>5, CutInv
<1>3. ASSUME NEW c \in Calls, CutSettlement(c) PROVE Inv'
  <2>1. /\ main.pc = "stream" /\ Cut /\ UNCHANGED <<turn, broken, fiber, closed, store>>
        /\ tool' = [tool EXCEPT ![c] = [@ EXCEPT !.settled = TRUE]]
        /\ tool[c].called \/ c \in main.closing
    BY <1>3 DEF CutSettlement, stored
  <2>2. CASE turn.disabled
    <3>1. main' \in Runner /\ RunnerSound'
      BY <2>1 DEF Cut, Typed, Runner, Phases, Exits, RunnerSound, Running, Whole
    <3>2. tool' \in [Calls -> [known : BOOLEAN, called : BOOLEAN, settled : BOOLEAN]]
      BY <2>1 DEF Typed
    <3> QED BY <2>1, <2>2, <3>1, <3>2 DEF Typed
  <2>3. CASE ~turn.disabled
    <3> DEFINE flags == [tool[c] EXCEPT !.settled = TRUE]
    <3>1. tool[c].known
      BY <2>1, <2>3 DEF Enabled, FlagsSound, ClosingSound
    <3>2. /\ flags \in [known : BOOLEAN, called : BOOLEAN, settled : BOOLEAN]
          /\ flags.known /\ flags.called = tool[c].called /\ flags.settled
      BY <3>1 DEF Typed
    <3>3. /\ tool' = [tool EXCEPT ![c] = flags]
          /\ store' = [store EXCEPT ![c] = store[c]]
          /\ store[c] \in {"none", "pending", "running", "completed", "error"}
      BY <2>1 DEF Typed
    <3> HIDE DEF flags
    <3> QED BY <2>1, <3>2, <3>3, CutInv
  <2> QED BY <2>2, <2>3 DEF Typed
<1> QED BY <1>1, <1>2, <1>3

\* A tool returns or breaks.
LEMMA ToolInv ==
  ASSUME Inv, NEW c \in Local, ToolStep(c)
  PROVE  Inv'
<1>1. CASE \E result \in {"done", "failing"} : ToolReturns(c, result)
  BY <1>1, FiberInv DEF ToolReturns, Alive, stored
<1>2. CASE \E how \in {"declined", "failed"} : ToolBreaks(c, how)
  BY <1>2, FiberInv DEF ToolBreaks, Alive, stored
<1> QED BY <1>1, <1>2 DEF ToolStep

\* After the turn: a drain that recovers closes open calls, a crash leaves only what is stored.
LEMMA LaterInv ==
  ASSUME Inv, Crash \/ \E c \in Calls : RecoverCall(c)
  PROVE  Inv'
<1> USE DEF Inv
<1>1. CASE Crash
  <2>1. /\ main' = [pc |-> "ended", exit |-> "none", closing |-> {}, outcome |-> "lost", settled |-> "none"]
        /\ UNCHANGED <<turn, store, closed>>
        /\ tool' = [c \in Calls |-> Unknown] /\ fiber' = [c \in Local |-> "none"]
    BY <1>1 DEF Crash, Idle, stored
  <2>2. Typed'
    <3>1. main' \in Runner
      BY <2>1 DEF Runner, Phases, Exits, Outcomes
    <3>2. tool' \in [Calls -> [known : BOOLEAN, called : BOOLEAN, settled : BOOLEAN]]
      BY <2>1 DEF Unknown
    <3>3. fiber' \in [Local -> {"none", "working", "done", "failing", "gone"}]
      BY <2>1
    <3> QED BY <2>1, <3>1, <3>2, <3>3 DEF Typed
  <2>3. RunnerSound' /\ ~Running'
    BY <2>1 DEF RunnerSound, Running
  <2>4. Alive' = {} /\ \A c \in Calls : tool'[c] = Unknown
    BY <2>1 DEF Alive
  <2>5. ASSUME ~turn.disabled PROVE Enabled'
    BY <2>1, <2>3, <2>4, <2>5 DEF Enabled, ClosingSound, ClosedOnce, FlagsSound, FibersSound,
       RunningOwed, WaitOver, NothingRuns, Open, Unknown
  <2> QED BY <2>1, <2>2, <2>3, <2>5
<1>2. ASSUME NEW c \in Calls, RecoverCall(c) PROVE Inv'
  <2>1. /\ main.pc = "recovering" /\ Open(c) /\ UNCHANGED <<turn, main, tool, fiber, broken>>
        /\ closed' = [closed EXCEPT ![c] = @ + 1]
        /\ store' = [store EXCEPT ![c] = "error"]
    BY <1>2 DEF RecoverCall, StoreFailed, volatile
  <2>2. /\ closed'[c] = closed[c] + 1 /\ store'[c] = "error"
        /\ \A d \in Calls \ {c} : closed'[d] = closed[d] /\ store'[d] = store[d]
    BY <2>1 DEF Typed
  <2>3. Typed'
    <3>1. closed' \in [Calls -> Nat]
      BY <2>1 DEF Typed
    <3>2. store' \in [Calls -> {"none", "pending", "running", "completed", "error"}]
      BY <2>1 DEF Typed
    <3> QED BY <2>1, <3>1, <3>2 DEF Typed
  <2>4. RunnerSound' /\ ~Running /\ ~Running'
    BY <2>1 DEF RunnerSound, Running, Whole
  <2>5. ASSUME ~turn.disabled PROVE Enabled'
    <3>1. closed[c] = 0
      <4>1. closed[c] \in Nat /\ closed[c] <= 1 /\ closed[c] # 1
        BY <2>1, <2>5 DEF Enabled, ClosedOnce, Typed
      <4> QED BY <4>1
    <3>2. ClosedOnce'
      BY <2>2, <2>4, <2>5, <3>1 DEF Enabled, ClosedOnce, Open
    <3>3. FibersSound'
      BY <2>1, <2>4, <2>5 DEF Enabled, FibersSound, Alive
    <3>4. ClosingSound' /\ FlagsSound' /\ RunningOwed' /\ WaitOver' /\ NothingRuns'
      BY <2>1, <2>4, <2>5 DEF Enabled, ClosingSound, FlagsSound, RunningOwed, WaitOver, NothingRuns
    <3> QED BY <3>2, <3>3, <3>4 DEF Enabled
  <2> QED BY <2>1, <2>3, <2>4, <2>5
<1> QED BY <1>1, <1>2

\* Steps that only concern the publisher's own flags, or who interrupts.
LEMMA QuietInv ==
  ASSUME Inv, UNCHANGED <<turn, main, tool, fiber, broken, store, closed>>
  PROVE  Inv'
BY DEF Inv, Typed, RunnerSound, Enabled, ClosingSound, ClosedOnce, FlagsSound, FibersSound,
   RunningOwed, WaitOver, NothingRuns, Open, Alive, Running, Whole

-----------------------------------------------------------------------------

\* Every step keeps what is said of the runner, the calls and the fibers.
LEMMA StepInv == Inv /\ [Next]_vars => Inv'
<1> SUFFICES ASSUME Inv, [Next]_vars PROVE Inv'
  OBVIOUS
<1>1. CASE MainStep
  BY <1>1, CloseInv, CutsInv, BeforeWaitInv, ClearingInv, AfterWaitInv DEF MainStep
<1>2. CASE StreamText \/ StreamFinish \/ StreamProviderError \/ Interrupt \/ UNCHANGED vars
  BY <1>2, QuietInv DEF StreamText, StreamFinish, StreamProviderError, Interrupt, vars, volatile, stored
<1>3. ASSUME NEW exit \in {"success", "error", "overflow", "defect"}, StreamEnds(exit) PROVE Inv'
  <2>1. /\ main.pc = "stream" /\ UNCHANGED <<turn, tool, fiber, broken, store, closed>>
        /\ main.closing = {} /\ main' = [main EXCEPT !.pc = "recover", !.exit = exit]
    BY <1>3 DEF StreamEnds, stored
  <2>2. main' = [main EXCEPT !.pc = "recover", !.exit = exit, !.closing = {}]
    BY <2>1 DEF Inv, Typed, Runner
  <2> QED BY <2>1, <2>2, StreamEndsInv DEF Exits
<1>4. CASE StreamStep
  BY <1>2, <1>3, <1>4, StreamInputInv, StreamCallInv, StreamResultInv, CutsInv DEF StreamStep
<1>5. ASSUME NEW c \in Local, ToolStep(c) \/ PublishResult(c) PROVE Inv'
  BY <1>5, ToolInv, PublishResultInv
<1>6. CASE Continue \/ NewDrain \/ Recovered
  BY <1>6, FollowingInv
<1>7. CASE Crash \/ \E c \in Calls : RecoverCall(c)
  BY <1>7, LaterInv
<1> QED BY <1>1, <1>2, <1>4, <1>5, <1>6, <1>7 DEF Next

\* The invariant holds in every reachable state.
LEMMA Inductive == Spec => []Inv
BY InitInv, StepInv, PTL DEF Spec

(* Where tools are enabled a call is settled at most once in the log, whoever  *)
(* comes first: the stream, its fiber, the runner or a drain that recovers.    *)
THEOREM CallsSettledOnce == Spec => []SettledOnce
<1>1. Inv => SettledOnce
  BY DEF Inv, Enabled, ClosedOnce, SettledOnce
<1> QED BY <1>1, Inductive, PTL

(* Where tools are enabled another provider turn never begins with a call of   *)
(* this one running.                                                           *)
THEOREM ResultsComeFirst == Spec => []ResultsBeforeContinuation
<1>1. Inv => ResultsBeforeContinuation
  BY DEF Inv, Enabled, NothingRuns, ResultsBeforeContinuation
<1> QED BY <1>1, Inductive, PTL

-----------------------------------------------------------------------------
(* The publisher's flags and the log of the step.                              *)

Publisher ==
  [started : BOOLEAN, active : BOOLEAN, failed : BOOLEAN, provider : BOOLEAN,
   finished : BOOLEAN, overflow : BOOLEAN, continues : BOOLEAN]

LogTyped ==
  /\ turn \in [disabled : BOOLEAN, recoverable : BOOLEAN]
  /\ interrupted \in BOOLEAN
  /\ pub \in Publisher
  /\ broken \in {"none", "declined", "failed"}
  /\ opened \in BOOLEAN
  /\ steps \in Seq({"ended", "failed"})

\* A fiber and, while the provider streams, a running call belong to a call that was made.
CalledFirst ==
  /\ \A c \in Local : fiber[c] # "none" => tool[c].called
  /\ \A c \in Calls : store[c] \in {"running", "completed"} /\ main.pc = "stream" => tool[c].called

(* Where the closing of a step stands: an open step is started, one that is    *)
(* started is active until it is finished or failed, and an interrupted turn   *)
(* comes past Halt with one of the two, so that End has its event to store.    *)
StepSound ==
  /\ Running /\ opened => pub.started
  /\ pub.started => pub.active \/ pub.finished \/ pub.failed
  /\ pub.provider => pub.failed
  /\ Running /\ main.exit = "interrupt" => interrupted
  /\ main.settled = "declined" => main.exit # "interrupt"
  /\ main.pc = "decline" => main.settled = "declined"
  /\ main.pc = "end" /\ Halted /\ opened => pub.finished \/ pub.failed
  /\ main.pc \in {"return", "leave", "ended"} /\ Halted /\ opened => steps # <<>> \/ pub.failed

StepInvariant == Inv /\ LogTyped /\ CalledFirst /\ StepSound

\* What startAssistant makes of the flags and the log.
LEMMA StartedSound ==
  ASSUME LogTyped
  PROVE  /\ Started \in Publisher
         /\ Started.started /\ Started.active = (pub.active \/ ~pub.started)
         /\ Started.failed = pub.failed /\ Started.provider = pub.provider
         /\ Started.finished = pub.finished
BY DEF Started, LogTyped, Publisher

\* What failAssistant makes of them.
LEMMA FailAssistantSound ==
  ASSUME LogTyped, NEW pubBefore \in Publisher, FailAssistant(pubBefore)
  PROVE  /\ pub' \in Publisher /\ opened' \in BOOLEAN /\ steps' \in Seq({"ended", "failed"})
         /\ pub'.failed /\ pub'.finished = pubBefore.finished /\ pub'.provider = pubBefore.provider
         /\ pubBefore.started => pub'.started
         /\ opened' => opened \/ pub'.started
         /\ steps # <<>> => steps' # <<>>
<1>1. CASE pubBefore.failed
  BY <1>1 DEF FailAssistant, LogTyped, Publisher
<1>2. CASE ~pubBefore.failed
  <2>1. /\ pub' = [pubBefore EXCEPT !.started = TRUE, !.active = FALSE, !.failed = TRUE]
        /\ opened' = (opened \/ ~pub.started)
        /\ steps' = Append(steps, "failed")
    BY <1>2 DEF FailAssistant
  <2>2. steps' \in Seq({"ended", "failed"}) /\ steps' # <<>>
    BY <2>1 DEF LogTyped
  <2>3. /\ pub' \in Publisher
        /\ pub'.failed /\ pub'.finished = pubBefore.finished /\ pub'.provider = pubBefore.provider
        /\ pub'.started
    BY <2>1 DEF Publisher
  <2> QED BY <2>1, <2>2, <2>3 DEF LogTyped, Publisher
<1> QED BY <1>1, <1>2

\* Steps that neither the publisher's flags nor the log of the step take part in.
SilentStep ==
  \/ \E c \in Calls : Close(c) \/ StreamResult(c) \/ CutSettlement(c) \/ RecoverCall(c)
  \/ \E exit \in {"success", "error", "overflow", "defect"} : StreamEnds(exit)
  \/ \E c \in Local, result \in {"done", "failing"} : ToolReturns(c, result)
  \/ InterruptStream \/ Recover \/ Clear \/ Await \/ Settle \/ Decline \/ Return \/ Leave
  \/ Continue \/ NewDrain \/ Recovered
  \/ UNCHANGED vars

\* The publisher's flags and the log of the step keep their types.
LEMMA LogTypedInv == LogTyped /\ [Next]_vars => LogTyped'
<1> SUFFICES ASSUME LogTyped, [Next]_vars PROVE LogTyped'
  OBVIOUS
<1>1. CASE SilentStep
  <2>1. UNCHANGED <<turn, interrupted, pub, broken, opened, steps>>
    BY <1>1 DEF SilentStep, Close, StreamResult, CutSettlement, RecoverCall, StreamEnds, ToolReturns,
       InterruptStream, Recover, Clear, Await, Settle, Decline, Return, Leave, Continue, NewDrain,
       Recovered, vars, volatile, stored
  <2> QED BY <2>1 DEF LogTyped
<1>2. CASE StreamText \/ StreamFinish \/ CutStep \/ \E c \in Calls : StreamInput(c) \/ StreamCall(c) \/ CutCall(c)
  <2>1. /\ UNCHANGED <<turn, interrupted, broken, steps>>
        /\ opened' = (opened \/ ~pub.started) \/ opened' = opened
    BY <1>2 DEF StreamText, StreamFinish, CutStep, StreamInput, StreamCall, CutCall, StartAssistant, stored
  <2>2. \/ pub' = Started
        \/ \E runs \in BOOLEAN : pub' = [Started EXCEPT !.continues = @ \/ runs]
        \/ pub' = [pub EXCEPT !.active = FALSE, !.finished = TRUE]
        \/ pub' = [pub EXCEPT !.provider = TRUE, !.active = FALSE, !.failed = TRUE]
    BY <1>2 DEF StreamText, StreamFinish, CutStep, StreamInput, StreamCall, CutCall, StartAssistant
  <2>3. pub' \in Publisher
    BY <2>2, StartedSound DEF LogTyped, Publisher
  <2> QED BY <2>1, <2>3 DEF LogTyped
<1>3. CASE StreamProviderError \/ Report \/ FailStep \/ Halt
  <2>1. UNCHANGED <<turn, interrupted, broken>>
    BY <1>3 DEF StreamProviderError, Report, FailStep, Halt
  <2>2. \/ pub' = [pub EXCEPT !.overflow = TRUE] /\ UNCHANGED <<opened, steps>>
        \/ FailAssistant([pub EXCEPT !.provider = TRUE])
        \/ FailAssistant(pub)
        \/ UNCHANGED <<pub, opened, steps>>
    BY <1>3 DEF StreamProviderError, Report, FailStep, Halt
  <2>3. /\ [pub EXCEPT !.overflow = TRUE] \in Publisher
        /\ [pub EXCEPT !.provider = TRUE] \in Publisher /\ pub \in Publisher
    BY DEF LogTyped, Publisher
  <2>4. pub' \in Publisher /\ opened' \in BOOLEAN /\ steps' \in Seq({"ended", "failed"})
    BY <2>2, <2>3, FailAssistantSound DEF LogTyped
  <2> QED BY <2>1, <2>4 DEF LogTyped
<1>4. CASE End
  <2>1. UNCHANGED <<turn, interrupted, broken>>
    BY <1>4 DEF End
  <2>2. \/ pub' = Started /\ opened' = (opened \/ ~pub.started) /\ steps' = Append(steps, "ended")
        \/ UNCHANGED <<pub, opened, steps>>
    BY <1>4 DEF End, StartAssistant
  <2>3. Append(steps, "ended") \in Seq({"ended", "failed"})
    BY DEF LogTyped
  <2> QED BY <2>1, <2>2, <2>3, StartedSound DEF LogTyped, Publisher
<1>5. CASE \E c \in Local : PublishResult(c) \/ \E how \in {"declined", "failed"} : ToolBreaks(c, how)
  BY <1>5 DEF PublishResult, ToolBreaks, LogTyped, stored
<1>6. CASE Interrupt
  BY <1>6 DEF Interrupt, LogTyped, volatile, stored
<1>7. CASE Crash
  <2>1. Silent \in Publisher
    BY DEF Silent, Publisher
  <2> QED BY <1>7, <2>1 DEF Crash, LogTyped, stored
<1> QED
  BY <1>1, <1>2, <1>3, <1>4, <1>5, <1>6, <1>7 DEF Next, MainStep, StreamStep, ToolStep, SilentStep

\* A call is made before its fiber runs or the store holds it running.
LEMMA CalledFirstInv == Typed /\ CalledFirst /\ [Next]_vars => CalledFirst'
<1> SUFFICES ASSUME Typed, CalledFirst, [Next]_vars PROVE CalledFirst'
  OBVIOUS
<1>0. \A c \in Local : c \in Calls
  BY DEF Local
<1>1. CASE \/ StreamText \/ StreamFinish \/ StreamProviderError \/ CutStep \/ InterruptStream
           \/ \E exit \in {"success", "error", "overflow", "defect"} : StreamEnds(exit)
           \/ Interrupt \/ UNCHANGED vars
  <2>1. UNCHANGED <<tool, fiber, store>>
    BY <1>1 DEF StreamText, StreamFinish, StreamProviderError, CutStep, InterruptStream, StreamEnds, Interrupt,
       vars, volatile, stored
  <2>2. main'.pc = "stream" => main.pc = "stream"
    BY <1>1 DEF StreamText, StreamFinish, StreamProviderError, CutStep, InterruptStream, StreamEnds, Interrupt,
       Cut, vars, volatile, Typed, Runner
  <2> QED BY <2>1, <2>2 DEF CalledFirst
<1>2. CASE Recover \/ Report \/ FailStep \/ Await \/ Decline \/ Halt \/ End \/ Return \/ Continue \/ NewDrain \/ Recovered
  <2>1. UNCHANGED <<tool, fiber, store>>
    BY <1>2 DEF Recover, Report, FailStep, Await, Decline, Halt, End, Return, Continue, NewDrain, Recovered, stored
  <2>2. main'.pc # "stream"
    BY <1>2 DEF Recover, Report, FailStep, Await, Decline, Halt, End, Return, Continue, NewDrain, Recovered,
       Goto, Typed, Runner
  <2> QED BY <2>1, <2>2 DEF CalledFirst
<1>3. CASE Clear \/ Settle \/ Leave
  <2>1. UNCHANGED <<tool, store>> /\ (Cleared \/ fiber' = fiber)
    BY <1>3 DEF Clear, Settle, Leave, stored
  <2>2. main'.pc # "stream"
    BY <1>3 DEF Clear, Settle, Leave, Goto, Typed, Runner
  <2>3. \A c \in Local : fiber'[c] # "none" => fiber[c] # "none"
    BY <2>1 DEF Cleared, Alive, Typed
  <2> QED BY <2>1, <2>2, <2>3 DEF CalledFirst
<1>4. ASSUME NEW c \in Calls, Close(c) \/ CutSettlement(c) PROVE CalledFirst'
  <2>1. /\ tool' = [tool EXCEPT ![c] = [@ EXCEPT !.settled = TRUE]]
        /\ fiber' = fiber
        /\ store' = store \/ store' = [store EXCEPT ![c] = IF Open(c) THEN "error" ELSE @]
    BY <1>4 DEF Close, CutSettlement, StoreFailed, stored
  <2>2. main'.pc = "stream" => main.pc = "stream"
    BY <1>4 DEF Close, CutSettlement, Cut, Typed, Runner
  <2>3. \A d \in Calls : tool'[d].called = tool[d].called
    BY <2>1 DEF Typed
  <2>4. \A d \in Calls : store'[d] \in {store[d], "error"}
    BY <2>1 DEF Typed
  <2> QED BY <1>0, <2>1, <2>2, <2>3, <2>4 DEF CalledFirst
<1>5. ASSUME NEW c \in Calls, StreamInput(c) PROVE CalledFirst'
  <2>1. /\ tool' = [tool EXCEPT ![c] = [@ EXCEPT !.known = TRUE]]
        /\ store' = [store EXCEPT ![c] = "pending"] /\ UNCHANGED <<fiber, main>>
    BY <1>5 DEF StreamInput
  <2>2. \A d \in Calls : tool'[d].called = tool[d].called
    BY <2>1 DEF Typed
  <2>3. \A d \in Calls : store'[d] \in {store[d], "pending"}
    BY <2>1 DEF Typed
  <2> QED BY <1>0, <2>1, <2>2, <2>3 DEF CalledFirst
<1>6. ASSUME NEW c \in Calls, StreamCall(c) PROVE CalledFirst'
  <2>1. /\ tool' = [tool EXCEPT ![c] = [@ EXCEPT !.known = TRUE, !.called = TRUE]]
        /\ store' = [store EXCEPT ![c] = "running"]
        /\ fiber' = [fiber EXCEPT ![c] = "working"] \/ fiber' = fiber
        /\ main.pc = "stream"
    BY <1>6 DEF StreamCall, Streaming
  <2>2. tool'[c].called /\ \A d \in Calls \ {c} : tool'[d] = tool[d] /\ store'[d] = store[d]
    BY <2>1 DEF Typed
  <2>3. \A d \in Local \ {c} : fiber'[d] = fiber[d]
    BY <2>1 DEF Typed
  <2> QED BY <1>0, <2>1, <2>2, <2>3 DEF CalledFirst
<1>7. ASSUME NEW c \in Calls, CutCall(c) PROVE CalledFirst'
  <2>1. PICK called \in BOOLEAN :
          /\ tool' = [tool EXCEPT ![c] = [@ EXCEPT !.known = TRUE, !.called = called]]
          /\ fiber' = fiber /\ ~tool[c].called
    BY <1>7 DEF CutCall
  <2>2. main'.pc # "stream"
    BY <1>7 DEF CutCall, Cut, Typed, Runner
  <2>3. \A d \in Calls : tool[d].called => tool'[d].called
    BY <2>1 DEF Typed
  <2> QED BY <1>0, <2>1, <2>2, <2>3 DEF CalledFirst
<1>8. ASSUME NEW c \in Calls, StreamResult(c) PROVE CalledFirst'
  <2>1. /\ tool' = [tool EXCEPT ![c] = [@ EXCEPT !.settled = TRUE]]
        /\ UNCHANGED <<fiber, main>> /\ tool[c].called
        /\ StoreSuccess(c) \/ StoreFailed(c)
    BY <1>8 DEF StreamResult
  <2>2. \A d \in Calls : tool'[d].called = tool[d].called
    BY <2>1 DEF Typed
  <2>3. \A d \in Calls \ {c} : store'[d] = store[d]
    BY <2>1 DEF Typed, StoreSuccess, StoreFailed
  <2> QED BY <1>0, <2>1, <2>2, <2>3 DEF CalledFirst
<1>9. ASSUME NEW c \in Local, ToolStep(c) PROVE CalledFirst'
  <2>1. /\ UNCHANGED <<tool, store, main>> /\ fiber[c] = "working"
        /\ \E state \in {"done", "failing", "gone"} : fiber' = [fiber EXCEPT ![c] = state]
    BY <1>9 DEF ToolStep, ToolReturns, ToolBreaks, stored
  <2>2. \A d \in Local \ {c} : fiber'[d] = fiber[d]
    BY <2>1 DEF Typed
  <2> QED BY <2>1, <2>2 DEF CalledFirst
<1>10. ASSUME NEW c \in Local, PublishResult(c) PROVE CalledFirst'
  <2>1. /\ main' = main /\ fiber[c] \in {"done", "failing"}
        /\ fiber' = [fiber EXCEPT ![c] = "gone"]
        /\ tool' = tool \/ tool' = [tool EXCEPT ![c] = [@ EXCEPT !.settled = TRUE]]
        /\ store' = store \/ StoreSuccess(c) \/ StoreFailed(c)
    BY <1>10 DEF PublishResult
  <2>2. \A d \in Calls : tool'[d].called = tool[d].called
    BY <2>1 DEF Typed
  <2>3. \A d \in Calls \ {c} : store'[d] = store[d]
    BY <2>1 DEF Typed, StoreSuccess, StoreFailed
  <2>4. \A d \in Local \ {c} : fiber'[d] = fiber[d]
    BY <2>1 DEF Typed
  <2> QED BY <1>0, <2>1, <2>2, <2>3, <2>4 DEF CalledFirst
<1>11. ASSUME NEW c \in Calls, RecoverCall(c) PROVE CalledFirst'
  BY <1>11 DEF RecoverCall, volatile, CalledFirst
<1>12. CASE Crash
  <2>1. fiber' = [c \in Local |-> "none"] /\ main'.pc = "ended"
    BY <1>12 DEF Crash, Idle
  <2> QED BY <2>1 DEF CalledFirst
<1> QED
  BY <1>1, <1>2, <1>3, <1>4, <1>5, <1>6, <1>7, <1>8, <1>9, <1>10, <1>11, <1>12 DEF Next, MainStep, StreamStep

\* Where the stream is under way nothing halts the turn yet.
LEMMA StreamNotHalted == Typed /\ RunnerSound /\ main.pc = "stream" => main.exit = "none" /\ main.settled = "none" /\ Running
BY DEF RunnerSound, Running

\* What is said of the closing of a step is kept.
LEMMA StepSoundInv == Typed /\ RunnerSound /\ LogTyped /\ StepSound /\ [Next]_vars => StepSound'
<1> SUFFICES ASSUME Typed, RunnerSound, LogTyped, StepSound, [Next]_vars PROVE StepSound'
  OBVIOUS
<1> USE DEF StepSound
<1>1. CASE \/ \E c \in Calls : Close(c) \/ StreamResult(c) \/ RecoverCall(c)
           \/ \E c \in Local : ToolStep(c) \/ PublishResult(c)
           \/ UNCHANGED vars
  <2>1. UNCHANGED <<interrupted, pub, opened, steps>>
    BY <1>1 DEF Close, StreamResult, RecoverCall, ToolStep, ToolReturns, ToolBreaks, PublishResult,
       vars, volatile, stored
  <2>2. main'.pc = main.pc /\ main'.exit = main.exit /\ main'.settled = main.settled
    BY <1>1 DEF Close, StreamResult, RecoverCall, ToolStep, ToolReturns, ToolBreaks, PublishResult,
       vars, volatile, Typed, Runner
  <2> QED BY <2>1, <2>2 DEF Halted, Running
<1>2. CASE \/ InterruptStream \/ \E c \in Calls : CutSettlement(c)
           \/ \E exit \in {"success", "error", "overflow", "defect"} : StreamEnds(exit)
  <2>1. UNCHANGED <<interrupted, pub, opened, steps>> /\ main.pc = "stream"
    BY <1>2 DEF InterruptStream, CutSettlement, StreamEnds, stored
  <2>2. /\ main'.pc = "recover" /\ main'.settled = main.settled
        /\ main'.exit = "interrupt" => interrupted
    BY <1>2 DEF InterruptStream, CutSettlement, StreamEnds, Cut, Typed, Runner
  <2> QED BY <2>1, <2>2, StreamNotHalted DEF Halted, Running
<1>3. CASE \/ StreamText \/ StreamFinish \/ StreamProviderError
           \/ \E c \in Calls : StreamInput(c) \/ StreamCall(c)
  <2>1. /\ main.pc = "stream" /\ UNCHANGED interrupted
        /\ main'.pc = "stream" /\ main'.exit = main.exit /\ main'.settled = main.settled
    <3>1. main.pc = "stream" /\ UNCHANGED interrupted
      BY <1>3 DEF StreamText, StreamFinish, StreamProviderError, StreamInput, StreamCall, Streaming
    <3>2. main' = main \/ \E closing \in {Unsettled(FALSE)'} : main' = [main EXCEPT !.closing = closing]
      BY <1>3 DEF StreamText, StreamFinish, StreamProviderError, StreamInput, StreamCall
    <3> QED BY <3>1, <3>2 DEF Typed, Runner
  <2>2. \/ /\ pub' = Started \/ \E runs \in BOOLEAN : pub' = [Started EXCEPT !.continues = @ \/ runs]
           /\ opened' = (opened \/ ~pub.started)
        \/ pub' = [pub EXCEPT !.active = FALSE, !.finished = TRUE] /\ opened' = opened
        \/ pub' = [pub EXCEPT !.overflow = TRUE] /\ opened' = opened
        \/ FailAssistant([pub EXCEPT !.provider = TRUE])
    BY <1>3 DEF StreamText, StreamFinish, StreamProviderError, StreamInput, StreamCall, StartAssistant, stored
  <2>3. [pub EXCEPT !.provider = TRUE] \in Publisher /\ [pub EXCEPT !.provider = TRUE].started = pub.started
    BY DEF LogTyped, Publisher
  <2>4. opened => pub.started
    BY <2>1, StreamNotHalted
  <2>5. CASE FailAssistant([pub EXCEPT !.provider = TRUE])
    BY <2>1, <2>3, <2>4, <2>5, StreamNotHalted, FailAssistantSound DEF Halted, Running
  <2>6. CASE ~FailAssistant([pub EXCEPT !.provider = TRUE])
    <3>1. /\ opened' => pub'.started
          /\ pub'.started => pub'.active \/ pub'.finished \/ pub'.failed
          /\ pub'.provider => pub'.failed
      <4>1. CASE \/ pub' = [pub EXCEPT !.active = FALSE, !.finished = TRUE] /\ opened' = opened
                 \/ pub' = [pub EXCEPT !.overflow = TRUE] /\ opened' = opened
        <5>1. /\ pub'.started = pub.started /\ pub'.failed = pub.failed /\ pub'.provider = pub.provider
              /\ pub'.finished \/ (pub'.active = pub.active /\ pub'.finished = pub.finished)
          BY <4>1 DEF LogTyped, Publisher
        <5> QED BY <2>4, <4>1, <5>1
      <4>2. ASSUME pub' = Started \/ \E runs \in BOOLEAN : pub' = [Started EXCEPT !.continues = @ \/ runs]
            PROVE  /\ pub'.started = Started.started /\ pub'.active = Started.active
                   /\ pub'.failed = Started.failed /\ pub'.provider = Started.provider
                   /\ pub'.finished = Started.finished
        BY <4>2, StartedSound DEF Publisher
      <4> QED BY <2>2, <2>6, <4>1, <4>2, StartedSound DEF LogTyped, Publisher
    <3> QED BY <2>1, <3>1, StreamNotHalted DEF Halted, Running
  <2> QED BY <2>5, <2>6
<1>4. CASE CutStep \/ \E c \in Calls : CutCall(c)
  <2>1. /\ main.pc = "stream" /\ interrupted' = interrupted /\ interrupted
        /\ main'.pc = "recover" /\ main'.settled = main.settled
    BY <1>4 DEF CutStep, CutCall, Streaming, Cut, Typed, Runner
  <2>2. \/ pub' = Started
        \/ pub' = [pub EXCEPT !.provider = TRUE, !.active = FALSE, !.failed = TRUE] /\ pub.started
    BY <1>4 DEF CutStep, CutCall, StartAssistant
  <2>3. /\ pub'.started => pub'.active \/ pub'.finished \/ pub'.failed
        /\ pub'.started
        /\ pub'.provider => pub'.failed
    BY <2>2, StartedSound DEF LogTyped, Publisher
  <2> QED BY <2>1, <2>3, StreamNotHalted DEF Halted, Running
<1>5. CASE Recover
  <2>1. /\ UNCHANGED <<interrupted, pub, opened, steps>> /\ main.pc = "recover"
        /\ main'.exit = main.exit /\ main'.settled = main.settled
        /\ main'.pc = "report" \/ (main'.pc = "leave" /\ ~pub.started)
    BY <1>5 DEF Recover, At, Goto, Overflowed, Typed, Runner, stored
  <2> QED BY <2>1 DEF Halted, Running
<1>6. CASE Clear \/ Leave \/ Continue \/ NewDrain \/ Recovered
  <2>1. /\ UNCHANGED <<interrupted, pub, opened, steps>>
        /\ main'.exit = main.exit /\ main'.settled = main.settled
        /\ \/ main.pc = "clear" /\ main'.pc = "await"
           \/ main.pc = "leave" /\ main'.pc = "ended"
           \/ ~Running /\ main'.pc \in {"recovering", "next"}
    BY <1>6 DEF Clear, Leave, Continue, NewDrain, Recovered, At, Goto, Typed, Runner, stored, Running
  <2> QED BY <2>1 DEF Halted, Running
<1>7. CASE Await
  <2>1. /\ UNCHANGED <<interrupted, pub, opened, steps>> /\ main.pc = "await"
        /\ main'.exit = main.exit /\ main'.pc = "settle"
        /\ main'.settled = "declined" => ~interrupted
    BY <1>7 DEF Await, At, Typed, Runner, stored
  <2> QED BY <2>1 DEF Halted, Running
<1>8. CASE Settle
  <2>1. /\ UNCHANGED <<interrupted, pub, opened, steps>> /\ main.pc = "settle"
        /\ main'.exit = main.exit /\ main'.settled = main.settled
        /\ main'.pc = IF main.settled = "declined" THEN "decline" ELSE IF Halted THEN "halt" ELSE "end"
    BY <1>8 DEF Settle, At, Typed, Runner, stored
  <2> QED BY <2>1 DEF Halted, Running
<1>9. CASE Decline \/ Return
  <2>1. /\ UNCHANGED <<interrupted, pub, opened, steps>> /\ main.pc \in {"decline", "return"}
        /\ main'.exit = main.exit /\ main'.settled = main.settled
        /\ main'.pc = "leave"
    BY <1>9 DEF Decline, Return, At, Typed, Runner, stored
  <2> QED BY <2>1 DEF Halted, Running
<1>10. CASE Report \/ FailStep
  <2>1. /\ UNCHANGED interrupted /\ main.pc \in {"report", "fail"}
        /\ main'.exit = main.exit /\ main'.settled = main.settled
        /\ main'.pc \in {"fail", "clear"}
    BY <1>10 DEF Report, FailStep, At, Goto, Typed, Runner
  <2>2. \/ UNCHANGED <<pub, opened, steps>>
        \/ FailAssistant([pub EXCEPT !.provider = TRUE])
        \/ FailAssistant(pub)
    BY <1>10 DEF Report, FailStep
  <2>3. /\ [pub EXCEPT !.provider = TRUE] \in Publisher /\ [pub EXCEPT !.provider = TRUE].started = pub.started
        /\ pub \in Publisher
    BY DEF LogTyped, Publisher
  <2>4. UNCHANGED <<pub, opened>> \/ (pub'.failed /\ (pub.started => pub'.started) /\ (opened' => opened \/ pub'.started))
    BY <2>2, <2>3, FailAssistantSound
  <2> QED BY <2>1, <2>4 DEF Halted, Running
<1>11. CASE Halt
  <2>1. /\ UNCHANGED interrupted /\ main.pc = "halt"
        /\ main'.exit = main.exit /\ main'.settled = main.settled
        /\ main'.pc = "end"
    BY <1>11 DEF Halt, At, Goto, Typed, Runner
  <2>2. /\ pub.active => FailAssistant(pub)
        /\ ~pub.active => UNCHANGED <<pub, opened, steps>>
    BY <1>11 DEF Halt
  <2>3. pub \in Publisher
    BY DEF LogTyped
  <2>4. CASE pub.active
    <3>1. pub'.failed /\ (pub.started => pub'.started) /\ (opened' => opened \/ pub'.started)
      BY <2>2, <2>3, <2>4, FailAssistantSound
    <3> QED BY <2>1, <3>1 DEF Halted, Running
  <2>5. CASE ~pub.active
    BY <2>1, <2>2, <2>5 DEF Halted, Running
  <2> QED BY <2>4, <2>5
<1>12. CASE End
  <2>1. /\ UNCHANGED interrupted /\ main.pc = "end"
        /\ main'.exit = main.exit /\ main'.settled = main.settled
        /\ main'.pc = "return"
    BY <1>12 DEF End, At, Typed, Runner
  <2>2. CASE pub.finished /\ ~pub.provider
    <3>1. pub' = Started /\ steps' = Append(steps, "ended")
      BY <1>12, <2>2 DEF End, StartAssistant
    <3>2. steps' # <<>>
      BY <3>1 DEF LogTyped
    <3> QED BY <2>1, <3>1, <3>2, StartedSound DEF Halted, Running
  <2>3. CASE ~(pub.finished /\ ~pub.provider)
    <3>1. UNCHANGED <<pub, opened, steps>>
      BY <1>12, <2>3 DEF End
    <3> QED BY <2>1, <2>3, <3>1 DEF Halted, Running
  <2> QED BY <2>2, <2>3
<1>13. CASE Interrupt
  BY <1>13 DEF Interrupt, volatile, stored, Halted, Running
<1>14. CASE Crash
  <2>1. main'.pc = "ended" /\ main'.exit = "none" /\ main'.settled = "none" /\ pub' = Silent
    BY <1>14 DEF Crash, Idle
  <2> QED BY <2>1 DEF Halted, Running, Silent
<1> QED
  BY <1>1, <1>2, <1>3, <1>4, <1>5, <1>6, <1>7, <1>8, <1>9, <1>10, <1>11, <1>12, <1>13, <1>14
     DEF Next, MainStep, StreamStep

\* The publisher is silent and the log empty at the start.
LEMMA InitStep == Init => StepInvariant
<1> SUFFICES ASSUME Init PROVE LogTyped /\ CalledFirst /\ StepSound
  BY InitInv DEF StepInvariant
<1>1. LogTyped
  <2>1. Silent \in Publisher
    BY DEF Silent, Publisher
  <2>2. <<>> \in Seq({"ended", "failed"})
    OBVIOUS
  <2> QED BY <2>1, <2>2 DEF Init, LogTyped
<1>2. CalledFirst
  BY HostedAssumption DEF Init, CalledFirst, Local
<1>3. StepSound
  BY DEF Init, StepSound, Silent, Idle, Halted
<1> QED BY <1>1, <1>2, <1>3

LEMMA StepInvariantHolds == Spec => []StepInvariant
<1>1. StepInvariant /\ [Next]_vars => StepInvariant'
  BY StepInv, LogTypedInv, CalledFirstInv, StepSoundInv DEF StepInvariant, Inv
<1> QED BY <1>1, InitStep, PTL DEF Spec

(* Every variable of a turn keeps its type; a fiber belongs to a call that was *)
(* made, and so does a running call while the provider streams.                *)
THEOREM TypeCorrect == Spec => []TypeOK
<1>1. ASSUME StepInvariant PROVE TypeOK
  <2>1. [DOMAIN Silent -> BOOLEAN] = Publisher
    BY DEF Silent, Publisher
  <2>2. [DOMAIN Unknown -> BOOLEAN] = [known : BOOLEAN, called : BOOLEAN, settled : BOOLEAN]
    BY DEF Unknown
  <2> QED BY <1>1, <2>1, <2>2 DEF StepInvariant, Inv, Typed, Runner, LogTyped, CalledFirst, TypeOK
<1> QED BY <1>1, StepInvariantHolds, PTL

(* A turn that was interrupted leaves the step it opened closed in the log, or *)
(* has set the flag that the step failed, whether tools are enabled or not.    *)
THEOREM InterruptClosesStep == Spec => []InterruptedStepClosed
<1>1. StepInvariant => InterruptedStepClosed
  BY DEF StepInvariant, StepSound, InterruptedStepClosed
<1> QED BY <1>1, StepInvariantHolds, PTL

-----------------------------------------------------------------------------
(* The calls as a session shows them.                                          *)

\* What the store says of a call while the provider streams.
ShownEarly ==
  main.pc = "stream" => \A c \in Calls :
    /\ tool[c].known <=> store[c] # "none"
    /\ ~tool[c].called => store[c] \in {"none", "pending"}

\* A verdict is shown only once it is in the log.
Shown ==
  /\ \A c \in Calls : store[c] \in {"completed", "error"} => closed[c] # 0
  /\ ShownEarly

\* The agent has steps left: the request names its tools.
ToolsEnabled == ~turn.disabled

\* What the log says of a call may change in three ways.
Told(c) == Log!Announce(c) \/ Log!Make(c) \/ Log!Settle(c)

\* A failure or a success that is stored settles a call which has no verdict.
LEMMA StoredSettles ==
  ASSUME Typed, Shown, NEW c \in Calls, closed[c] = 0,
         StoreFailed(c) \/ (StoreSuccess(c) /\ store[c] = "running")
  PROVE  Log!Settle(c)
<1>1. store[c] \in {"none", "pending", "running"}
  BY DEF Typed, Shown
<1>2. closed' = [closed EXCEPT ![c] = 1]
  BY DEF StoreFailed, StoreSuccess
<1>3. PICK state : /\ store' = [store EXCEPT ![c] = state]
                   /\ state = IF store[c] = "running" /\ StoreSuccess(c) /\ ~StoreFailed(c) THEN "completed"
                              ELSE IF store[c] \in {"pending", "running"} THEN "error" ELSE store[c]
  <2>1. CASE StoreFailed(c)
    BY <2>1 DEF StoreFailed, Open
  <2>2. CASE StoreSuccess(c) /\ store[c] = "running" /\ ~StoreFailed(c)
    BY <2>2 DEF StoreSuccess
  <2> QED BY <2>1, <2>2
<1>4. state \in Log!Verdicts(store[c])
  BY <1>1, <1>3 DEF Log!Verdicts
<1> QED BY <1>2, <1>3, <1>4 DEF Log!Settle

\* A step of a turn whose tools are enabled tells of one call or of none.
LEMMA OneCallTold ==
  ASSUME Inv, ~turn.disabled, Shown, [Next]_vars
  PROVE  UNCHANGED <<store, closed>> \/ \E c \in Calls : Told(c)
<1> USE DEF Inv
<1>a. Enabled
  OBVIOUS
<1>1. ASSUME NEW c \in Calls, Close(c) PROVE Told(c)
  <2>1. Running /\ ~tool[c].settled /\ StoreFailed(c)
    BY <1>a, <1>1 DEF Close, Enabled, ClosingSound, Running
  <2> QED BY <1>a, <2>1, NotClosed, StoredSettles DEF Enabled, Told
<1>2. ASSUME NEW c \in Calls, StreamInput(c) PROVE Told(c)
  <2>1. main.pc = "stream" /\ ~tool[c].known
    BY <1>2 DEF StreamInput, Streaming
  <2>2. store[c] = "none" /\ ~tool[c].settled /\ Running
    BY <1>a, <2>1 DEF Shown, ShownEarly, Enabled, FlagsSound, Running
  <2>3. closed[c] = 0
    BY <1>a, <2>2, NotClosed DEF Enabled
  <2> QED BY <1>2, <2>2, <2>3 DEF StreamInput, Told, Log!Announce
<1>3. ASSUME NEW c \in Calls, StreamCall(c) \/ CutCall(c) PROVE Told(c) \/ UNCHANGED <<store, closed>>
  <2>1. main.pc = "stream" /\ ~tool[c].called /\ closed' = closed
    BY <1>3 DEF StreamCall, CutCall, Streaming
  <2>2. store[c] \in {"none", "pending"} /\ ~tool[c].settled /\ Running /\ (tool[c].known <=> store[c] # "none")
    BY <1>a, <2>1 DEF Shown, ShownEarly, Enabled, FlagsSound, Running
  <2>3. closed[c] = 0
    BY <1>a, <2>2, NotClosed DEF Enabled
  <2>4. CASE store' = [store EXCEPT ![c] = "running"]
    BY <2>1, <2>2, <2>3, <2>4 DEF Told, Log!Make
  <2>5. CASE ~tool[c].known /\ store' = [store EXCEPT ![c] = "pending"]
    BY <2>1, <2>2, <2>3, <2>5 DEF Told, Log!Announce
  <2>6. CASE store' = [store EXCEPT ![c] = store[c]]
    BY <2>1, <2>6 DEF Typed
  <2> QED BY <1>3, <2>2, <2>4, <2>5, <2>6 DEF StreamCall, CutCall
<1>4. ASSUME NEW c \in Calls, StreamResult(c) PROVE Told(c)
  <2>1. main.pc = "stream" /\ tool[c].called /\ ~tool[c].settled /\ (StoreSuccess(c) \/ StoreFailed(c))
    BY <1>4 DEF StreamResult, Streaming
  <2>2. store[c] = "running" /\ Running
    BY <1>a, <2>1 DEF Enabled, FlagsSound, Running
  <2> QED BY <1>a, <2>1, <2>2, NotClosed, StoredSettles DEF Enabled, Told
<1>5. ASSUME NEW c \in Local, PublishResult(c) PROVE Told(c) \/ UNCHANGED <<store, closed>>
  <2>1. CASE tool[c].settled
    BY <1>5, <2>1 DEF PublishResult
  <2>2. CASE ~tool[c].settled
    <3>1. c \in Calls /\ c \in Alive /\ (StoreSuccess(c) \/ StoreFailed(c))
      BY <1>5, <2>2 DEF PublishResult, Alive, Local
    <3>2. store[c] = "running" /\ Running
      BY <1>a, <2>2, <3>1 DEF Enabled, FibersSound
    <3> QED BY <1>a, <2>2, <3>1, <3>2, NotClosed, StoredSettles DEF Enabled, Told
  <2> QED BY <2>1, <2>2
<1>6. ASSUME NEW c \in Calls, RecoverCall(c) PROVE Told(c)
  <2>1. Open(c) /\ StoreFailed(c)
    BY <1>6 DEF RecoverCall
  <2>2. closed[c] = 0
    <3>1. closed[c] \in Nat /\ closed[c] <= 1 /\ closed[c] # 1
      BY <1>a, <2>1 DEF Enabled, ClosedOnce, Typed
    <3> QED BY <3>1
  <2> QED BY <2>1, <2>2, StoredSettles DEF Told
<1>7. CASE \/ StreamText \/ StreamFinish \/ StreamProviderError \/ CutStep \/ InterruptStream
           \/ \E exit \in {"success", "error", "overflow", "defect"} : StreamEnds(exit)
           \/ \E c \in Calls : CutSettlement(c)
           \/ \E c \in Local : ToolStep(c)
           \/ Recover \/ Report \/ FailStep \/ Clear \/ Await \/ Settle \/ Decline \/ Halt \/ End \/ Return \/ Leave
           \/ Continue \/ NewDrain \/ Recovered \/ Interrupt \/ Crash \/ UNCHANGED vars
  BY <1>7 DEF StreamText, StreamFinish, StreamProviderError, CutStep, InterruptStream, StreamEnds, CutSettlement,
     ToolStep, ToolReturns, ToolBreaks, Recover, Report, FailStep, Clear, Await, Settle, Decline, Halt, End,
     Return, Leave, Continue, NewDrain, Recovered, Interrupt, Crash, vars, stored
<1> QED
  BY <1>1, <1>2, <1>3, <1>4, <1>5, <1>6, <1>7 DEF Next, MainStep, StreamStep, Local

\* While the provider streams the store follows the publisher's flags.
LEMMA ShownEarlyInv ==
  ASSUME Inv, ~turn.disabled, Shown, [Next]_vars
  PROVE  ShownEarly'
<1> USE DEF Inv
<1>a. Enabled
  OBVIOUS
<1>1. CASE \/ StreamText \/ StreamFinish \/ StreamProviderError \/ Interrupt
           \/ \E c \in Local : ToolStep(c)
           \/ UNCHANGED vars
  <2>1. UNCHANGED <<main, tool, store>>
    BY <1>1 DEF StreamText, StreamFinish, StreamProviderError, Interrupt, ToolStep, ToolReturns, ToolBreaks,
       vars, volatile, stored
  <2> QED BY <2>1 DEF Shown, ShownEarly
<1>2. CASE \/ CutStep \/ InterruptStream \/ \E c \in Calls : CutCall(c) \/ CutSettlement(c)
           \/ \E exit \in {"success", "error", "overflow", "defect"} : StreamEnds(exit)
           \/ Recover \/ Report \/ FailStep \/ Clear \/ Await \/ Settle \/ Decline \/ Halt \/ End \/ Return \/ Leave
           \/ Continue \/ NewDrain \/ Recovered \/ Crash
  <2>1. main'.pc # "stream"
    BY <1>2 DEF CutStep, InterruptStream, CutCall, CutSettlement, StreamEnds, Cut, Recover, Report, FailStep,
       Clear, Await, Settle, Decline, Halt, End, Return, Leave, Continue, NewDrain, Recovered, Crash, Goto, Idle,
       Typed, Runner
  <2> QED BY <2>1 DEF ShownEarly
<1>3. ASSUME NEW c \in Calls, Close(c) \/ RecoverCall(c) PROVE ShownEarly'
  <2>1. main.pc # "stream" /\ main'.pc = main.pc
    BY <1>a, <1>3 DEF Close, RecoverCall, Enabled, ClosingSound, volatile, Typed, Runner
  <2> QED BY <2>1 DEF ShownEarly
<1>4. ASSUME NEW c \in Calls, StreamInput(c) PROVE ShownEarly'
  <2>1. /\ tool' = [tool EXCEPT ![c] = [@ EXCEPT !.known = TRUE]]
        /\ store' = [store EXCEPT ![c] = "pending"] /\ main' = main /\ main.pc = "stream"
    BY <1>4 DEF StreamInput, Streaming
  <2>2. /\ tool'[c].known /\ store'[c] = "pending"
        /\ \A d \in Calls \ {c} : tool'[d] = tool[d] /\ store'[d] = store[d]
    BY <2>1 DEF Typed
  <2> QED BY <2>1, <2>2 DEF Shown, ShownEarly
<1>5. ASSUME NEW c \in Calls, StreamCall(c) PROVE ShownEarly'
  <2>1. /\ tool' = [tool EXCEPT ![c] = [@ EXCEPT !.known = TRUE, !.called = TRUE]]
        /\ store' = [store EXCEPT ![c] = "running"] /\ main' = main /\ main.pc = "stream"
    BY <1>5 DEF StreamCall, Streaming
  <2>2. /\ tool'[c].known /\ tool'[c].called /\ store'[c] = "running"
        /\ \A d \in Calls \ {c} : tool'[d] = tool[d] /\ store'[d] = store[d]
    BY <2>1 DEF Typed
  <2> QED BY <2>1, <2>2 DEF Shown, ShownEarly
<1>6. ASSUME NEW c \in Calls, StreamResult(c) \/ (c \in Local /\ PublishResult(c)) PROVE ShownEarly'
  <2>1. CASE UNCHANGED <<main, tool, store>>
    BY <2>1 DEF Shown, ShownEarly
  <2>2. CASE ~UNCHANGED <<main, tool, store>>
    <3>1. /\ main' = main /\ tool[c].called /\ ~tool[c].settled
          /\ tool' = [tool EXCEPT ![c] = [@ EXCEPT !.settled = TRUE]]
          /\ StoreSuccess(c) \/ StoreFailed(c)
      <4>1. CASE StreamResult(c)
        BY <4>1 DEF StreamResult
      <4>2. CASE PublishResult(c) /\ c \in Local
        <5>1. c \in Alive
          BY <4>2 DEF PublishResult, Alive
        <5> QED BY <1>a, <2>2, <4>2, <5>1 DEF PublishResult, Enabled, FibersSound
      <4> QED BY <1>6, <4>1, <4>2
    <3>2. /\ tool'[c].known = tool[c].known /\ tool'[c].called
          /\ \A d \in Calls \ {c} : tool'[d] = tool[d] /\ store'[d] = store[d]
      BY <3>1 DEF Typed, StoreSuccess, StoreFailed
    <3>3. store'[c] = "none" <=> store[c] = "none"
      BY <3>1 DEF Typed, StoreSuccess, StoreFailed, Open
    <3> QED BY <3>1, <3>2, <3>3 DEF Shown, ShownEarly
  <2> QED BY <2>1, <2>2
<1> QED
  BY <1>1, <1>2, <1>3, <1>4, <1>5, <1>6 DEF Next, MainStep, StreamStep, Local, StreamResult

\* A verdict appears in the store with the event that is counted.
LEMMA ShownInv ==
  ASSUME Inv, ~turn.disabled, Shown, [Next]_vars
  PROVE  Shown'
<1>1. \A c \in Calls : store'[c] \in {"completed", "error"} => closed'[c] # 0
  <2>1. CASE UNCHANGED <<store, closed>>
    BY <2>1 DEF Shown
  <2>2. ASSUME NEW c \in Calls, Told(c), NEW d \in Calls, store'[d] \in {"completed", "error"}
        PROVE  closed'[d] # 0
    <3>1. CASE d = c
      <4>1. ~Log!Announce(c) /\ ~Log!Make(c)
        BY <2>2, <3>1 DEF Log!Announce, Log!Make, Inv, Typed
      <4>2. closed'[c] = 1
        BY <2>2, <4>1 DEF Told, Log!Settle, Inv, Typed
      <4> QED BY <3>1, <4>2
    <3>2. CASE d # c
      <4>1. store'[d] = store[d] /\ closed'[d] = closed[d]
        BY <2>2, <3>2 DEF Told, Log!Announce, Log!Make, Log!Settle, Inv, Typed
      <4> QED BY <2>2, <4>1 DEF Shown
    <3> QED BY <3>1, <3>2
  <2> QED BY <2>1, <2>2, OneCallTold
<1> QED BY <1>1, ShownEarlyInv DEF Shown

\* With tools enabled the store and the log of the calls keep the promises of
\* ToolCalls: whatever order stream, fibers, interrupts, crashes and recovery
\* come in, a call is announced, made and settled in this order, settled once,
\* and a verdict that is shown is never taken back.
THEOREM ImplementsToolCalls == Spec /\ ~turn.disabled => Log!Spec
<1>1. Init => Shown /\ Log!Init
  BY HostedAssumption DEF Init, Shown, ShownEarly, Unknown, Log!Init
<1>2. Inv /\ ToolsEnabled /\ Shown /\ [Next]_vars => Shown'
  BY ShownInv DEF ToolsEnabled
<1>3. ToolsEnabled /\ [Next]_vars => ToolsEnabled'
  <2>1. [Next]_vars => turn' = turn
    BY DEF Next, MainStep, StreamStep, ToolStep, Close, InterruptStream, Recover, Report, FailStep, Clear, Await,
       Settle, Decline, Halt, End, Return, Leave, StreamText, StreamFinish, StreamProviderError, StreamInput,
       StreamCall, StreamResult, StreamEnds, CutStep, CutCall, CutSettlement, ToolReturns, ToolBreaks,
       PublishResult, Continue, NewDrain, RecoverCall, Recovered, Interrupt, Crash, vars
  <2> QED BY <2>1 DEF ToolsEnabled
<1>4. Inv /\ ToolsEnabled /\ Shown /\ [Next]_vars => [Log!Next]_(Log!vars)
  BY OneCallTold DEF ToolsEnabled, Told, Log!Next, Log!vars
<1>5. ~turn.disabled => ToolsEnabled
  BY DEF ToolsEnabled
<1> QED BY <1>1, <1>2, <1>3, <1>4, <1>5, Inductive, PTL DEF Spec, Log!Spec

===============================================================================
