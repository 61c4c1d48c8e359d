# A verification project for MrOS

MrOS is a monorepo around an agent runtime (the `packages/*` of "opencode v2") with thin
applications on top. This directory specifies the runtime's own logic in TLA+: one module
per component, TLC configurations that check it on small instances, and theorems that
TLAPS checks for every value of the constants. Every definition is translated from the
source; `PROJECT.json` names, for each, the lines it stands for.

## 1. The system

A **client** (web, API, Telegram bot, the generated SDKs) talks to the **server**, whose
handlers call **core**. Core keeps everything durable in one SQLite store behind an
**event log**: publishing a durable event appends it to the log of its aggregate (a
Session) and runs the **projectors** in the same immediate transaction. A **Session**
receives prompts into a durable **inbox**; a process-local **run coordinator** keeps at
most one **drain** running per Session; the drain (the **runner**) promotes inbox inputs
into visible history, assembles a request from the **context epoch** and the projected
history, streams the **provider**, executes tool calls, and continues until the model
rests. **Tools** ask for **permission** or put **questions** to the user, may run in the
background (**background jobs**), and touch files (**file mutation**, **snapshots**).
Effects run on fibers of one JavaScript thread: code between two `yield*` that suspend is
atomic, everything else interleaves, and a fiber may be interrupted wherever it suspends.

| Component | State | Operations | Interacts with | Hard behaviour | Correct when |
| --- | --- | --- | --- | --- | --- |
| Session run coordinator (`session/run-coordinator.ts`) | map Session -> entry (owner fiber, pendingWake, stopping, done) | run, wake, interrupt, active, settle | runner (drain), clients | wakes racing the end of a drain, interrupts of successors, joins | one drain per Session, no wake or waiter lost |
| Durable event log (`event.ts`) | rows of `event` and `event_sequence`, wake PubSubs | publish, replay, claim, remove, durable | projectors, session streams | replays out of order or from other owners, tails racing commits | contiguous append-only logs projected once, gap-free tails |
| Event fan-out (`event.ts`) | PubSubs per type, listeners | subscribe, listen, allBounded, notify | server event stream | slow subscribers, post-commit listener defects | delivery after commit, bounded subscribers fail loudly |
| Session inbox (`session/input.ts`, `session.ts`) | `session_input` rows | prompt, promoteSteers, promoteNextQueued, projections | event log, runner, revert | racing identifiers, retries, stale row snapshots | one receipt per identifier, admission order |
| Runner loop (`session/runner/llm.ts`) | promotion, step, recovery flags of the drain | run, runTurn, compaction and overflow transitions | inbox, context epoch, compaction, provider | inputs during a turn, step allowance, one overflow recovery | no accepted wake stranded, allowance kept |
| Provider turn (`runner/llm.ts`, `publish-llm-event.ts`, `message-updater.ts`) | open fragments, tools by call, tool fibers | publish, settle, failUnsettled, flush | tool registry, projector | tools racing the stream, provider errors, interruption | every durable call settles once, before the next turn; an interrupt leaves nothing open |
| Context epoch (`session/context-epoch.ts`, `system-context/`) | baseline, snapshot, baseline_seq | initialize, prepare, replace, reset | event log, compaction | moves, reverts and losses between read and write, unavailable sources | snapshot and history tell the model the same, each request is current |
| Compaction, history, revert, snapshots | summary messages, boundaries, git trees | compact, stage, clear, commit | runner, projector | revert during a drain | history after a boundary is gone as a whole |
| Permissions, questions (`permission.ts`, `question.ts`) | pending requests, saved rules | ask, assert, reply, reject | tools, clients | replies racing each other, cascades, shutdown | every request answered once |
| Background jobs (`background-job.ts`) | jobs, tokens, output | start, extend, promote, wait, cancel | tools, runner | settlement racing extension, cancel, timeout | a settled job stays settled |
| File locks (`util/flock.ts`, `util/effect-flock.ts`) | lock directories, heartbeat, breaker | acquire, heartbeat, break stale, release | npm, installation, repository cache | stale eviction against a slow owner | mutual exclusion among live owners |
| Keyed mutex, state (`effect/keyed-mutex.ts`, `state.ts`) | semaphores with user counts; transforms, value | withLock; transform, reload, batch | repository cache, file mutation, catalog | removal of a mutex in use, reload races | exclusion, last transform wins |
| PTY and tickets (`pty.ts`, `pty/ticket.ts`) | sessions, subscribers, buffer cursor, tickets | create, connect, write, exit, remove; issue, consume | server sockets | output racing attach, exit racing connect | no byte lost or doubled, tickets used once |
| Integration, credentials (`integration.ts`, `credential.ts`, `oauth/`) | attempts, stored credentials | connect, complete, cancel, expire | server, providers | callback racing timeout and cancel | an attempt ends once |
| Tool output store, file mutation, repository cache | files on disk | write, bound, clean; edit, apply; clone, refresh | tools, flock, git | partial writes, concurrent edits | bounded output, no lost update |
| Catalog, models-dev, config, plugins, policy, skills, references, location services | derived values per Location | transforms, reload | state | reload order | the value follows the transforms |
| Code mode (`packages/codemode`) | interpreter scope, promise table, call budget | execute, call, await | tools | unawaited and concurrent calls, timeout | every call settles or is interrupted |
| LLM protocols (`packages/llm`) | stream parser state | lower request, parse events, retry | runner | partial frames, retry after output | one well-formed event stream |
| HTTP recorder (`packages/http-recorder`) | cassette, cursor | record, replay | tests of llm | order of matching | each interaction replayed once |
| Server, protocol, schema, client, SDKs, plugin, database, scripts, apps | routing, wire types, migrations, user interface | translate calls | core | none of their own | out of scope, see 7 |


Runtime facts the models rest on. All fibers of a process share one thread; the code
between two suspensions is one step. A database transaction is one step: the store runs
`BEGIN IMMEDIATE` transactions one at a time. A process may be lost between any two steps;
what is in the database survives, what is in a `Map`, a `Deferred` or a fiber does not.
Publishing an event runs every listener of the process before it returns, so a publish is a
suspension, and an ephemeral event whose listener fails makes the publish fail.

## 2. Plan and state

The order follows what a user would notice first: prompts lost or answered twice, history
torn, permission granted that was refused; then the resources around them.

| Stage | Module | Models | Abstract specification | State |
| --- | --- | --- | --- | --- |
| 1 | `RunCoordinator` | the registry of drains | implements `SerialDrain` | checked, safety and the safety of the refinement proved |
| 1 | `EventLog` | durable log, replay, tails | implements `Journal` | checked, safety and refinement proved |
| 1 | `SessionInput`, `SessionDrain` | inbox, prompt calls, the runner's loop | composed over `SerialDrain`, implements `DurableInbox` | checked, safety and refinement proved |
| 1 | `Permission`, `Question` | requests put to the user | implement `Prompts` | checked, safety and refinement proved |
| 2 | `ProviderTurn` | stream, tool fibers, publisher, settlement of a turn, recovery | implements `ToolCalls`, where tools are enabled | checked, safety and refinement proved |
| 2 | `ContextEpoch` | initialize, prepare, request; compaction, move, revert | | checked, proved |
| 2 | `KeyedMutex`, `FileMutation` | entries with user counts; compare and write under them | composed; `KeyedMutex` implements `Mutex` | checked, safety and refinement proved |
| 3 | background jobs, file locks, fan-out, state transforms, terminals, integrations | | | not modelled, see 7 |

Composition. `SessionDrain` EXTENDS `SessionInput` and instantiates `SerialDrain`, the
promise that `RunCoordinator` is shown to keep: the drain is checked against the
coordinator's promise and not against its code again. `ContextEpoch` uses the same promise
in another form: one fiber runs the turns of a Session (`SerialPerKey`). `Permission` and
`Question` both instantiate `Prompts`. `FileMutation` EXTENDS `KeyedMutex`, and its steps are
proved to be steps of the mutex or to leave it alone, so that it inherits the promise of `Mutex`.
Each refinement is an INSTANCE in the module that implements: `Abstract` in `RunCoordinator` and
`EventLog`, `Promised` in `SessionDrain` and `KeyedMutex`, `Log` in `ProviderTurn`.
`SessionDrain` takes a provider turn as one step with its outcomes; `ProviderTurn` is what
happens inside that step, up to the outcomes, and the start of the next drain that recovers it.

## 3. Modules and code

`PROJECT.json` maps each definition to its lines. All paths below are under
`packages/core/src`.

**`RunCoordinator`** (`session/run-coordinator.ts`). `active` is the Map of entries; an
Entry is its record of owner, `pendingWake` and `stopping`. A fiber is a forked drain, a
caller a client fiber inside `run` or `interrupt`. `Run`, `WakeIdle`/`WakeActive`,
`Interrupt` and `Abandon` (a client that is itself interrupted) are the operations; `Begin`,
`Finish` and `Rerun` are what the scheduler resumes. `Settle` has one operator for each way
`settle` ends: around again with the owner replaced, a successor for a wake that came during
cleanup, a dropped wake, idle. `promise` is history: whether a wake was accepted and not yet
met by the start of an execution.

**`SerialDrain`** is what users of the coordinator may count on: per Session a drain runs or
not, work is owed or not, an owed drain starts, a drain ends. In the mapping a Session is busy
while a fiber is inside the drain or its cleanup, and a drain is owed by a pending wake and by an
owner that is forked and has not begun (`Remembered`).

**`EventLog`** (`event.ts`). `rows` are the rows of `event`, `latest` and `owner` the row of
`event_sequence`, `projected` what the projectors have applied, in order. `Publish` and
`Replay` (the next sequence, or one stored already) are `commitDurableEvent`, with each check
a guard; `Claim` and `Remove` edit the rows. A tail is one `durable` stream: it registers for
wakes, reads history behind its cursor, and reads again at each wake; a wake is a flag, as
the sliding PubSub of capacity one keeps one.

**`Journal`** is what users of the store see: a sequence of entries per aggregate, to which one is
added at the end or of which all are dropped, and readers that get the positions one by one. The
mapping (`journals`, `readers`) builds the sequence from the set of rows.

**`SessionInput`** (`session/input.ts`, `session/projector.ts`). One row per identifier:
Session, delivery, prompt, admitted and promoted sequence. `Admit` and `Promote` are the
transactions of the Admitted and Prompted events; `Pending`, `SteersUpTo`, `NextQueued` the
selections; `DeleteAfter` the effect of a committed revert.

**`SessionDrain`** (`session.ts`, `session/execution/local.ts`, `session/runner/llm.ts`). A
client's prompt call looks for the identifier, publishes, looks again when the publish was
refused, and wakes. A drain has the locals of `run`, `runTurn` and `runTurnAttempt` as one
record; each of its actions ends at an await that other fibers can tell apart. Its turn is
one step with its outcomes: continue, settle, compact, recover from overflow, fail, stop.
`Steps` gives each Session the allowance of its agent, or `None` where the agent has no `steps`:
then every turn offers tools (`OffersTools`), and the step, which nothing compares with anything, is
not counted (`NextStep`). The agent of a Session does not change during a behaviour.
`Crash` loses the process, every client and drain of it; rows stay. `asked`, `receipts` and
`past` are history.

**`DurableInbox`** is what whoever prompts is promised: an identifier is absent, waiting with a
ticket, or visible; a new input's ticket is behind all that wait in its lane, the next to become
visible is the first of its lane, and only a revert takes an input away. Its tickets are the
admission sequences (`EntryOf`). `ShowRetracted` is there because the code needs it: a revert that
commits between the selection of a batch and the promotion of a row of it leaves a Prompted event
to store the input that it had deleted.

**`Prompts`** is the abstract request put to the user: it is opened once, an answer closes it
for good, and the fiber that asked receives that answer or withdraws.

**`Permission`** (`permission.ts`, `permission/saved.ts`, `agent.ts` where rules change).
`asker[q]` is where the call of `assert` or `ask` stands, `verdict[q]` its Deferred,
`pending` the Map; `replier[f]` a call of `reply` with the locals of its loops. `Evaluate`
and `Recall` are `evaluateInput` before and after its read of the saved rules; `Announce`,
`Resume`, `Interrupt` the rest of `assert`. `Reply`, `Answered`, `Save`, `Settle`,
`RecallSaved`, `Consult`, `Publish`, `Sweep` walk `reply` from await to await, `ReplyFails`
is a listener that fails, `Finalize` the finalizer, `Reconfigure` and `Forget` rules that
change around the service. Abstractions: a rule matches a resource, so wildcards and the
action are folded into the resource; the Map is a set, so a loop visits its entries in any
order and, as the live iterator of the code, also what is inserted before it ends; an
identifier is asked once; only saved rules survive a crash, so none is modelled.

**`Question`** (`question.ts`). The same shape without rules: `Ask`, `Announce`, `Resume`,
`Interrupt`; `Find`, `Publish`, `Settle` for `reply` and `reject`; the finalizer.

**`ProviderTurn`** (`session/runner/llm.ts`, `session/runner/publish-llm-event.ts`,
`session/message-updater.ts`). What is stored of each call (its projected tool part and the
events behind it) is kept apart from the publisher's own `called`, `settled` and the
flags of the closure. The stream opens inputs, calls tools, brings hosted results,
ends, breaks, reports an error or is interrupted; each local call has a fiber that settles
or fails, and whose result goes through the one permit of `withPublication`; the turn waits
for the fibers, then closes in the order of lines 291 to 345. The process may be lost
anywhere; the next drain starts with `failInterruptedTools`. `ToolCalls` is the promise about one
call, whoever tells of it: announced, made and settled in this order, settled once, and what its
message shows then is never taken back (`shown` is the stored part, `settled` how often the
publisher or the recovery closed it). Left out: text and reasoning
fragments, snapshots, usage.

**`ContextEpoch`** (`session/context-epoch.ts`, `system-context/index.ts`,
`session/history.ts`, `session/projector.ts`, `session/compaction.ts`). A source is a key
whose contribution is a value, absent, or unavailable; rendered text is the map from sources
to the values it shows, so that "what the model was told" is computed from the baseline and
the updates after it (`Tells`). `turn` holds the locals of one attempt: it looks for the
epoch, opens one, or finds it, reads the latest compaction, reconciles, and then advances or
replaces it, each read and each write an action. `Compact` follows a request; `Move`,
`Revert` and `Other` events come at any time; `GiveUp` ends a turn anywhere. The interpreters
of a `SystemContext` are the operators `Generation`, `Blocked`, `Incompatible`, `Changes` and
`Advanced`. `reset` is history. The Location of a Session is not kept: what its sources
contribute is any observation at any time, and of `Move` the model keeps that it resets the epoch.

**`KeyedMutex`** (`effect/keyed-mutex.ts`). Semaphores are identities: an entry of the Map
has one and the number of its users, a fiber keeps the one it looked up. `Enter` looks up or
creates, `Take` gets the permit, `Leave` releases, counts down and removes the entry of its
last user, as does a fiber interrupted while it waits. The Map is one per Location layer;
two Locations that reach one file do not exclude each other. `Mutex` is the promise without the
Map: a key has an owner or none, a fiber asks, and gets the lock when nobody owns it or withdraws;
the owner of a key is read off the permit of the entry that the Map has for it (`owners`).

**`FileMutation`** (`file-mutation.ts`, `tool/edit.ts`, `tool/write.ts`,
`tool/apply-patch.ts`). A call has a plan, the changes it sets out to make. It first reads,
without a lock, the files its changes are derived from (`Prepare`), and then makes one change
after another under the lock of its target: an update compares what is there with what it read
(`Compare`, `Stale`) and writes, a write and an add do not compare, a delete is unconditional.
A write is two steps, the file emptied (`Torn`) and filled. A file is the set of calls whose
change it contains, so that a change made from old content can be told from one made from the
present. Another process may edit (`MaxForeign`), a call of the file system may fail
(`MaxFailures`), and a call may be interrupted before a change or while it waits for its lock.
`kept` is history: the calls whose change must still be there.

## 4. Runs

Bounds are the constants of each `.cfg`. They are small because the hazards need few actors:
every property here relates at most three clients, four fibers and two requests, inputs,
files or sources. The mutants listed in `PROJECT.json`, one for each property, are bugs of
the kind the property is for, and each is found within these bounds. The type invariants
of `RunCoordinator`, `Permission`, `Question`, `FileMutation` and `ContextEpoch` are proved
and not run.

| Run | Bounds | Shows |
| --- | --- | --- |
| `coordinator` | 1 Session, 4 fibers, 3 callers, fair | `SerialPerKey`, `NoOrphanWaiter`, `WakeRemembered`, `InterruptReaches` (an interrupt stops the owner at work, not one that has ended), and the refinement of `SerialDrain` with its fairness; four fibers are an ending execution, its successor and the ones around again, three callers a run, a resume and an interrupt at once |
| `coordinator_rejoin` | 2 fibers, 2 callers | finding, see 8 |
| `event_log` | 2 aggregates, 2 identifiers, 2 contents, 2 owners, 2 publishers, 1 tail, sequences to 1, fair | contiguous, append-only logs, projected once; a gap-free tail that emits every committed event. Two events in each log are enough for a replay that is early, late, repeated, divergent or under an identifier another aggregate has |
| `session_drain` | 1 Session, 2 inputs of any delivery, 1 client, 1 revert, allowance of 2 steps | order of promotion, steers reach the turn, the allowance, what a wake promises and brings, the queue. Two inputs are the least with an order; two steps the least with a last one that is not the first |
| `session_drain_live` | 1 Session whose agent has no allowance, 1 identifier, 2 clients, fair, no revert | what clients are told agrees with the row; an input whose wake was accepted becomes visible, or is queued behind a model that never rests. Two clients are a race of calls with one identifier, and their later calls its retries; an agent without an allowance is the harder case, see 5 |
| `permission` | 1 tool call and 1 posted request of two Sessions, 1 reply, 1 failure, 1 change of rules, fair | an always grants all it covers and nothing denied; answers reach the call |
| `permission_race` | 2 requests of one Session, 2 replies, 1 failure | list, refinement of `Prompts`, a reject sweeps its Session |
| `question` | 2 requests, 2 clients, 1 answer and the rejection, 1 failure, fair | a question is listed exactly while it needs an answer and settled only with what was published before (the finalizer apart), refinement of `Prompts`, answers reach the call |
| `file_mutation` | 2 files, 3 calls over 4 plans (edit, write, patch of both files, patch that replaces), 1 foreign write, 1 failure | one lock per file, and no change derived from old content wipes out another; a third call is one that enters while the last user leaves |
| `provider_turn` | 2 local calls and a hosted one, fair | `SettledOnce`, `ResultsBeforeContinuation`, `InterruptedStepClosed`, `InterruptEndsTurn`; with two local calls one can be settled while another is open or running |
| `provider_turn_last_step` | 2 local calls | finding, see 8 |
| `context_epoch` | 2 sources, of which one renders its removal, 2 values, 3 events | the snapshot is what the model was told, each request is current, admitted context is kept; three events are an update, a compaction or revert after it and an update after that, or the reset that overtakes a turn. About a million states |

Bounds in guards: `MaxSeq` (sequences of an aggregate or Session), `MaxReverts`, `MaxFailures`,
`MaxChanges`, `MaxForeign`. The proofs hold for every value of them. Deadlock is
checked except in the permission, question, file mutation and provider turn runs: there
every request, call or plan is used once, so all may come to rest done.

## 5. Fairness

Weak fairness only, and only of what the Effect scheduler does by itself: a forked fiber
begins (`Begin`), one that was cancelled before it began ends (`Finish` of a cancelled fiber),
a fiber whose Deferred is complete resumes (`Rerun`, `Resume`), a client inside an
uninterruptible prompt goes on (`Prompting`), a publisher's wake after its commit (`Wake`), the
next step of a tail (`Read`, `TakeWake`), of a drain (`Advance`, `StartOwed`: a provider turn,
one step here, is assumed to end), of a call of `assert` or `ask` past a publish
(`AskerStep`), of a reply under way (`ReplierStep`, `ClientStep`; `reply` is uninterruptible)
and of a turn that is being interrupted. Nothing is assumed of a drain in `RunCoordinator`: it
may run for ever, and `SerialDrain` promises only that what is owed starts where nothing runs.
Nothing is assumed of clients: they need not prompt, answer or open a tail; of the provider: its
stream need not end by itself; and interrupts, failures, crashes, reverts and moves are never forced.

`WokenInputServed` is stated for inputs whose wake no interrupt, failure or crash has cancelled,
and excepts one case that the code leaves open. A queued input waits for the model to rest, and
an agent without `steps` (`session/runner/llm.ts:202`, the default) may ask for tools turn after
turn and never rest (`NeverRests`). The run takes such an agent: a steer is served all the same,
since the next turn reads it, and a queued input is served if the model rests. An agent with
`steps` has no such case: its last step offers no tools, and `AllowanceExact`, which is proved,
says that no turn goes past the allowance, so the model rests within `steps` turns of the last
promotion, and there are finitely many inputs to promote.

## 6. Proofs

For every value of the constants, from the named assumptions of each module (names apart,
bounds natural, tables and plans of the right type). Each inductive invariant was checked with
TLC on an instance before it was proved.

**`RunCoordinatorProofs`**. `IInv` is `TypeOK`, `RegistryOwned`, `NoOrphanWaiter` and
`WakeRemembered`. `RegistryOwned` is what makes it inductive: a live fiber owns the entry of
its Session, so no two fibers of a Session live at once, and `SerialPerKey` follows. One lemma per
action; `settle` is split by the way it ends. `Refinement` is `Spec => Abstract!SafeSpec`, the part of
`SerialDrain` without its fairness. A fresh execution and `Begin` are `Start`, a wake of an active key is
`Request`, an interrupt is `Cancel`, an execution that ends is `Finish`, and one that was cancelled
before it began was never a drain. `RegistryOwned` lets the mapping, which speaks of some fiber of the key,
be read off the owner of its entry, so that a drain starts only where none runs. `InterruptsReach` adds
one conjunct to the invariant, `StoppedOwner`: the owner of an entry that is stopping cleans up or is
cancelled. Going around again replaces the owner only of an entry nobody has stopped, and a successor
gets an entry of its own, so the signal of an interrupt goes to the fiber at work.

**`EventLogProofs`**. `IInv` is `TypeOK`, `LogContiguous`, `IdsUnique`, `ProjectedOnce`,
`TailGapFree` and `TailInformed`. The tails need the log: what a read adds continues what the
tail has because sequences are contiguous, and a commit leaves a tail informed because its
publisher still owes the wake. `AppendOnly` is an action property from the same invariant.
`ImplementsJournal` is the refinement of `Journal`. The rows are a set, so that `JournalsSound`
has to say that the sequence built from them has one element for each sequence up to the latest and that
each row is the element at its place; then a commit appends, `Remove` drops, and what a read gives a
reader is the contiguous rest that `Deliver` asks for.

**`PermissionProofs`**. `ListedIffOpen` and `SettledWasAnnounced` are not inductive by
themselves: a call of `reply` holds a request it found earlier. `KnowsListed` says what such
a call knows of its request (it was listed, and at its stage may be settled by another),
`AnnouncesFirst` that it publishes before it completes, `SweptStaysOut` that what the loop
of a reject has passed is out of the Map. Lemmas state what a step owes for the new record
of a call (`KnowsWell`, `OwnAnnounced`, `OwnSwept`), so that each action is proved from
its own lines. From the invariant follow the three invariants, `RejectSweepsSession` (when
the loop ends there is nothing left that it would visit), and `PromptSpec`: each step of a
call is `Open`, `Withdraw`, `Receive`, `Settle` or a stutter of `Prompts`. `DenyHolds` takes
one more conjunct, `KnowsOpen`: the requests no rule denies now are among those the call
counts as undenied since it began. `AlwaysComplete` proves `AlwaysSweepsAll` from `AlwaysPassed`: as long
as no rule changed around the service, a request that the loop of an always has visited, other than the
one it is at, has left the Map or is not covered by the rules the loop recalled, though others ask,
reply and sweep between its awaits. The run has one reply and two requests; the theorem any number of
both, and so the loops of several replies that interleave.

**`QuestionProofs`**. `IInv` is `TypeOK`, `ListExact` (the Map and the state of the calls
agree), `VerdictsOwned` (a completed Deferred has an owner that was told) and
`ClientsAnnounced` (a client that is about to complete one has published its answer).
`ListShowsOpen` is `ListExact` read as one equivalence; `VerdictsShown` speaks of the verdict and not of
`Asked`, which may still be on its way when an answer comes. The refinement of `Prompts` follows
step by step.

**`SessionDrainProofs`**. `IInv` is `Inbox`, `Drains`, `Wakes`, `Receipts` and types. `Inbox`
says, besides `PromotionOrder`, that every row lies below the latest sequence and no two rows of a
Session share an admission. `Drains` says that the coordinator is busy exactly where a drain is
(`BusyExact`) and, in `Sound`, what a drain may count on at each program point: that a request may
follow as things are (`Entitled`), or that inputs are there to be promoted (`Waiting`, `Early`:
those below the cutoff), that every row of its batch is current unless a revert came, and that
no waiting input with an earlier admission is left out of it (`QueueBatch`, `SteerBatch`). The
history of what a drain was `asked`, together with `WakesServed`, covers what comes between two
drains. Most steps of others only change the inbox; the lemmas on harmless changes say which
knowledge survives an admission, a promotion and a revert, so that each action is proved
once and not once per program point. That a batch has a first row is the well-foundedness of
the naturals. `QueueOneByOne` is an action property from the same invariant. `ImplementsInbox` is the
refinement of `DurableInbox`: only admissions, promotions and reverts change the rows (`InputChanges`), a new admission
is behind its lane because every row lies below the latest sequence, and a promotion shows the first
of its lane because the batch is complete and in order and its rows are current (`QueueBatch`, `SteerBatch`).

**`ProviderTurnProofs`**. `RunnerSound` and `ClosingSound` say where the runner may be with
which exit, and what it is about to close; `ClosedOnce`, `FlagsSound` and `FibersSound` relate
the publisher's Map of calls to what is stored and to the fiber of each call: a call the
log has settled is settled for the publisher, and a fiber with a result still owes its call.
`RunningOwed` says who will settle a call stored as running, `WaitOver` and `NothingRuns` that
behind the wait for the fibers nobody else can. All under `~turn.disabled`: with tools disabled
the code does not keep it, see 8. `InterruptClosesStep` holds with or without tools. It takes three
more conjuncts: `LogTyped`, the types of what is logged; `CalledFirst`, a running call was made;
and `StepSound`, which says where the closing of a step stands: a step that is open was started, is active until
it is finished or failed, and behind the failing of what an interrupt left (`Halt`) one of the two holds, so
that the end of the step has its event to store. `TypeCorrect` is the type invariant. `ImplementsToolCalls`
is the refinement of `ToolCalls`, with `Shown`: a part shows a verdict only once its call is settled, and
while the provider streams what is stored of a call is what the publisher has come to with it. It is stated for
`~turn.disabled`, for the same reason as `SettledOnce`.

**`ContextEpochProofs`**. A stored epoch is not exact at every step of a compaction: the
compaction is there before the new baseline. `Stored` says that the epoch is exact and that
nothing was said since a compaction it does not follow, so that a baseline taken as of the
compaction hides no update. `TurnSound` says what the turn knows at each program point, unless a
reset came: its row is the stored one, what it observed goes into what it writes, the request
shows the baseline with the updates behind it. Only the turn's fiber writes the epoch but for
resets, which is what `SerialPerKey` is for. `AdmittedStays` is an action property.

**`FileMutationProofs`** holds both layers. `LockInv` of the keyed mutex: the users of an
entry are counted exactly (`CountsExact`), the entry a call uses is the one the Map has for its
key (`CallsCurrent`) and no other key's (`EntriesApart`), and whoever holds has the permit
(`HoldersKnown`); `LocksExact` follows, and exclusion. `ImplementsMutex` is the refinement of `Mutex`; it
needs the converse of `HoldersKnown`, that a permit which is taken is held by a fiber that works under it
(`PermitsHeld`), so that the owners read off the Map are those the calls know (`OwnersExact`). Over it,
`AimsAtTarget` and `WritesUnderLock` tie a call that is writing to the lock of its target,
`TornOwesNothing` and `UpdateSawAll` say that an update past its comparison has seen all that must be
kept; `NoLostEdit` follows. `TargetsLocked` composes the layers: every step of a tool call is a step
of the mutex or leaves it alone, so `Spec` implies `LockSpec` and the promise of `Mutex`.

**Only model-checked.** Every invariant and every safety action property of a passing run is a theorem.
What is left to TLC is liveness and fairness, which the prover does not reach:
`TailCatchesUp`, `WokenInputServed`, `AnswerReaches`, `InterruptEndsTurn`, and that the coordinator keeps
the fairness of `SerialDrain` (`ImplementsSerialDrain`; its safety half is `Refinement`). The two
violations of section 8 are runs and nothing is proved of them.

## 7. Not modelled, and caveats of what is

Parts whose outcome rests on something the code does not fix, so that a model would check its
own assumptions:

- **File locks** (`util/flock.ts`, `util/effect-flock.ts`) rest on wall clocks and file times of several
  processes. One thing a reader should know: the dates the heartbeat of `effect-flock.ts:264` writes are
  computed when the effect is built, not when it runs, so the file's time does not move on.
- **Terminals** (`pty.ts`) rest on the order of callbacks of an external library,
  **integrations** on an external provider and a timer.
- **Background jobs** have no caller but their own test.

Parts with little of their own that a model checker would reach: event fan-out (a listener
that fails is one match, `event.ts:410`), state transforms (one at a time over an immutable value),
the session store, the todo list, the tool output store, the layer graph, the repository cache and package
installation (external programs under file locks). Out of scope: the server, protocol, schema,
the database adapter and the generated clients and SDKs translate calls and keep no state of their own; catalog,
configuration, plugins, skills and references derive data; ripgrep, watcher and git are external
processes behind wrappers; the applications are user interface; the code mode interpreter, the
compatibility layer of version 1 and the wire formats of `packages/llm` are sequential
programs over text. These parts are most of the repository's lines: the models cover the small share
of it where several actors share state.

Within the modelled parts these are left out: the contents of prompts, messages and tool
results; time stamps; reading operations, which change nothing; ephemeral events in `EventLog`,
which nothing stores; the choice of what a compaction summarises; the trees of a revert,
which are git's; the resolution of a path and the permission a tool asks for before it changes a
file.

What the code does that no property can call wrong or that a property excepts, each at its line:

- An always that adds a rule while a call stands between its read of the saved rules and the
  Map leaves that call listed (`permission.ts:158`); `AlwaysSweepsAll` is stated for the
  requests listed when the reply returns.
- A client may post an identifier again after its request was settled (`permission.ts:258`);
  the model asks each identifier once.
- A revert between `hasPending` and the promotion makes a wake call the provider with nothing
  new (`session/runner/llm.ts:387`), though `packages/specs/v2/session.md:163` says "A wake calls
  the provider only when it can promote eligible input". `WakeBringsInput` excepts it.
- A move that commits between the turn's comparison of Locations (`session/runner/llm.ts:180`)
  and the insert of the Session's first epoch leaves the destination with a baseline of the
  old Location, against `packages/opencode-docs/CONTEXT.md:118` ("the destination must initialize a
  complete baseline"). `Insert` behaves so in the model, and no property excludes it: the model does not
  keep for which Location a baseline was rendered. The turns at the destination reconcile what they
  can observe (`RequestCurrent`); a source that is unavailable there keeps the value of the old
  Location.
- A move or a revert during a turn takes the epoch away under it: the turn may send a stale
  request, or promote inputs and then find its new baseline blocked. `RequestCurrent` excepts
  such a turn (`reset`).
- A stream that breaks after step-finish has its step failed and then ended
  (`session/runner/llm.ts:291` to `317`).
- A call whose input is open when the stream ends normally stays pending until the next drain
  fails it; a turn whose tool was declined leaves its step open.
- The locks of `KeyedMutex` belong to a Location layer, and other processes have none.

## 8. Findings

- `coordinator_rejoin`: a resume that arrives while an interrupted drain is cleaning up is
  chained to that drain with `Effect.andThen` (`session/run-coordinator.ts:71`), which runs
  only after success. The interrupted drain ends with an interruption, so the resume fails
  with it and starts nothing. `packages/core/test/session-run-coordinator.test.ts:285` says
  it "starts a resume registered during interruption cleanup".
- `provider_turn_last_step`: on the last step of an agent tools are disabled, and a local call
  makes the runner fail every unsettled call, those whose input is still open included
  (`session/runner/llm.ts:245`, `session/runner/publish-llm-event.ts:217`). When such a call
  is then called, the publisher asks only whether it was called (319), and the projection
  stores it as running; the next round of failures passes over it, because it counts as
  settled. The call is still running when a steer continues the turn, though
  `packages/specs/v2/schema-changelog.md:183` says "Tool results are durably settled before
  provider continuation". OpenAI Chat opens all inputs before it emits any call
  (`packages/llm/src/protocols/utils/tool-stream.ts:200`).

## 9. How to run

    tlc -workers 2 -config MCRunCoordinator.cfg MCRunCoordinator.tla
    tlapm RunCoordinatorProofs.tla

and likewise for the other modules: the `.cfg` files and the modules they go with are the
`runs` of `PROJECT.json` (`ProviderTurn` is its own MC module). The longest runs are
`session_drain` and `context_epoch`, about a million states each; the longest proof is
`SessionDrainProofs`.
