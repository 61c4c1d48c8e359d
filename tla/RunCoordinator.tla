---------------------------- MODULE RunCoordinator ----------------------------
(***************************************************************************)
(* packages/core/src/session/run-coordinator.ts: the registry that keeps   *)
(* at most one drain running for each Session, joins concurrent resumes,   *)
(* coalesces wakes and interrupts on request.                              *)
(*                                                                         *)
(* A fiber is one forked drain; its identity is reusable once it has       *)
(* ended, so no counter has to be bounded.  An Entry is reachable only     *)
(* through the registry and through the clients that await its Deferred;   *)
(* completing the Deferred resumes those clients, so an Entry is modelled  *)
(* by its registry record.  A caller is a client fiber inside `run` or     *)
(* `interrupt`; `wake` returns at once and needs no caller state.          *)
(***************************************************************************)

CONSTANTS Keys,      \* Session identifiers
          Fibers,    \* identities of drain fibers
          Callers,   \* client fibers calling run and interrupt
          None       \* JavaScript's undefined

ASSUME NoneAssumption == None \notin Keys \cup Fibers

VARIABLES active,    \* key -> its Entry, or NoEntry: the Map `active`
          fiber,     \* fiber -> where it stands and what it was forked for
          caller,    \* caller -> what it waits for
          promise    \* history, per key: see Promises

vars == <<active, fiber, caller, promise>>

-----------------------------------------------------------------------------
(* State.                                                                  *)

\* How a drain ends.  settle tells a success from anything else; a drain may
\* fail, die, or interrupt itself without a call of `interrupt`.
Exits == {"success", "error"}

Entry == [owner : Fibers, pendingWake : BOOLEAN, stopping : BOOLEAN]
NoEntry == [owner |-> None, pendingWake |-> FALSE, stopping |-> FALSE]

\* "scheduled": a successor that has not resumed from its yieldNow;
\* "running": inside drain(key, force); "cleanup": interrupted inside drain;
\* "cancelled": interrupted before drain began; "ended": settled.
FiberState == [pc : {"scheduled", "running", "cleanup", "cancelled"}, key : Keys, force : BOOLEAN]
              \cup [pc : {"ended"}, key : {None}, force : {FALSE}]

\* "joined" awaits the done of its key's entry, "rejoining" that of a stopping
\* entry before calling run again, "rerun" is about to; "interrupting" awaits
\* the exit of a fiber; "succeeded" and "failed" are results of run.
CallerState == [pc : {"joined", "rejoining", "rerun"}, key : Keys, fiber : {None}]
               \cup [pc : {"interrupting"}, key : {None}, fiber : Fibers]
               \cup [pc : {"idle", "succeeded", "failed"}, key : {None}, fiber : {None}]

\* "owed": woken while active, and no drain has begun since; "begun": a drain
\* has begun since the last wake; "none": nothing was asked since an interrupt.
Promises == {"owed", "begun", "none"}

TypeOK == /\ active \in [Keys -> Entry \cup {NoEntry}]
          /\ fiber \in [Fibers -> FiberState]
          /\ caller \in [Callers -> CallerState]
          /\ promise \in [Keys -> Promises]

IsActive(k) == active[k] # NoEntry
Live(f) == fiber[f].pc # "ended"

\* Which identity a fork yields makes no difference.
FreeFibers == {f \in Fibers : ~Live(f)}
IsFresh(f) == f \in FreeFibers /\ f = CHOOSE g \in FreeFibers : TRUE

MakeEntry(f) == [owner |-> f, pendingWake |-> FALSE, stopping |-> FALSE]
Ended == [pc |-> "ended", key |-> None, force |-> FALSE]
Begun(k, force) == [pc |-> "running", key |-> k, force |-> force]
Scheduled(k) == [pc |-> "scheduled", key |-> k, force |-> FALSE]
At(pc) == [pc |-> pc, key |-> None, fiber |-> None]
Awaiting(pc, k) == [pc |-> pc, key |-> k, fiber |-> None]
Interrupting(f) == [pc |-> "interrupting", key |-> None, fiber |-> f]

Init == /\ active = [k \in Keys |-> NoEntry]
        /\ fiber = [f \in Fibers |-> Ended]
        /\ caller = [c \in Callers |-> At("idle")]
        /\ promise = [k \in Keys |-> "none"]

-----------------------------------------------------------------------------
(* start and settle.                                                       *)

\* Mutant: the registry is not consulted before an execution is started.
StartAlways(k, f, force) ==
  /\ IsFresh(f)
  /\ active' = [active EXCEPT ![k] = MakeEntry(f)]
  /\ fiber' = [fiber EXCEPT ![f] = Begun(k, force)]
  /\ promise' = [promise EXCEPT ![k] = "begun"]

\* A fresh entry on an idle key: makeEntry, active.set and start(..., force).
\* The fork is resumed before start returns, so its drain has begun.
StartFresh(k, f, force) ==
  /\ ~IsActive(k)
  /\ IsFresh(f)
  /\ active' = [active EXCEPT ![k] = MakeEntry(f)]
  /\ fiber' = [fiber EXCEPT ![f] = Begun(k, force)]
  /\ promise' = [promise EXCEPT ![k] = "begun"]

\* settle's first test: the same entry goes around again, undone.
GoesAround(k, exit) == exit = "success" /\ ~active[k].stopping /\ active[k].pendingWake

\* Mutant: only a success completes the Deferred of the entry.
CompletedOnSuccess(c, k, exit) ==
  IF caller[c] = Awaiting("joined", k) /\ exit = "success" THEN At("succeeded") ELSE caller[c]

\* Deferred.doneUnsafe(entry.done, exit) resumes the clients that await the
\* entry of k.  await(done).pipe(Effect.andThen(run(key))) calls run again
\* after a success only; any other exit is the result of that run.
Completed(c, k, exit) ==
  CASE caller[c] = Awaiting("joined", k) /\ exit = "success" -> At("succeeded")
    [] caller[c] = Awaiting("joined", k) /\ exit # "success" -> At("failed")
    [] caller[c] = Awaiting("rejoining", k) /\ exit = "success" -> Awaiting("rerun", k)
    [] caller[c] = Awaiting("rejoining", k) /\ exit # "success" -> At("failed")
    [] OTHER -> caller[c]

\* The exit of fiber f releases the interrupts that await it.
Released(c, f) == caller[c] = Interrupting(f)

\* Mutant: going around again keeps the ended fiber as the owner.
SettleAgainStaleOwner(k, f, g, exit) ==
  /\ GoesAround(k, exit)
  /\ active' = [active EXCEPT ![k].pendingWake = FALSE]
  /\ fiber' = [fiber EXCEPT ![f] = Ended, ![g] = Scheduled(k)]
  /\ caller' = [c \in Callers |-> IF Released(c, f) THEN At("idle") ELSE caller[c]]

SettleAgain(k, f, g, exit) ==
  /\ GoesAround(k, exit)
  /\ active' = [active EXCEPT ![k].pendingWake = FALSE, ![k].owner = g]
  /\ fiber' = [fiber EXCEPT ![f] = Ended, ![g] = Scheduled(k)]
  /\ caller' = [c \in Callers |-> IF Released(c, f) THEN At("idle") ELSE caller[c]]

SettleWithSuccessor(k, f, g, exit) ==
  /\ ~GoesAround(k, exit) /\ active[k].pendingWake
  /\ active' = [active EXCEPT ![k] = MakeEntry(g)]
  /\ fiber' = [fiber EXCEPT ![f] = Ended, ![g] = Scheduled(k)]
  /\ caller' = [c \in Callers |-> IF Released(c, f) THEN At("idle") ELSE Completed(c, k, exit)]

\* Mutant: the entry is deleted whether or not a wake is pending.
SettleDropsWake(k, f, exit) ==
  /\ active' = [active EXCEPT ![k] = NoEntry]
  /\ fiber' = [fiber EXCEPT ![f] = Ended]
  /\ caller' = [c \in Callers |-> IF Released(c, f) THEN At("idle") ELSE Completed(c, k, exit)]

SettleIdle(k, f, exit) ==
  /\ ~active[k].pendingWake
  /\ active' = [active EXCEPT ![k] = NoEntry]
  /\ fiber' = [fiber EXCEPT ![f] = Ended]
  /\ caller' = [c \in Callers |-> IF Released(c, f) THEN At("idle") ELSE Completed(c, k, exit)]

Settle(k, f, exit) ==
  \/ \E g \in Fibers : IsFresh(g) /\ SettleAgain(k, f, g, exit)
  \/ \E g \in Fibers : IsFresh(g) /\ SettleWithSuccessor(k, f, g, exit)
  \/ SettleIdle(k, f, exit)

-----------------------------------------------------------------------------
(* Clients.                                                                *)

Ready(c) == caller[c].pc \in {"idle", "succeeded", "failed"}

RunIdle(c, k) ==
  \E f \in Fibers : /\ StartFresh(k, f, TRUE)
                    /\ caller' = [caller EXCEPT ![c] = Awaiting("joined", k)]

RunActive(c, k) ==
  /\ IsActive(k)
  /\ caller' = [caller EXCEPT ![c] = IF active[k].stopping THEN Awaiting("rejoining", k)
                                                           ELSE Awaiting("joined", k)]
  /\ UNCHANGED <<active, fiber, promise>>

Run(c, k) == Ready(c) /\ (RunIdle(c, k) \/ RunActive(c, k))

\* A fresh drain serves the wake that starts it.
WakeIdle(k) == /\ \E f \in Fibers : StartFresh(k, f, FALSE)
               /\ UNCHANGED caller

WakeActive(k) == /\ IsActive(k)
                 /\ active' = [active EXCEPT ![k].pendingWake = TRUE]
                 /\ promise' = [promise EXCEPT ![k] = "owed"]
                 /\ UNCHANGED <<fiber, caller>>

\* Where Fiber.interrupt leaves its target.
Signalled(pc) == CASE pc = "scheduled" -> "cancelled"
                   [] pc = "running" -> "cleanup"
                   [] OTHER -> pc

\* Mutant: interrupt keeps the pending wake.
StoppedKeepingWake(e) == [e EXCEPT !.stopping = TRUE]

Stopped(e) == [e EXCEPT !.stopping = TRUE, !.pendingWake = FALSE]

\* interrupt of an idle key changes nothing and is not an action.
\* Fiber.interrupt of a fiber that has ended returns at once.
Interrupt(c, k) ==
  /\ Ready(c)
  /\ IsActive(k)
  /\ active' = [active EXCEPT ![k] = Stopped(active[k])]
  /\ fiber' = [fiber EXCEPT ![active[k].owner].pc = Signalled(fiber[active[k].owner].pc)]
  /\ caller' = [caller EXCEPT ![c] = IF Live(active[k].owner) THEN Interrupting(active[k].owner) ELSE At("idle")]
  /\ promise' = [promise EXCEPT ![k] = "none"]

\* The client fiber is itself interrupted: `restore` lets go of the await.
Abandon(c) == /\ caller[c].pc \in {"joined", "rejoining", "rerun", "interrupting"}
              /\ caller' = [caller EXCEPT ![c] = At("idle")]
              /\ UNCHANGED <<active, fiber, promise>>

-----------------------------------------------------------------------------
(* What the scheduler resumes.                                             *)

\* The successor returns from yieldNow and calls drain(key, false).
Begin(f) == /\ fiber[f].pc = "scheduled"
            /\ fiber' = [fiber EXCEPT ![f].pc = "running"]
            /\ promise' = [promise EXCEPT ![fiber[f].key] = "begun"]
            /\ UNCHANGED <<active, caller>>

\* drain ends on its own, or its cleanup ends and decides the exit.  A fiber
\* cancelled before it began ends as interrupted.
Finish(f, exit) ==
  /\ \/ fiber[f].pc \in {"running", "cleanup"}
     \/ fiber[f].pc = "cancelled" /\ exit = "error"
  /\ Settle(fiber[f].key, f, exit)
  /\ UNCHANGED promise

\* The recursive run(key) of a caller that met a stopping entry.
Rerun(c) == /\ caller[c].pc = "rerun"
            /\ RunIdle(c, caller[c].key) \/ RunActive(c, caller[c].key)

Next == \/ \E k \in Keys : WakeIdle(k) \/ WakeActive(k)
        \/ \E c \in Callers, k \in Keys : Run(c, k) \/ Interrupt(c, k)
        \/ \E c \in Callers : Abandon(c) \/ Rerun(c)
        \/ \E f \in Fibers : Begin(f)
        \/ \E f \in Fibers, exit \in Exits : Finish(f, exit)

Spec == Init /\ [][Next]_vars

\* A resumable fiber is eventually resumed, and one cancelled before its drain
\* began ends.  Nothing is assumed of a drain: it may run for ever.
Fairness == /\ \A f \in Fibers : /\ WF_vars(Begin(f))
                                 /\ WF_vars(fiber[f].pc = "cancelled" /\ Finish(f, "error"))
            /\ \A c \in Callers : WF_vars(Rerun(c))

FairSpec == Spec /\ Fairness

-----------------------------------------------------------------------------
(* Safety.                                                                 *)

\* "Serializes execution for each key" (line 5): two drains of one Session
\* are never alive together, an interrupted one in its cleanup included.
SerialPerKey ==
  \A f, g \in Fibers : Live(f) /\ Live(g) /\ fiber[f].key = fiber[g].key => f = g

\* The registry and the fibers agree: the owner of a registered entry is a
\* live fiber of its key, and every live fiber owns the entry of its key, so
\* an interrupt reaches the execution there is and no drain outlives its entry.
RegistryOwned ==
  /\ \A k \in Keys : IsActive(k) => /\ active[k].owner \in Fibers
                                    /\ Live(active[k].owner)
                                    /\ fiber[active[k].owner].key = k
  /\ \A f \in Fibers : Live(f) => /\ fiber[f].key \in Keys
                                  /\ active[fiber[f].key].owner = f

\* No client waits for what will not happen: the entry it awaits is
\* registered, the fiber it awaits is alive.
NoOrphanWaiter ==
  \A c \in Callers :
    /\ caller[c].pc \in {"joined", "rejoining"} => IsActive(caller[c].key)
    /\ caller[c].pc = "interrupting" => Live(caller[c].fiber)

\* "Stops active execution and waits for its cleanup" (line 14): whatever went
\* around or took over before, the execution of a Session that was asked to stop
\* is in its cleanup or will not begin; an interrupt never reaches an owner that
\* has ended and leaves the one at work running.
InterruptReaches ==
  \A k \in Keys : IsActive(k) /\ active[k].stopping =>
    \A f \in Fibers : Live(f) /\ fiber[f].key = k => fiber[f].pc \in {"cleanup", "cancelled"}

\* A wake that arrives during a drain, its failure or its interruption
\* cleanup is remembered until a drain begins after it; an interrupt leaves
\* nothing to begin until the key is asked for again.
Remembered(k) == IsActive(k) /\ (active[k].pendingWake \/ fiber[active[k].owner].pc = "scheduled")
WakeRemembered == \A k \in Keys : /\ promise[k] = "owed" => Remembered(k)
                                  /\ promise[k] = "none" => ~Remembered(k)

\* test/session-run-coordinator.test.ts:285: "starts a resume registered
\* during interruption cleanup" - a run that met a stopping entry goes on to
\* run (unless its own fiber is interrupted) and never just fails.
ResumeDuringCleanupStarts ==
  [][\A c \in Callers : caller[c].pc = "rejoining" => caller'[c].pc # "failed"]_vars

-----------------------------------------------------------------------------
(* Refinement.                                                             *)

\* A key is busy while a fiber is inside drain; what it owes is what the
\* registry remembers (not the history variable, which WakeRemembered
\* compares with it).
busyMapped == [k \in Keys |-> \E f \in Fibers : fiber[f].key = k /\ fiber[f].pc \in {"running", "cleanup"}]
owedMapped == [k \in Keys |-> Remembered(k)]

Abstract == INSTANCE SerialDrain WITH busy <- busyMapped, owed <- owedMapped

\* The coordinator implements SerialDrain, its liveness included: what is owed
\* begins.
ImplementsSerialDrain == Abstract!Spec

=============================================================================
