------------------------- MODULE RunCoordinatorProofs -------------------------
(***************************************************************************)
(* The safety of the run coordinator, for any sets of Sessions, fibers and *)
(* clients.  The inductive invariant is the conjunction of the type        *)
(* invariant, the agreement of registry and fibers, the absence of orphan  *)
(* waiters and the memory of wakes; serial execution, the refinement of    *)
(* SerialDrain and what an interrupt reaches follow from it.               *)
(***************************************************************************)
EXTENDS RunCoordinator, TLAPS

IInv == TypeOK /\ RegistryOwned /\ NoOrphanWaiter /\ WakeRemembered

\* A fresh fiber is not alive.
LEMMA FreshFiber ==
  ASSUME NEW f \in Fibers, IsFresh(f)
  PROVE  ~Live(f)
BY DEF IsFresh, FreeFibers

\* A live fiber owns the registered entry of its key; no other fiber of that
\* key is alive.
LEMMA LiveOwns ==
  ASSUME IInv, NEW f \in Fibers, Live(f)
  PROVE  /\ fiber[f].key \in Keys
         /\ IsActive(fiber[f].key)
         /\ active[fiber[f].key] \in Entry
         /\ active[fiber[f].key].owner = f
         /\ \A g \in Fibers : Live(g) /\ fiber[g].key = fiber[f].key => g = f
BY NoneAssumption DEF IInv, TypeOK, RegistryOwned, IsActive, NoEntry, Entry

\* The registry starts empty and every fiber has ended.
LEMMA InitIInv == Init => IInv
BY NoneAssumption DEF Init, IInv, TypeOK, RegistryOwned, NoOrphanWaiter, WakeRemembered,
   Remembered, IsActive, Live, NoEntry, Ended, At, FiberState, CallerState, Promises

\* An execution started on an idle key.
LEMMA StartFreshStep ==
  ASSUME IInv, NEW k \in Keys, NEW f \in Fibers, NEW force \in BOOLEAN,
         StartFresh(k, f, force),
         caller' \in [Callers -> CallerState],
         \A c \in Callers : \/ caller'[c] = caller[c]
                            \/ caller'[c] = Awaiting("joined", k)
  PROVE  IInv'
<1> USE DEF IInv, StartFresh, IsActive, Live, MakeEntry, Begun
<1>1. ~Live(f)
  BY FreshFiber
<1>2. TypeOK'
  BY DEF TypeOK, Entry, NoEntry, FiberState, Promises
<1>3. RegistryOwned'
  <2>1. ASSUME NEW j \in Keys, IsActive(j)'
        PROVE  (active[j].owner \in Fibers /\ Live(active[j].owner) /\ fiber[active[j].owner].key = j)'
    BY <1>1, <2>1, NoneAssumption DEF TypeOK, RegistryOwned, NoEntry
  <2>2. ASSUME NEW g \in Fibers, Live(g)'
        PROVE  (fiber[g].key \in Keys /\ active[fiber[g].key].owner = g)'
    BY <1>1, <2>2, LiveOwns, NoneAssumption DEF TypeOK, RegistryOwned, NoEntry
  <2> QED BY <2>1, <2>2 DEF RegistryOwned
<1>4. NoOrphanWaiter'
  <2> SUFFICES ASSUME NEW c \in Callers
               PROVE  (/\ caller[c].pc \in {"joined", "rejoining"} => IsActive(caller[c].key)
                       /\ caller[c].pc = "interrupting" => Live(caller[c].fiber))'
    BY DEF NoOrphanWaiter
  <2>1. IsActive(k)' /\ \A j \in Keys : IsActive(j) => IsActive(j)'
    BY NoneAssumption DEF TypeOK, NoEntry
  <2>2. \A g \in Fibers : Live(g) => Live(g)'
    BY <1>1 DEF TypeOK
  <2>3. CASE caller'[c] = Awaiting("joined", k)
    BY <2>1, <2>3 DEF Awaiting
  <2>4. CASE caller'[c] = caller[c]
    <3>1. caller[c] \in CallerState
      BY DEF TypeOK
    <3>2. caller[c].pc \in {"joined", "rejoining"} => caller[c].key \in Keys
      BY <3>1 DEF CallerState
    <3>3. caller[c].pc = "interrupting" => caller[c].fiber \in Fibers
      BY <3>1 DEF CallerState
    <3> QED BY <2>1, <2>2, <2>4, <3>2, <3>3 DEF NoOrphanWaiter
  <2> QED BY <2>3, <2>4
<1>5. WakeRemembered'
  BY <1>1, NoneAssumption DEF TypeOK, RegistryOwned, WakeRemembered, Remembered, NoEntry
<1> QED BY <1>2, <1>3, <1>4, <1>5

\* What every form of settle does to the clients: those that awaited fiber f
\* are released, those that awaited the entry of key k may be completed, and
\* nobody starts to wait.
LEMMA SettledCallers ==
  ASSUME TypeOK, NEW k \in Keys, NEW f \in Fibers, NEW exit \in Exits,
         caller' = [c \in Callers |-> IF Released(c, f) THEN At("idle") ELSE Completed(c, k, exit)]
  PROVE  /\ caller' \in [Callers -> CallerState]
         /\ \A c \in Callers :
              /\ caller'[c].pc \in {"joined", "rejoining"} =>
                   caller'[c] = caller[c] /\ caller[c].key \in Keys \ {k}
              /\ caller'[c].pc = "interrupting" =>
                   caller'[c] = caller[c] /\ caller[c].fiber \in Fibers \ {f}
<1>1. SUFFICES ASSUME NEW c \in Callers
               PROVE  LET r == IF Released(c, f) THEN At("idle") ELSE Completed(c, k, exit) IN
                      /\ r \in CallerState
                      /\ r.pc \in {"joined", "rejoining"} => r = caller[c] /\ caller[c].key \in Keys \ {k}
                      /\ r.pc = "interrupting" => r = caller[c] /\ caller[c].fiber \in Fibers \ {f}
  OBVIOUS
<1>2. caller[c] \in CallerState
  BY DEF TypeOK
<1>3. CASE caller[c].pc = "joined"
  BY <1>2, <1>3 DEF CallerState, Released, Completed, Interrupting, Awaiting, At, Exits
<1>4. CASE caller[c].pc = "rejoining"
  BY <1>2, <1>4 DEF CallerState, Released, Completed, Interrupting, Awaiting, At, Exits
<1>5. CASE caller[c].pc = "interrupting"
  BY <1>2, <1>5 DEF CallerState, Released, Completed, Interrupting, Awaiting, At, Exits
<1>6. CASE caller[c].pc \in {"rerun", "idle", "succeeded", "failed"}
  BY <1>2, <1>6 DEF CallerState, Released, Completed, Interrupting, Awaiting, At, Exits
<1> QED BY <1>2, <1>3, <1>4, <1>5, <1>6 DEF CallerState

\* Fiber f, the owner of the entry of key k, ends and leaves the key idle.
LEMMA SettleIdleStep ==
  ASSUME IInv, NEW k \in Keys, NEW f \in Fibers, NEW exit \in Exits,
         Live(f), fiber[f].pc # "scheduled", fiber[f].key = k,
         SettleIdle(k, f, exit), UNCHANGED promise
  PROVE  IInv'
<1>1. /\ IsActive(k) /\ active[k] \in Entry /\ active[k].owner = f
      /\ \A g \in Fibers : Live(g) /\ fiber[g].key = k => g = f
  BY LiveOwns
<1>2. TypeOK
  BY DEF IInv
<1>3. \A j \in Keys \ {k} : active'[j] = active[j]
  BY <1>2 DEF SettleIdle, TypeOK
<1>4. /\ ~IsActive(k)' /\ ~Live(f)'
      /\ \A g \in Fibers \ {f} : fiber'[g] = fiber[g]
  BY <1>2 DEF SettleIdle, TypeOK, IsActive, Live, Ended
<1>5. TypeOK'
  BY <1>2, SettledCallers DEF SettleIdle, TypeOK, NoEntry, Ended, FiberState
<1>6. RegistryOwned'
  <2>1. ASSUME NEW j \in Keys, IsActive(j)'
        PROVE  (active[j].owner \in Fibers /\ Live(active[j].owner) /\ fiber[active[j].owner].key = j)'
    <3>1. j # k /\ IsActive(j) /\ active'[j] = active[j]
      BY <1>3, <1>4, <2>1 DEF IsActive
    <3>2. active[j].owner \in Fibers \ {f} /\ Live(active[j].owner) /\ fiber[active[j].owner].key = j
      BY <3>1 DEF IInv, RegistryOwned
    <3> QED BY <1>4, <3>1, <3>2 DEF Live
  <2>2. ASSUME NEW g \in Fibers, Live(g)'
        PROVE  (fiber[g].key \in Keys /\ active[fiber[g].key].owner = g)'
    <3>1. g # f /\ fiber'[g] = fiber[g] /\ Live(g)
      BY <1>4, <2>2 DEF Live
    <3>2. fiber[g].key \in Keys \ {k} /\ active[fiber[g].key].owner = g
      BY <1>1, <3>1, LiveOwns
    <3> QED BY <1>3, <3>1, <3>2
  <2> QED BY <2>1, <2>2 DEF RegistryOwned
<1>7. NoOrphanWaiter'
  <2>1. \A j \in Keys \ {k} : IsActive(j) => IsActive(j)'
    BY <1>3 DEF IsActive
  <2>2. \A g \in Fibers \ {f} : Live(g) => Live(g)'
    BY <1>4 DEF Live
  <2> QED BY <1>2, <2>1, <2>2, SettledCallers DEF SettleIdle, NoOrphanWaiter, IInv
<1>8. WakeRemembered'
  <2>1. ASSUME NEW j \in Keys \ {k}
        PROVE  Remembered(j)' <=> Remembered(j)
    <3>1. CASE ~IsActive(j)
      BY <1>3, <3>1 DEF Remembered, IsActive
    <3>2. CASE IsActive(j)
      <4>1. active[j].owner \in Fibers \ {f}
        BY <3>2 DEF IInv, RegistryOwned
      <4> QED BY <1>3, <1>4, <4>1 DEF Remembered, IsActive
    <3> QED BY <3>1, <3>2
  <2>2. ~Remembered(k) /\ ~Remembered(k)'
    BY <1>1, <1>4 DEF SettleIdle, Remembered
  <2> QED BY <2>1, <2>2 DEF WakeRemembered, IInv
<1> QED BY <1>5, <1>6, <1>7, <1>8 DEF IInv

\* Fiber f ends and a fresh fiber g is scheduled as the owner of an entry of
\* key k: the same one going around again, or that of a successor.
LEMMA SuccessorStep ==
  ASSUME IInv, NEW k \in Keys, NEW f \in Fibers, NEW g \in Fibers, NEW e \in Entry,
         Live(f), fiber[f].key = k, IsFresh(g), e.owner = g, active[k].pendingWake,
         active' = [active EXCEPT ![k] = e],
         fiber' = [fiber EXCEPT ![f] = Ended, ![g] = Scheduled(k)],
         caller' \in [Callers -> CallerState],
         \A c \in Callers :
           /\ caller'[c].pc \in {"joined", "rejoining"} => caller'[c] = caller[c]
           /\ caller'[c].pc = "interrupting" => caller'[c] = caller[c] /\ caller[c].fiber # f,
         UNCHANGED promise
  PROVE  IInv'
<1>1. /\ IsActive(k) /\ active[k].owner = f
      /\ \A h \in Fibers : Live(h) /\ fiber[h].key = k => h = f
  BY LiveOwns
<1>2. TypeOK /\ ~Live(g) /\ g # f
  BY FreshFiber DEF IInv
<1>3. /\ active'[k] = e
      /\ \A j \in Keys \ {k} : active'[j] = active[j]
  BY <1>2 DEF TypeOK
<1>4. /\ fiber'[f] = Ended /\ fiber'[g] = Scheduled(k)
      /\ \A h \in Fibers \ {f, g} : fiber'[h] = fiber[h]
  BY <1>2 DEF TypeOK
<1>5. IsActive(k)' /\ ~Live(f)' /\ Live(g)'
  BY <1>3, <1>4, NoneAssumption DEF IsActive, NoEntry, Entry, Live, Ended, Scheduled
<1>6. TypeOK'
  BY <1>2 DEF TypeOK, Ended, Scheduled, FiberState
<1>7. RegistryOwned'
  <2>1. ASSUME NEW j \in Keys, IsActive(j)'
        PROVE  (active[j].owner \in Fibers /\ Live(active[j].owner) /\ fiber[active[j].owner].key = j)'
    <3>1. CASE j = k
      BY <1>3, <1>4, <1>5, <3>1 DEF Scheduled
    <3>2. CASE j # k
      <4>1. IsActive(j) /\ active'[j] = active[j]
        BY <1>3, <2>1, <3>2 DEF IsActive
      <4>2. active[j].owner \in Fibers \ {f, g} /\ Live(active[j].owner) /\ fiber[active[j].owner].key = j
        BY <1>2, <3>2, <4>1 DEF IInv, RegistryOwned
      <4> QED BY <1>4, <4>1, <4>2 DEF Live
    <3> QED BY <3>1, <3>2
  <2>2. ASSUME NEW h \in Fibers, Live(h)'
        PROVE  (fiber[h].key \in Keys /\ active[fiber[h].key].owner = h)'
    <3>1. CASE h = g
      BY <1>3, <1>4, <3>1 DEF Scheduled
    <3>2. CASE h # g
      <4>1. h # f /\ fiber'[h] = fiber[h] /\ Live(h)
        BY <1>4, <1>5, <2>2, <3>2 DEF Live
      <4>2. fiber[h].key \in Keys \ {k} /\ active[fiber[h].key].owner = h
        BY <1>1, <4>1, LiveOwns
      <4> QED BY <1>3, <4>1, <4>2
    <3> QED BY <3>1, <3>2
  <2> QED BY <2>1, <2>2 DEF RegistryOwned
<1>8. NoOrphanWaiter'
  <2>1. \A j \in Keys : IsActive(j) => IsActive(j)'
    BY <1>3, <1>5 DEF IsActive
  <2>2. \A h \in Fibers \ {f} : Live(h) => Live(h)'
    BY <1>2, <1>4 DEF Live
  <2>3. \A c \in Callers : /\ caller[c].pc \in {"joined", "rejoining"} => caller[c].key \in Keys
                           /\ caller[c].pc = "interrupting" => caller[c].fiber \in Fibers
    BY <1>2 DEF TypeOK, CallerState
  <2> QED BY <2>1, <2>2, <2>3 DEF NoOrphanWaiter, IInv
<1>9. WakeRemembered'
  <2>1. ASSUME NEW j \in Keys \ {k}
        PROVE  Remembered(j)' <=> Remembered(j)
    <3>1. CASE ~IsActive(j)
      BY <1>3, <3>1 DEF Remembered, IsActive
    <3>2. CASE IsActive(j)
      <4>1. active[j].owner \in Fibers \ {f, g}
        BY <1>2, <3>2 DEF IInv, RegistryOwned
      <4> QED BY <1>3, <1>4, <4>1 DEF Remembered, IsActive
    <3> QED BY <3>1, <3>2
  <2>2. Remembered(k) /\ Remembered(k)'
    BY <1>1, <1>3, <1>4, <1>5 DEF Remembered, Scheduled
  <2> QED BY <2>1, <2>2 DEF WakeRemembered, IInv
<1> QED BY <1>6, <1>7, <1>8, <1>9 DEF IInv

\* An execution ends, and settle decides what follows.
LEMMA FinishStep ==
  ASSUME IInv, NEW f \in Fibers, NEW exit \in Exits, Finish(f, exit)
  PROVE  IInv'
<1> DEFINE k == fiber[f].key
<1>1. /\ Live(f) /\ fiber[f].pc # "scheduled"
      /\ Settle(k, f, exit) /\ UNCHANGED promise
  BY DEF Finish, Live
<1>2. k \in Keys /\ active[k] \in Entry
  BY <1>1, LiveOwns
<1>3. TypeOK
  BY DEF IInv
<1>4. ASSUME NEW g \in Fibers, IsFresh(g), SettleAgain(k, f, g, exit)
      PROVE  IInv'
  <2> DEFINE e == [active[k] EXCEPT !.pendingWake = FALSE, !.owner = g]
  <2>1. e \in Entry /\ e.owner = g /\ active' = [active EXCEPT ![k] = e] /\ active[k].pendingWake
    BY <1>2, <1>3, <1>4 DEF SettleAgain, GoesAround, Entry, TypeOK
  <2>2. caller' \in [Callers -> CallerState]
    BY <1>3, <1>4 DEF SettleAgain, TypeOK, At, CallerState
  <2>3. \A c \in Callers :
          /\ caller'[c].pc \in {"joined", "rejoining"} => caller'[c] = caller[c]
          /\ caller'[c].pc = "interrupting" => caller'[c] = caller[c] /\ caller[c].fiber # f
    BY <1>3, <1>4 DEF SettleAgain, Released, Interrupting, At, TypeOK, CallerState
  <2> HIDE DEF e
  <2> QED BY <1>1, <1>2, <1>4, <2>1, <2>2, <2>3, SuccessorStep DEF SettleAgain
<1>5. ASSUME NEW g \in Fibers, IsFresh(g), SettleWithSuccessor(k, f, g, exit)
      PROVE  IInv'
  <2>1. MakeEntry(g) \in Entry /\ MakeEntry(g).owner = g
    BY DEF MakeEntry, Entry
  <2>2. /\ caller' \in [Callers -> CallerState]
        /\ \A c \in Callers :
             /\ caller'[c].pc \in {"joined", "rejoining"} => caller'[c] = caller[c]
             /\ caller'[c].pc = "interrupting" => caller'[c] = caller[c] /\ caller[c].fiber # f
    BY <1>2, <1>3, <1>5, SettledCallers DEF SettleWithSuccessor
  <2> QED BY <1>1, <1>2, <1>5, <2>1, <2>2, SuccessorStep DEF SettleWithSuccessor
<1>6. ASSUME SettleIdle(k, f, exit)
      PROVE  IInv'
  BY <1>1, <1>2, <1>6, SettleIdleStep
<1> QED BY <1>1, <1>4, <1>5, <1>6 DEF Settle

\* A wake meets an active entry and is remembered there.
LEMMA WakeActiveStep ==
  ASSUME IInv, NEW k \in Keys, WakeActive(k)
  PROVE  IInv'
<1> DEFINE e == [active[k] EXCEPT !.pendingWake = TRUE]
<1>1. TypeOK /\ active[k] \in Entry /\ e \in Entry /\ e.owner = active[k].owner /\ e.pendingWake
  BY DEF IInv, TypeOK, WakeActive, IsActive, Entry
<1>2. active'[k] = e /\ \A j \in Keys \ {k} : active'[j] = active[j]
  BY <1>1 DEF TypeOK, WakeActive
<1>3. active' \in [Keys -> Entry \cup {NoEntry}]
  BY <1>1 DEF TypeOK, WakeActive
<1>4. \A j \in Keys : IsActive(j)' <=> IsActive(j)
  BY <1>1, <1>2, NoneAssumption DEF WakeActive, IsActive, NoEntry, Entry
<1>5. \A j \in Keys : active'[j].owner = active[j].owner
  BY <1>1, <1>2
<1> HIDE DEF e
<1>6. TypeOK'
  BY <1>1, <1>3 DEF TypeOK, WakeActive, Promises
<1>7. RegistryOwned'
  BY <1>4, <1>5 DEF IInv, RegistryOwned, WakeActive, Live
<1>8. NoOrphanWaiter'
  BY <1>1, <1>4 DEF IInv, NoOrphanWaiter, WakeActive, Live, TypeOK, CallerState
<1>9. WakeRemembered'
  BY <1>1, <1>2, <1>4, <1>5 DEF IInv, WakeRemembered, Remembered, WakeActive, TypeOK
<1> QED BY <1>6, <1>7, <1>8, <1>9 DEF IInv

\* A signalled fiber stays alive: it has its cleanup to run, or to settle.
LEMMA InterruptStep ==
  ASSUME IInv, NEW c \in Callers, NEW k \in Keys, Interrupt(c, k)
  PROVE  IInv'
<1> DEFINE f == active[k].owner
           e == Stopped(active[k])
<1>1. TypeOK /\ active[k] \in Entry /\ IsActive(k)
  BY DEF IInv, TypeOK, Interrupt, IsActive
<1>2. f \in Fibers /\ Live(f) /\ fiber[f].key = k
  BY <1>1 DEF IInv, RegistryOwned
<1>3. e \in Entry /\ e.owner = f /\ ~e.pendingWake
  BY <1>1 DEF Stopped, Entry
<1>4. active'[k] = e /\ \A j \in Keys \ {k} : active'[j] = active[j]
  BY <1>1 DEF TypeOK, Interrupt
<1>5. \A j \in Keys : (IsActive(j)' <=> IsActive(j)) /\ active'[j].owner = active[j].owner
  BY <1>1, <1>3, <1>4, NoneAssumption DEF IsActive, NoEntry, Entry
<1>6. Signalled(fiber[f].pc) \in {"cleanup", "cancelled"}
  BY <1>1, <1>2 DEF Signalled, TypeOK, FiberState, Live
<1>7. /\ fiber' \in [Fibers -> FiberState]
      /\ fiber'[f].pc \in {"cleanup", "cancelled"} /\ fiber'[f].key = k
      /\ \A g \in Fibers \ {f} : fiber'[g] = fiber[g]
  BY <1>1, <1>2, <1>6 DEF Interrupt, TypeOK, FiberState, Live
<1>8. /\ caller' \in [Callers -> CallerState]
      /\ caller'[c] = Interrupting(f)
      /\ \A d \in Callers \ {c} : caller'[d] = caller[d]
  BY <1>1, <1>2 DEF Interrupt, TypeOK, CallerState, Interrupting
<1>9. \A g \in Fibers : (Live(g)' <=> Live(g)) /\ fiber'[g].key = fiber[g].key
  BY <1>2, <1>7 DEF Live
<1>10. active' \in [Keys -> Entry \cup {NoEntry}] /\ promise' \in [Keys -> Promises]
  BY <1>1, <1>3 DEF TypeOK, Interrupt, Promises
<1>11. promise'[k] = "none" /\ \A j \in Keys \ {k} : promise'[j] = promise[j]
  BY <1>1 DEF TypeOK, Interrupt
<1> HIDE DEF f, e
<1>12. TypeOK'
  BY <1>7, <1>8, <1>10 DEF TypeOK
<1>13. RegistryOwned'
  BY <1>5, <1>9 DEF IInv, RegistryOwned
<1>14. NoOrphanWaiter'
  <2> SUFFICES ASSUME NEW d \in Callers
               PROVE  (/\ caller[d].pc \in {"joined", "rejoining"} => IsActive(caller[d].key)
                       /\ caller[d].pc = "interrupting" => Live(caller[d].fiber))'
    BY DEF NoOrphanWaiter
  <2>1. CASE d = c
    BY <1>2, <1>8, <1>9, <2>1 DEF Interrupting
  <2>2. CASE d # c
    <3>1. /\ caller[d].pc \in {"joined", "rejoining"} => caller[d].key \in Keys
          /\ caller[d].pc = "interrupting" => caller[d].fiber \in Fibers
      BY <1>1 DEF TypeOK, CallerState
    <3> QED BY <1>5, <1>8, <1>9, <2>2, <3>1 DEF IInv, NoOrphanWaiter
  <2> QED BY <2>1, <2>2
<1>15. WakeRemembered'
  <2>1. ~Remembered(k)'
    BY <1>3, <1>4, <1>7 DEF Remembered
  <2>2. ASSUME NEW j \in Keys \ {k}
        PROVE  Remembered(j)' <=> Remembered(j)
    <3>1. CASE ~IsActive(j)
      BY <1>5, <3>1 DEF Remembered
    <3>2. CASE IsActive(j)
      <4>1. active[j].owner \in Fibers \ {f}
        BY <1>2, <3>2 DEF IInv, RegistryOwned
      <4> QED BY <1>4, <1>5, <1>7, <4>1 DEF Remembered
    <3> QED BY <3>1, <3>2
  <2> QED BY <1>11, <2>1, <2>2 DEF IInv, WakeRemembered
<1> QED BY <1>12, <1>13, <1>14, <1>15 DEF IInv

\* A successor whose drain begins pays what its key was owed.
LEMMA BeginStep ==
  ASSUME IInv, NEW f \in Fibers, Begin(f)
  PROVE  IInv'
<1> DEFINE k == fiber[f].key
<1>1. TypeOK /\ Live(f) /\ k \in Keys /\ active[k].owner = f
  BY LiveOwns DEF IInv, Begin, Live
<1>2. /\ fiber' \in [Fibers -> FiberState]
      /\ fiber'[f].pc = "running" /\ fiber'[f].key = k
      /\ \A g \in Fibers \ {f} : fiber'[g] = fiber[g]
  BY <1>1 DEF Begin, TypeOK, FiberState
<1>3. \A g \in Fibers : (Live(g)' <=> Live(g)) /\ fiber'[g].key = fiber[g].key
  BY <1>1, <1>2 DEF Live
<1>4. /\ promise' \in [Keys -> Promises] /\ promise'[k] = "begun"
      /\ \A j \in Keys \ {k} : promise'[j] = promise[j]
  BY <1>1 DEF Begin, TypeOK, Promises
<1>5. UNCHANGED <<active, caller>>
  BY DEF Begin
<1> HIDE DEF k
<1>6. TypeOK'
  BY <1>1, <1>2, <1>4, <1>5 DEF TypeOK
<1>7. RegistryOwned'
  BY <1>3, <1>5 DEF IInv, RegistryOwned, IsActive
<1>8. NoOrphanWaiter'
  BY <1>1, <1>3, <1>5 DEF IInv, NoOrphanWaiter, IsActive, TypeOK, CallerState
<1>9. WakeRemembered'
  <2>1. ASSUME NEW j \in Keys \ {k}
        PROVE  Remembered(j)' <=> Remembered(j)
    <3>1. IsActive(j) => active[j].owner \in Fibers \ {f}
      BY <1>1 DEF IInv, RegistryOwned, k
    <3> QED BY <1>2, <1>5, <3>1 DEF Remembered, IsActive
  <2> QED BY <1>4, <2>1 DEF IInv, WakeRemembered
<1> QED BY <1>6, <1>7, <1>8, <1>9 DEF IInv

\* Client steps that leave the registry alone: a caller joins, defers to a
\* stopping entry, or gives up.
LEMMA CallerStep ==
  ASSUME IInv, NEW c \in Callers, UNCHANGED <<active, fiber, promise>>,
         \/ caller' = [caller EXCEPT ![c] = At("idle")]
         \/ \E k \in Keys, pc \in {"joined", "rejoining"} :
              IsActive(k) /\ caller' = [caller EXCEPT ![c] = Awaiting(pc, k)]
  PROVE  IInv'
<1>1. TypeOK'
  BY DEF IInv, TypeOK, CallerState, At, Awaiting
<1>2. NoOrphanWaiter'
  BY DEF IInv, TypeOK, NoOrphanWaiter, IsActive, Live, CallerState, At, Awaiting
<1> QED BY <1>1, <1>2 DEF IInv, RegistryOwned, WakeRemembered, Remembered, IsActive, Live

\* run, whether called by a ready client or again by one that waited.
LEMMA RunStep ==
  ASSUME IInv, NEW c \in Callers, NEW k \in Keys, RunIdle(c, k) \/ RunActive(c, k)
  PROVE  IInv'
<1>1. CASE RunIdle(c, k)
  <2>1. PICK f \in Fibers : /\ StartFresh(k, f, TRUE)
                            /\ caller' = [caller EXCEPT ![c] = Awaiting("joined", k)]
    BY <1>1 DEF RunIdle
  <2>2. /\ caller' \in [Callers -> CallerState]
        /\ \A d \in Callers : caller'[d] = caller[d] \/ caller'[d] = Awaiting("joined", k)
    BY <2>1 DEF IInv, TypeOK, Awaiting, CallerState
  <2> QED BY <2>1, <2>2, StartFreshStep
<1>2. CASE RunActive(c, k)
  <2>1. PICK pc \in {"joined", "rejoining"} : caller' = [caller EXCEPT ![c] = Awaiting(pc, k)]
    BY <1>2 DEF RunActive
  <2> QED BY <1>2, <2>1, CallerStep DEF RunActive
<1> QED BY <1>1, <1>2

\* Every step, stuttering included, keeps the invariant.
LEMMA NextIInv == IInv /\ [Next]_vars => IInv'
<1> SUFFICES ASSUME IInv, [Next]_vars PROVE IInv'
  OBVIOUS
<1>1. ASSUME NEW k \in Keys, WakeIdle(k) PROVE IInv'
  <2>1. caller' \in [Callers -> CallerState] /\ \A c \in Callers : caller'[c] = caller[c]
    BY <1>1 DEF WakeIdle, IInv, TypeOK
  <2> QED BY <1>1, <2>1, StartFreshStep DEF WakeIdle
<1>2. ASSUME NEW k \in Keys, WakeActive(k) PROVE IInv'
  BY <1>2, WakeActiveStep
<1>3. ASSUME NEW c \in Callers, NEW k \in Keys, Run(c, k) PROVE IInv'
  BY <1>3, RunStep DEF Run
<1>4. ASSUME NEW c \in Callers, NEW k \in Keys, Interrupt(c, k) PROVE IInv'
  BY <1>4, InterruptStep
<1>5. ASSUME NEW c \in Callers, Abandon(c) PROVE IInv'
  BY <1>5, CallerStep DEF Abandon
<1>6. ASSUME NEW c \in Callers, Rerun(c) PROVE IInv'
  <2>1. caller[c].key \in Keys
    BY <1>6 DEF Rerun, IInv, TypeOK, CallerState
  <2> QED BY <1>6, <2>1, RunStep DEF Rerun
<1>7. ASSUME NEW f \in Fibers, Begin(f) PROVE IInv'
  BY <1>7, BeginStep
<1>8. ASSUME NEW f \in Fibers, NEW exit \in Exits, Finish(f, exit) PROVE IInv'
  BY <1>8, FinishStep
<1>9. CASE UNCHANGED vars
  BY <1>9 DEF vars, IInv, TypeOK, RegistryOwned, NoOrphanWaiter, WakeRemembered, Remembered, IsActive, Live
<1> QED BY <1>1, <1>2, <1>3, <1>4, <1>5, <1>6, <1>7, <1>8, <1>9 DEF Next

\* The invariant holds in every reachable state.
THEOREM Invariance == Spec => []IInv
<1>1. IInv /\ [Next]_vars => IInv'
  BY NextIInv
<1> QED BY InitIInv, <1>1, PTL DEF Spec

\* Every variable keeps its type, whatever clients and scheduler do.
THEOREM TypeCorrect == Spec => []TypeOK
BY Invariance, PTL DEF IInv

\* "Serializes execution for each key": at most one fiber per Session lives.
THEOREM SerialExecution == Spec => []SerialPerKey
<1>1. IInv => SerialPerKey
  BY LiveOwns DEF SerialPerKey
<1> QED BY Invariance, <1>1, PTL

\* The registry names the live execution of every Session, and nothing else.
THEOREM RegistryAgrees == Spec => []RegistryOwned
BY Invariance, PTL DEF IInv

\* No client awaits an entry that is gone or a fiber that has ended.
THEOREM NobodyOrphaned == Spec => []NoOrphanWaiter
BY Invariance, PTL DEF IInv

\* No wake is lost but to an interrupt, which leaves nothing to begin.
THEOREM WakesRemembered == Spec => []WakeRemembered
BY Invariance, PTL DEF IInv

-----------------------------------------------------------------------------
(* The coordinator implements SerialDrain: every step is one of its steps  *)
(* for one key, or changes neither who is busy nor what is owed.           *)

\* What a key is busy with is what its owner does.
BusyOwners ==
  \A k \in Keys : busyMapped[k] = (IsActive(k) /\ fiber[active[k].owner].pc \in {"running", "cleanup"})

LEMMA BusyOwner == IInv => BusyOwners
<1> SUFFICES ASSUME IInv, NEW k \in Keys
             PROVE  busyMapped[k] = (IsActive(k) /\ fiber[active[k].owner].pc \in {"running", "cleanup"})
  BY DEF BusyOwners
<1>1. ASSUME NEW f \in Fibers, fiber[f].key = k, fiber[f].pc \in {"running", "cleanup"}
      PROVE  IsActive(k) /\ active[k].owner = f
  BY <1>1, LiveOwns DEF Live
<1>2. ASSUME IsActive(k)
      PROVE  active[k].owner \in Fibers /\ fiber[active[k].owner].key = k
  BY <1>2 DEF IInv, RegistryOwned
<1> QED BY <1>1, <1>2 DEF busyMapped

\* A key whose entry and owner stay as they are is as busy and owed as before.
LEMMA KeyUnchanged ==
  ASSUME IInv, IInv', NEW k \in Keys, active'[k] = active[k],
         IsActive(k) => fiber'[active[k].owner] = fiber[active[k].owner]
  PROVE  busyMapped'[k] = busyMapped[k] /\ owedMapped'[k] = owedMapped[k]
<1>1. BusyOwners /\ BusyOwners'
  BY BusyOwner, PTL
<1> QED BY <1>1 DEF BusyOwners, owedMapped, Remembered, IsActive

\* Two active keys have two owners.
LEMMA OwnersDiffer ==
  ASSUME IInv, NEW j \in Keys, NEW k \in Keys, j # k, IsActive(j), IsActive(k)
  PROVE  active[j].owner # active[k].owner
BY DEF IInv, RegistryOwned

\* An owner is alive.
LEMMA OwnerNotFresh ==
  ASSUME IInv, NEW j \in Keys, IsActive(j), NEW f \in Fibers, ~Live(f)
  PROVE  active[j].owner # f
BY DEF IInv, RegistryOwned

\* A step that only concerns one key.
OnlyKey(k) == \A j \in Keys \ {k} : busyMapped'[j] = busyMapped[j] /\ owedMapped'[j] = owedMapped[j]

\* Such a step, told by what it does to its key.
LEMMA OneKey ==
  ASSUME NEW k \in Keys, OnlyKey(k),
         \/ owedMapped'[k] /\ busyMapped'[k] = busyMapped[k]
         \/ ~owedMapped'[k] /\ busyMapped'[k] = busyMapped[k]
         \/ ~busyMapped[k] /\ busyMapped'[k] /\ (owedMapped'[k] => owedMapped[k])
         \/ busyMapped[k] /\ ~busyMapped'[k] /\ owedMapped'[k] = owedMapped[k]
  PROVE  Abstract!Next
<1> DEFINE busy == busyMapped
           owed == owedMapped
<1>1. /\ busy \in [Keys -> BOOLEAN] /\ owed \in [Keys -> BOOLEAN]
      /\ busy' \in [Keys -> BOOLEAN] /\ owed' \in [Keys -> BOOLEAN]
  BY DEF busyMapped, owedMapped, Remembered, IsActive
<1>2. \A j \in Keys \ {k} : busy'[j] = busy[j] /\ owed'[j] = owed[j]
  BY DEF OnlyKey
<1> HIDE DEF busy, owed
<1>3. /\ busy'[k] = busy[k] => busy' = busy
      /\ owed'[k] = owed[k] => owed' = owed
      /\ busy' = [busy EXCEPT ![k] = busy'[k]]
      /\ owed' = [owed EXCEPT ![k] = owed'[k]]
  BY <1>1, <1>2
<1>4. busy'[k] \in BOOLEAN /\ owed'[k] \in BOOLEAN /\ busy[k] \in BOOLEAN /\ owed[k] \in BOOLEAN
  BY <1>1
<1>5. CASE owed'[k] /\ busy'[k] = busy[k]
  <2>1. owed' = [owed EXCEPT ![k] = TRUE] /\ busy' = busy
    BY <1>3, <1>5
  <2>2. Abstract!Request(k)
    BY <2>1 DEF Abstract!Request, busy, owed
  <2> QED BY <2>2 DEF Abstract!Next
<1>6. CASE ~owed'[k] /\ busy'[k] = busy[k]
  <2>1. owed' = [owed EXCEPT ![k] = FALSE] /\ busy' = busy
    BY <1>3, <1>4, <1>6
  <2>2. Abstract!Cancel(k)
    BY <2>1 DEF Abstract!Cancel, busy, owed
  <2> QED BY <2>2 DEF Abstract!Next
<1>7. CASE ~busy[k] /\ busy'[k] /\ (owed'[k] => owed[k])
  <2>1. busy' = [busy EXCEPT ![k] = TRUE]
    BY <1>3, <1>4, <1>7
  <2>2. owed' = owed \/ owed' = [owed EXCEPT ![k] = FALSE]
    BY <1>3, <1>4, <1>7
  <2>3. Abstract!Start(k)
    BY <1>7, <2>1, <2>2 DEF Abstract!Start, busy, owed
  <2> QED BY <2>3 DEF Abstract!Next
<1>8. CASE busy[k] /\ ~busy'[k] /\ owed'[k] = owed[k]
  <2>1. busy' = [busy EXCEPT ![k] = FALSE] /\ owed' = owed
    BY <1>3, <1>4, <1>8
  <2>2. Abstract!Finish(k)
    BY <1>8, <2>1 DEF Abstract!Finish, busy, owed
  <2> QED BY <2>2 DEF Abstract!Next
<1> QED BY <1>5, <1>6, <1>7, <1>8 DEF busy, owed

\* Busy or owed, before and after, is what the owners say.
LEMMA Told ==
  ASSUME IInv, IInv', NEW k \in Keys
  PROVE  /\ busyMapped[k] = (IsActive(k) /\ fiber[active[k].owner].pc \in {"running", "cleanup"})
         /\ busyMapped'[k] = (IsActive(k) /\ fiber[active[k].owner].pc \in {"running", "cleanup"})'
         /\ owedMapped[k] = Remembered(k)
         /\ owedMapped'[k] = Remembered(k)'
<1>1. BusyOwners /\ BusyOwners'
  BY BusyOwner, PTL
<1> QED BY <1>1 DEF BusyOwners, owedMapped

\* A fresh execution starts a drain on a key that is not busy.
LEMMA StartFreshRefines ==
  ASSUME IInv, IInv', NEW k \in Keys, NEW f \in Fibers, NEW force \in BOOLEAN, StartFresh(k, f, force)
  PROVE  Abstract!Next
<1>1. ~IsActive(k) /\ ~Live(f)
  BY FreshFiber DEF StartFresh
<1>2. /\ active'[k] = MakeEntry(f) /\ fiber'[f] = Begun(k, force)
      /\ \A j \in Keys \ {k} : active'[j] = active[j]
      /\ \A g \in Fibers \ {f} : fiber'[g] = fiber[g]
  BY DEF StartFresh, IInv, TypeOK
<1>3. OnlyKey(k)
  <2> SUFFICES ASSUME NEW j \in Keys \ {k} PROVE busyMapped'[j] = busyMapped[j] /\ owedMapped'[j] = owedMapped[j]
    BY DEF OnlyKey
  <2>1. IsActive(j) => active[j].owner \in Fibers \ {f}
    BY <1>1, OwnerNotFresh DEF IInv, RegistryOwned
  <2> QED BY <1>2, <2>1, KeyUnchanged
<1>4. ~busyMapped[k] /\ busyMapped'[k] /\ ~owedMapped'[k]
  <2>1. IsActive(k)'
    BY <1>2, NoneAssumption DEF IsActive, MakeEntry, NoEntry
  <2>2. active'[k].owner = f /\ ~active'[k].pendingWake /\ fiber'[f].pc = "running"
    BY <1>2 DEF MakeEntry, Begun
  <2>3. ~Remembered(k)'
    BY <2>2 DEF Remembered
  <2> QED BY <1>1, <2>1, <2>2, <2>3, Told
<1> QED BY <1>3, <1>4, OneKey

\* A wake of an active key makes it owe a drain.
LEMMA WakeActiveRefines ==
  ASSUME IInv, IInv', NEW k \in Keys, WakeActive(k)
  PROVE  Abstract!Next
<1>1. /\ IsActive(k) /\ fiber' = fiber
      /\ active'[k] = [active[k] EXCEPT !.pendingWake = TRUE]
      /\ \A j \in Keys \ {k} : active'[j] = active[j]
  BY DEF WakeActive, IInv, TypeOK
<1>2. OnlyKey(k)
  BY <1>1, KeyUnchanged DEF OnlyKey
<1>3. active[k] \in Entry
  BY <1>1 DEF IsActive, IInv, TypeOK
<1>4. IsActive(k)' /\ active'[k].owner = active[k].owner /\ active'[k].pendingWake
  BY <1>1, <1>3, NoneAssumption DEF IsActive, Entry, NoEntry
<1>5. owedMapped'[k] /\ busyMapped'[k] = busyMapped[k]
  BY <1>1, <1>4, Told DEF Remembered
<1> QED BY <1>2, <1>5, OneKey

\* An interrupt leaves nothing owed, and the drain it stops still has to clean up.
LEMMA InterruptRefines ==
  ASSUME IInv, IInv', NEW k \in Keys, NEW c \in Callers, Interrupt(c, k)
  PROVE  Abstract!Next
<1> DEFINE f == active[k].owner
<1>1. IsActive(k) /\ active[k] \in Entry /\ f \in Fibers
  BY DEF Interrupt, IsActive, IInv, TypeOK, RegistryOwned
<1>2. /\ active'[k] = Stopped(active[k])
      /\ \A j \in Keys \ {k} : active'[j] = active[j]
      /\ fiber'[f] = [fiber[f] EXCEPT !.pc = Signalled(fiber[f].pc)]
      /\ \A g \in Fibers \ {f} : fiber'[g] = fiber[g]
  BY <1>1 DEF Interrupt, IInv, TypeOK
<1>3. OnlyKey(k)
  <2> SUFFICES ASSUME NEW j \in Keys \ {k} PROVE busyMapped'[j] = busyMapped[j] /\ owedMapped'[j] = owedMapped[j]
    BY DEF OnlyKey
  <2>1. IsActive(j) => active[j].owner \in Fibers \ {f}
    BY <1>1, OwnersDiffer DEF IInv, RegistryOwned
  <2> QED BY <1>2, <2>1, KeyUnchanged
<1>4. /\ active'[k].owner = f /\ ~active'[k].pendingWake
  BY <1>1, <1>2 DEF Stopped, Entry
<1>5. IsActive(k)'
  BY <1>1, <1>4, NoneAssumption DEF IsActive, NoEntry, Entry
<1>6. fiber[f] \in FiberState /\ fiber'[f].pc = Signalled(fiber[f].pc)
  BY <1>1, <1>2 DEF IInv, TypeOK, FiberState
<1>7. ~owedMapped'[k] /\ busyMapped'[k] = busyMapped[k]
  <2>1. Signalled(fiber[f].pc) # "scheduled"
    BY DEF Signalled
  <2>2. Signalled(fiber[f].pc) \in {"running", "cleanup"} <=> fiber[f].pc \in {"running", "cleanup"}
    BY DEF Signalled
  <2>3. ~Remembered(k)'
    BY <1>4, <1>6, <2>1 DEF Remembered
  <2> QED BY <1>1, <1>4, <1>5, <1>6, <2>2, <2>3, Told
<1> QED BY <1>3, <1>7, OneKey

\* A successor that begins pays what is owed.
LEMMA BeginRefines ==
  ASSUME IInv, IInv', NEW f \in Fibers, Begin(f)
  PROVE  Abstract!Next
<1> DEFINE k == fiber[f].key
<1>1. /\ k \in Keys /\ IsActive(k) /\ active[k].owner = f
  BY LiveOwns DEF Begin, Live
<1>2. /\ fiber[f].pc = "scheduled" /\ active' = active
      /\ fiber'[f].pc = "running"
      /\ \A g \in Fibers \ {f} : fiber'[g] = fiber[g]
  BY DEF Begin, IInv, TypeOK, FiberState
<1>3. OnlyKey(k)
  <2> SUFFICES ASSUME NEW j \in Keys \ {k} PROVE busyMapped'[j] = busyMapped[j] /\ owedMapped'[j] = owedMapped[j]
    BY DEF OnlyKey
  <2>1. IsActive(j) => active[j].owner \in Fibers \ {f}
    BY <1>1, OwnersDiffer DEF IInv, RegistryOwned
  <2> QED BY <1>2, <2>1, KeyUnchanged
<1>4. ~busyMapped[k] /\ busyMapped'[k] /\ owedMapped[k]
  BY <1>1, <1>2, Told DEF Remembered, IsActive
<1> QED BY <1>1, <1>3, <1>4, OneKey

\* An execution that settles leaves its key idle, or hands what is owed to a
\* successor; one that was cancelled before it began was never a drain.
LEMMA FinishRefines ==
  ASSUME IInv, IInv', NEW f \in Fibers, NEW exit \in Exits, Finish(f, exit)
  PROVE  Abstract!Next \/ UNCHANGED <<busyMapped, owedMapped>>
<1> PICK k \in Keys : k = fiber[f].key
  BY LiveOwns DEF Finish, Live
<1>1. /\ IsActive(k) /\ active[k].owner = f /\ active[k] \in Entry
      /\ fiber[f].pc \in {"running", "cleanup", "cancelled"} /\ Live(f)
  BY LiveOwns DEF Finish, Live
<1>2. \/ \E g \in Fibers \ {f} :
           /\ ~Live(g) /\ active[k].pendingWake
           /\ active'[k].owner = g /\ fiber'[g].pc = "scheduled"
           /\ \A j \in Keys \ {k} : active'[j] = active[j]
           /\ \A h \in Fibers \ {f, g} : fiber'[h] = fiber[h]
      \/ /\ ~active[k].pendingWake /\ ~IsActive(k)'
         /\ \A j \in Keys \ {k} : active'[j] = active[j]
         /\ \A h \in Fibers \ {f} : fiber'[h] = fiber[h]
  <2>1. ASSUME NEW g \in Fibers, IsFresh(g),
               SettleAgain(k, f, g, exit) \/ SettleWithSuccessor(k, f, g, exit)
        PROVE  /\ g # f /\ ~Live(g) /\ active[k].pendingWake
               /\ active'[k].owner = g /\ fiber'[g].pc = "scheduled"
               /\ \A j \in Keys \ {k} : active'[j] = active[j]
               /\ \A h \in Fibers \ {f, g} : fiber'[h] = fiber[h]
    <3>1. g # f /\ ~Live(g)
      BY <1>1, <2>1, FreshFiber
    <3>2. active[k].pendingWake
      BY <2>1 DEF SettleAgain, SettleWithSuccessor, GoesAround
    <3>3. /\ active'[k].owner = g
          /\ \A j \in Keys \ {k} : active'[j] = active[j]
      BY <1>1, <2>1 DEF SettleAgain, SettleWithSuccessor, MakeEntry, Entry, IInv, TypeOK
    <3>4. fiber' = [fiber EXCEPT ![f] = Ended, ![g] = Scheduled(k)]
      BY <2>1 DEF SettleAgain, SettleWithSuccessor
    <3>5. /\ fiber'[g].pc = "scheduled"
          /\ \A h \in Fibers \ {f, g} : fiber'[h] = fiber[h]
      BY <3>1, <3>4 DEF Scheduled, IInv, TypeOK
    <3> QED BY <3>1, <3>2, <3>3, <3>5
  <2>2. ASSUME SettleIdle(k, f, exit)
        PROVE  /\ ~active[k].pendingWake /\ ~IsActive(k)'
               /\ \A j \in Keys \ {k} : active'[j] = active[j]
               /\ \A h \in Fibers \ {f} : fiber'[h] = fiber[h]
    <3>1. active' = [active EXCEPT ![k] = NoEntry] /\ fiber' = [fiber EXCEPT ![f] = Ended]
      BY <2>2 DEF SettleIdle
    <3> QED BY <1>1, <2>2, <3>1 DEF SettleIdle, IsActive, IInv, TypeOK
  <2>3. Settle(k, f, exit)
    BY DEF Finish
  <2> QED BY <2>1, <2>2, <2>3 DEF Settle
<1>3. OnlyKey(k)
  <2> SUFFICES ASSUME NEW j \in Keys \ {k} PROVE busyMapped'[j] = busyMapped[j] /\ owedMapped'[j] = owedMapped[j]
    BY DEF OnlyKey
  <2>1. IsActive(j) => active[j].owner \in Fibers \ {f}
    BY <1>1, OwnersDiffer DEF IInv, RegistryOwned
  <2>2. IsActive(j) => \A g \in Fibers : ~Live(g) => active[j].owner # g
    BY OwnerNotFresh
  <2>3. active'[j] = active[j]
    BY <1>2
  <2>4. IsActive(j) => fiber'[active[j].owner] = fiber[active[j].owner]
    BY <1>2, <2>1, <2>2
  <2> QED BY <2>3, <2>4, KeyUnchanged
<1>4. ~busyMapped'[k] /\ owedMapped'[k] = owedMapped[k]
  <2>1. CASE active[k].pendingWake
    <3>1. Remembered(k)
      BY <1>1, <2>1 DEF Remembered
    <3>2. PICK g \in Fibers : active'[k].owner = g /\ fiber'[g].pc = "scheduled"
      <4>1. \E g \in Fibers \ {f} : active'[k].owner = g /\ fiber'[g].pc = "scheduled"
        BY <1>2, <2>1
      <4> QED BY <4>1
    <3>3. IsActive(k)'
      BY <3>2, NoneAssumption DEF IsActive, NoEntry
    <3>4. Remembered(k)'
      BY <3>2, <3>3 DEF Remembered
    <3> QED BY <1>1, <3>1, <3>2, <3>4, Told
  <2>2. CASE ~active[k].pendingWake
    <3>1. ~Remembered(k) /\ ~IsActive(k)'
      BY <1>1, <1>2, <2>2 DEF Remembered
    <3>2. ~Remembered(k)'
      BY <3>1 DEF Remembered
    <3>3. /\ owedMapped'[k] = FALSE /\ owedMapped[k] = FALSE
          /\ busyMapped'[k] = FALSE
      BY <1>1, <3>1, <3>2, Told DEF Remembered, owedMapped
    <3> QED BY <3>3
  <2> QED BY <2>1, <2>2
<1>5. CASE busyMapped[k]
  BY <1>1, <1>3, <1>4, <1>5, OneKey
<1>6. CASE ~busyMapped[k]
  <2>1. \A j \in Keys : busyMapped'[j] = busyMapped[j] /\ owedMapped'[j] = owedMapped[j]
    BY <1>3, <1>4, <1>6, <1>1, Told DEF OnlyKey
  <2> QED BY <2>1 DEF busyMapped, owedMapped
<1> QED BY <1>5, <1>6

\* Whatever a step is, SerialDrain makes it too or does not notice it.
LEMMA NextRefines == IInv /\ IInv' /\ [Next]_vars => [Abstract!Next]_(Abstract!vars)
<1> SUFFICES ASSUME IInv, IInv', [Next]_vars
             PROVE  Abstract!Next \/ UNCHANGED <<busyMapped, owedMapped>>
  BY DEF Abstract!vars
<1>1. CASE \E k \in Keys : WakeIdle(k) \/ WakeActive(k)
  BY <1>1, StartFreshRefines, WakeActiveRefines DEF WakeIdle
<1>2. ASSUME UNCHANGED <<active, fiber>> PROVE UNCHANGED <<busyMapped, owedMapped>>
  BY <1>2 DEF busyMapped, owedMapped, Remembered, IsActive
<1>3. ASSUME NEW c \in Callers, NEW k \in Keys, RunIdle(c, k) \/ RunActive(c, k)
      PROVE  Abstract!Next \/ UNCHANGED <<busyMapped, owedMapped>>
  BY <1>2, <1>3, StartFreshRefines DEF RunIdle, RunActive
<1>4. CASE \E c \in Callers, k \in Keys : Run(c, k) \/ Interrupt(c, k)
  BY <1>3, <1>4, InterruptRefines DEF Run
<1>5. ASSUME NEW c \in Callers, Abandon(c) \/ Rerun(c)
      PROVE  Abstract!Next \/ UNCHANGED <<busyMapped, owedMapped>>
  <2>1. Rerun(c) => caller[c].key \in Keys
    BY DEF Rerun, IInv, TypeOK, CallerState
  <2> QED BY <1>2, <1>3, <1>5, <2>1 DEF Abandon, Rerun
<1>6. CASE \E f \in Fibers : Begin(f)
  BY <1>6, BeginRefines
<1>7. CASE \E f \in Fibers, exit \in Exits : Finish(f, exit)
  BY <1>7, FinishRefines
<1>8. CASE UNCHANGED vars
  BY <1>2, <1>8 DEF vars
<1> QED BY <1>1, <1>4, <1>5, <1>6, <1>7, <1>8 DEF Next

(* The safety of the refinement: seen per key as busy or not and owing a drain *)
(* or not, every behaviour of the coordinator is one of SerialDrain.  A drain  *)
(* starts only where none runs and nothing that is owed is forgotten but by an *)
(* interrupt.  (That what is owed is paid in the end needs fairness.)          *)
THEOREM Refinement == Spec => Abstract!SafeSpec
<1>1. Init => Abstract!Init
  <2> SUFFICES ASSUME Init
               PROVE  /\ \A k \in Keys : busyMapped[k] = FALSE /\ owedMapped[k] = FALSE
                      /\ busyMapped = [k \in Keys |-> busyMapped[k]]
                      /\ owedMapped = [k \in Keys |-> owedMapped[k]]
    BY DEF Abstract!Init
  <2>1. \A k \in Keys : ~IsActive(k) /\ \A f \in Fibers : fiber[f].pc = "ended"
    BY DEF Init, IsActive, Ended
  <2>2. \A k \in Keys : busyMapped[k] = FALSE /\ owedMapped[k] = FALSE
    BY <2>1 DEF busyMapped, owedMapped, Remembered
  <2> QED BY <2>2 DEF busyMapped, owedMapped
<1>2. IInv /\ [Next]_vars => [Abstract!Next]_(Abstract!vars)
  BY NextIInv, NextRefines
<1> QED BY Invariance, <1>1, <1>2, PTL DEF Spec, Abstract!SafeSpec

-----------------------------------------------------------------------------
(* An interrupt reaches the execution there is.                            *)

\* An execution asked to stop cleans up, or was cancelled before it began.
StoppedAt(k) == IsActive(k) /\ active[k].stopping =>
                  fiber[active[k].owner].pc \in {"cleanup", "cancelled"}
StoppedOwner == \A k \in Keys : StoppedAt(k)

\* A key that a step does not concern.
LEMMA StoppedElsewhere ==
  ASSUME StoppedOwner, NEW j \in Keys, active'[j] = active[j],
         IsActive(j) => fiber'[active[j].owner] = fiber[active[j].owner]
  PROVE  StoppedAt(j)'
BY DEF StoppedOwner, StoppedAt, IsActive

\* A new execution has not been asked to stop.
LEMMA StoppedFresh ==
  ASSUME IInv, StoppedOwner, NEW k \in Keys, NEW f \in Fibers, NEW force \in BOOLEAN, StartFresh(k, f, force)
  PROVE  StoppedOwner'
<1>1. ~IsActive(k) /\ ~Live(f)
  BY FreshFiber DEF StartFresh
<1>2. /\ ~active'[k].stopping
      /\ \A j \in Keys \ {k} : active'[j] = active[j]
      /\ \A g \in Fibers \ {f} : fiber'[g] = fiber[g]
  BY DEF StartFresh, MakeEntry, IInv, TypeOK
<1>3. ASSUME NEW j \in Keys \ {k} PROVE StoppedAt(j)'
  <2>1. IsActive(j) => active[j].owner \in Fibers \ {f}
    BY <1>1, OwnerNotFresh DEF IInv, RegistryOwned
  <2> QED BY <1>2, <2>1, StoppedElsewhere
<1> QED BY <1>2, <1>3 DEF StoppedOwner, StoppedAt

\* A wake does not take back the request to stop, nor the signal.
LEMMA StoppedWake ==
  ASSUME IInv, StoppedOwner, NEW k \in Keys, WakeActive(k)
  PROVE  StoppedOwner'
<1>1. active[k] \in Entry /\ IsActive(k)
  BY DEF WakeActive, IsActive, IInv, TypeOK
<1>2. /\ active'[k].stopping = active[k].stopping /\ active'[k].owner = active[k].owner
      /\ \A j \in Keys \ {k} : active'[j] = active[j]
      /\ fiber' = fiber
  BY <1>1 DEF WakeActive, Entry, IInv, TypeOK
<1>3. StoppedAt(k)'
  BY <1>1, <1>2 DEF StoppedOwner, StoppedAt
<1>4. \A j \in Keys \ {k} : StoppedAt(j)'
  BY <1>2, StoppedElsewhere
<1> QED BY <1>3, <1>4 DEF StoppedOwner

\* The signal goes to the owner, which is alive.
LEMMA StoppedInterrupt ==
  ASSUME IInv, StoppedOwner, NEW k \in Keys, NEW c \in Callers, Interrupt(c, k)
  PROVE  StoppedOwner'
<1> DEFINE f == active[k].owner
<1>1. IsActive(k) /\ active[k] \in Entry /\ f \in Fibers /\ Live(f)
  BY DEF Interrupt, IsActive, IInv, TypeOK, RegistryOwned
<1>2. /\ active'[k].owner = f
      /\ \A j \in Keys \ {k} : active'[j] = active[j]
      /\ fiber'[f].pc = Signalled(fiber[f].pc)
      /\ \A g \in Fibers \ {f} : fiber'[g] = fiber[g]
  BY <1>1 DEF Interrupt, Stopped, Entry, FiberState, IInv, TypeOK
<1>3. Signalled(fiber[f].pc) \in {"cleanup", "cancelled"}
  BY <1>1 DEF Signalled, IInv, TypeOK, FiberState, Live
<1>4. StoppedAt(k)'
  BY <1>2, <1>3 DEF StoppedAt
<1>5. ASSUME NEW j \in Keys \ {k} PROVE StoppedAt(j)'
  <2>1. IsActive(j) => active[j].owner \in Fibers \ {f}
    BY <1>1, OwnersDiffer DEF IInv, RegistryOwned
  <2> QED BY <1>2, <2>1, StoppedElsewhere
<1> QED BY <1>4, <1>5 DEF StoppedOwner

\* A successor that begins was not asked to stop: it would have been cancelled.
LEMMA StoppedBegin ==
  ASSUME IInv, StoppedOwner, NEW f \in Fibers, Begin(f)
  PROVE  StoppedOwner'
<1> PICK k \in Keys : k = fiber[f].key
  BY LiveOwns DEF Begin, Live
<1>1. IsActive(k) /\ active[k].owner = f
  BY LiveOwns DEF Begin, Live
<1>2. /\ active' = active /\ fiber[f].pc = "scheduled"
      /\ \A g \in Fibers \ {f} : fiber'[g] = fiber[g]
  BY DEF Begin, IInv, TypeOK
<1>3. ~active[k].stopping
  BY <1>1, <1>2 DEF StoppedOwner, StoppedAt
<1>4. StoppedAt(k)'
  BY <1>2, <1>3 DEF StoppedAt
<1>5. ASSUME NEW j \in Keys \ {k} PROVE StoppedAt(j)'
  <2>1. IsActive(j) => active[j].owner \in Fibers \ {f}
    BY <1>1, OwnersDiffer DEF IInv, RegistryOwned
  <2> QED BY <1>2, <2>1, StoppedElsewhere
<1> QED BY <1>4, <1>5 DEF StoppedOwner

\* Only an execution nobody asked to stop goes around again, and the others leave
\* the registry empty or to an entry of a successor.
LEMMA StoppedFinish ==
  ASSUME IInv, StoppedOwner, NEW f \in Fibers, NEW exit \in Exits, Finish(f, exit)
  PROVE  StoppedOwner'
<1> PICK k \in Keys : k = fiber[f].key
  BY LiveOwns DEF Finish, Live
<1>1. /\ IsActive(k) /\ active[k].owner = f /\ active[k] \in Entry /\ Live(f)
      /\ Settle(k, f, exit)
  BY LiveOwns DEF Finish, Live
<1>2. PICK G \in SUBSET Fibers :
        /\ \A g \in G : ~Live(g)
        /\ \A h \in Fibers \ (G \cup {f}) : fiber'[h] = fiber[h]
        /\ \A j \in Keys \ {k} : active'[j] = active[j]
        /\ ~active'[k].stopping
  <2>1. ASSUME NEW g \in Fibers, IsFresh(g),
               SettleAgain(k, f, g, exit) \/ SettleWithSuccessor(k, f, g, exit)
        PROVE  /\ ~Live(g)
               /\ \A h \in Fibers \ {g, f} : fiber'[h] = fiber[h]
               /\ \A j \in Keys \ {k} : active'[j] = active[j]
               /\ ~active'[k].stopping
    <3>1. ~Live(g)
      BY <2>1, FreshFiber
    <3>2. fiber' = [fiber EXCEPT ![f] = Ended, ![g] = Scheduled(k)]
      BY <2>1 DEF SettleAgain, SettleWithSuccessor
    <3>3. /\ \A j \in Keys \ {k} : active'[j] = active[j]
          /\ ~active'[k].stopping
      BY <1>1, <2>1 DEF SettleAgain, GoesAround, SettleWithSuccessor, MakeEntry, Entry, IInv, TypeOK
    <3> QED BY <3>1, <3>2, <3>3 DEF IInv, TypeOK
  <2>2. ASSUME NEW g \in Fibers, IsFresh(g),
               SettleAgain(k, f, g, exit) \/ SettleWithSuccessor(k, f, g, exit)
        PROVE  \E G \in SUBSET Fibers :
                 /\ \A h \in G : ~Live(h)
                 /\ \A h \in Fibers \ (G \cup {f}) : fiber'[h] = fiber[h]
                 /\ \A j \in Keys \ {k} : active'[j] = active[j]
                 /\ ~active'[k].stopping
    <3>1. {g} \in SUBSET Fibers
      OBVIOUS
    <3> QED BY <2>1, <2>2, <3>1
  <2>3. ASSUME SettleIdle(k, f, exit)
        PROVE  /\ \A h \in Fibers \ ({} \cup {f}) : fiber'[h] = fiber[h]
               /\ \A j \in Keys \ {k} : active'[j] = active[j]
               /\ ~active'[k].stopping
    BY <2>3 DEF SettleIdle, NoEntry, IInv, TypeOK
  <2>4. {} \in SUBSET Fibers
    OBVIOUS
  <2> QED BY <1>1, <2>2, <2>3, <2>4 DEF Settle
<1>3. StoppedAt(k)'
  BY <1>2 DEF StoppedAt
<1>4. ASSUME NEW j \in Keys \ {k} PROVE StoppedAt(j)'
  <2>1. IsActive(j) => active[j].owner \in Fibers \ (G \cup {f})
    BY <1>1, <1>2, OwnersDiffer, OwnerNotFresh DEF IInv, RegistryOwned
  <2> QED BY <1>2, <2>1, StoppedElsewhere
<1> QED BY <1>3, <1>4 DEF StoppedOwner

\* Every step keeps a stopped execution stopped.
LEMMA NextStopped == IInv /\ StoppedOwner /\ [Next]_vars => StoppedOwner'
<1> SUFFICES ASSUME IInv, StoppedOwner, [Next]_vars PROVE StoppedOwner'
  OBVIOUS
<1>1. CASE \E k \in Keys : WakeIdle(k) \/ WakeActive(k)
  BY <1>1, StoppedFresh, StoppedWake DEF WakeIdle
<1>2. ASSUME UNCHANGED <<active, fiber>> PROVE StoppedOwner'
  BY <1>2 DEF StoppedOwner, StoppedAt, IsActive
<1>3. ASSUME NEW c \in Callers, NEW k \in Keys, RunIdle(c, k) \/ RunActive(c, k)
      PROVE  StoppedOwner'
  BY <1>2, <1>3, StoppedFresh DEF RunIdle, RunActive
<1>4. CASE \E c \in Callers, k \in Keys : Run(c, k) \/ Interrupt(c, k)
  BY <1>3, <1>4, StoppedInterrupt DEF Run
<1>5. ASSUME NEW c \in Callers, Abandon(c) \/ Rerun(c)
      PROVE  StoppedOwner'
  <2>1. Rerun(c) => caller[c].key \in Keys
    BY DEF Rerun, IInv, TypeOK, CallerState
  <2> QED BY <1>2, <1>3, <1>5, <2>1 DEF Abandon, Rerun
<1>6. CASE \E f \in Fibers : Begin(f)
  BY <1>6, StoppedBegin
<1>7. CASE \E f \in Fibers, exit \in Exits : Finish(f, exit)
  BY <1>7, StoppedFinish
<1>8. CASE UNCHANGED vars
  BY <1>2, <1>8 DEF vars
<1> QED BY <1>1, <1>4, <1>5, <1>6, <1>7, <1>8 DEF Next

(* "Stops active execution": whatever successors took over before, the         *)
(* execution of a Session that was asked to stop cleans up or never begins.    *)
THEOREM InterruptsReach == Spec => []InterruptReaches
<1>1. Init => StoppedOwner
  BY DEF Init, StoppedOwner, StoppedAt, IsActive
<1>2. IInv /\ StoppedOwner => InterruptReaches
  <2> SUFFICES ASSUME IInv, StoppedOwner, NEW k \in Keys, IsActive(k), active[k].stopping,
                      NEW f \in Fibers, Live(f), fiber[f].key = k
               PROVE  fiber[f].pc \in {"cleanup", "cancelled"}
    BY DEF InterruptReaches
  <2> QED BY LiveOwns DEF StoppedOwner, StoppedAt
<1> QED BY Invariance, NextStopped, <1>1, <1>2, PTL DEF Spec

=============================================================================
