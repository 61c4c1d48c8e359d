-------------------------- MODULE FileMutationProofs --------------------------
(* The keyed mutex is exact and exclusive for every number of fibers, keys and *)
(* entries, and under it no completed change to a file is lost, for every      *)
(* number of tool calls, paths, plans and failures.                            *)
EXTENDS FileMutation, FiniteSetTheorems, TLAPS

-------------------------------------------------------------------------------
(* The keyed mutex.                                                            *)

UsersOf(e) == {f \in Fibers : call[f].entry = e}

\* A fiber outside withLock refers to nothing, one inside has a key and an entry.
CallsWhole ==
  \A f \in Fibers : \/ call[f] = Outside
                    \/ call[f].pc # "out" /\ call[f].key \in Keys /\ call[f].entry \in Entries

CallsCurrent == \A f \in Fibers : call[f].pc # "out" => locks[call[f].key] = call[f].entry

EntriesUsed ==
  \A k \in Keys : locks[k] # None => \E f \in Fibers : call[f].pc # "out" /\ call[f].key = k

EntriesApart == \A k, l \in Keys : locks[k] # None /\ locks[k] = locks[l] => k = l

CountsExact == \A e \in Entries : users[e] = Cardinality(UsersOf(e))

HoldersKnown == \A f \in Fibers : call[f].pc = "holding" => holder[call[f].entry] = f

LockInv ==
  /\ LockTypeOK
  /\ CallsWhole
  /\ CallsCurrent
  /\ EntriesUsed
  /\ EntriesApart
  /\ CountsExact
  /\ HoldersKnown

\* The users of an entry are finitely many, so that counting them is sound.
LEMMA UsersFinite == \A e : IsFiniteSet(UsersOf(e)) /\ Cardinality(UsersOf(e)) \in Nat
<1>1. ASSUME NEW e PROVE IsFiniteSet(UsersOf(e))
  BY FS_Subset, MutexAssumption DEF UsersOf
<1> QED BY <1>1, FS_CardinalityType

\* Nobody uses anything at the start.
LEMMA LockInitInv == LockInit => LockInv
<1> SUFFICES ASSUME LockInit PROVE LockInv
  OBVIOUS
<1> USE DEF LockInit, Outside
<1>1. LockTypeOK /\ CallsWhole /\ CallsCurrent /\ EntriesUsed /\ EntriesApart /\ HoldersKnown
  BY DEF LockTypeOK, Calls, CallsWhole, CallsCurrent, EntriesUsed, EntriesApart, HoldersKnown
<1>2. ASSUME NEW e \in Entries PROVE users[e] = Cardinality(UsersOf(e))
  <2>1. UsersOf(e) = {}
    BY MutexAssumption DEF UsersOf
  <2> QED BY <2>1, FS_EmptySet
<1> QED BY <1>1, <1>2 DEF LockInv, CountsExact

\* Counting the caller keeps the Map exact, with the entry it has or a free one.
LEMMA EnterInv ==
  ASSUME LockInv, NEW f \in Fibers, NEW k \in Keys, Enter(f, k)
  PROVE  LockInv'
<1> USE DEF LockInv
<1> PICK e \in Entries :
      /\ IF locks[k] = None THEN ~InUse(e) ELSE e = locks[k]
      /\ locks' = [locks EXCEPT ![k] = e]
      /\ users' = [users EXCEPT ![e] = IF locks[k] = None THEN 1 ELSE @ + 1]
      /\ call' = [call EXCEPT ![f] = [pc |-> "waiting", key |-> k, entry |-> e]]
  BY DEF Enter
<1>0. call[f] = Outside /\ holder' = holder
  BY DEF Enter, CallsWhole
<1>1. LockTypeOK'
  BY <1>0 DEF LockTypeOK, Calls
<1>2. CallsWhole'
  BY DEF CallsWhole, LockTypeOK
<1>3. CallsCurrent'
  <2> SUFFICES ASSUME NEW g \in Fibers, call'[g].pc # "out"
               PROVE  locks'[call'[g].key] = call'[g].entry
    BY DEF CallsCurrent
  <2>1. CASE g = f
    BY <2>1 DEF LockTypeOK
  <2>2. CASE g # f /\ call[g].key = k
    <3>1. call'[g] = call[g] /\ locks[k] = call[g].entry /\ call[g].entry \in Entries
      BY <2>2 DEF CallsCurrent, LockTypeOK, CallsWhole, Outside
    <3>2. locks[k] = e
      BY <3>1, MutexAssumption
    <3> QED BY <2>2, <3>1, <3>2 DEF LockTypeOK
  <2>3. CASE g # f /\ call[g].key # k
    BY <2>3 DEF CallsCurrent, LockTypeOK
  <2> QED BY <2>1, <2>2, <2>3
<1>4. EntriesUsed'
  BY <1>0 DEF EntriesUsed, LockTypeOK, Outside
<1>5. EntriesApart'
  BY DEF EntriesApart, LockTypeOK, InUse
<1>6. CountsExact'
  <2> SUFFICES ASSUME NEW d \in Entries PROVE users'[d] = Cardinality(UsersOf(d)')
    BY DEF CountsExact
  <2>1. CASE d # e
    <3>1. UsersOf(d)' = UsersOf(d)
      BY <1>0, <2>1, MutexAssumption DEF UsersOf, LockTypeOK, Outside
    <3> QED BY <3>1, <2>1 DEF CountsExact, LockTypeOK
  <2>2. CASE d = e
    <3>1. UsersOf(e)' = UsersOf(e) \cup {f} /\ f \notin UsersOf(e)
      BY <1>0, MutexAssumption DEF UsersOf, LockTypeOK, Outside
    <3>2. Cardinality(UsersOf(e)') = Cardinality(UsersOf(e)) + 1
      BY <3>1, UsersFinite, FS_AddElement
    <3>3. locks[k] = None => UsersOf(e) = {}
      BY DEF InUse, UsersOf
    <3>4. locks[k] = None => Cardinality(UsersOf(e)) = 0
      BY <3>3, FS_EmptySet
    <3> QED BY <2>2, <3>2, <3>4 DEF CountsExact, LockTypeOK
  <2> QED BY <2>1, <2>2
<1>7. HoldersKnown'
  BY <1>0 DEF HoldersKnown, LockTypeOK
<1> QED BY <1>1, <1>2, <1>3, <1>4, <1>5, <1>6, <1>7

\* Steps of the semaphore leave the Map, the counts and everyone's entry alone.
LEMMA PermitInv ==
  ASSUME LockInv, NEW f \in Fibers, Take(f) \/ GiveUp(f) \/ Release(f)
  PROVE  LockInv'
<1> USE DEF LockInv
<1>0. /\ UNCHANGED <<locks, users>>
      /\ call[f].pc # "out"
      /\ \E p \in {"holding", "leaving"} : call' = [call EXCEPT ![f] = [@ EXCEPT !.pc = p]]
      /\ holder' \in [Entries -> Fibers \cup {None}]
  BY DEF Take, GiveUp, Release, LockTypeOK, Calls, CallsWhole, Outside
<1>1. \A g \in Fibers : /\ call'[g].key = call[g].key /\ call'[g].entry = call[g].entry
                        /\ call'[g].pc = "out" <=> call[g].pc = "out"
                        /\ g # f => call'[g] = call[g]
  BY <1>0 DEF LockTypeOK, Calls
<1>2. LockTypeOK'
  BY <1>0 DEF LockTypeOK, Calls
<1>3. CallsWhole' /\ CallsCurrent' /\ EntriesUsed' /\ EntriesApart'
  BY <1>0, <1>1 DEF CallsWhole, CallsCurrent, EntriesUsed, EntriesApart, Outside
<1>4. CountsExact'
  <2>1. \A e \in Entries : UsersOf(e)' = UsersOf(e)
    BY <1>1 DEF UsersOf
  <2> QED BY <1>0, <2>1 DEF CountsExact
<1>5. HoldersKnown'
  BY <1>0, <1>1, MutexAssumption DEF HoldersKnown, Take, GiveUp, Release, LockTypeOK, Calls, CallsWhole, Outside
<1> QED BY <1>2, <1>3, <1>4, <1>5

\* The entry is dropped exactly when the leaving fiber was its last user.
LEMMA LeaveInv ==
  ASSUME LockInv, NEW f \in Fibers, Leave(f)
  PROVE  LockInv'
<1> USE DEF LockInv
<1>a. PICK e \in Entries, k \in Keys : e = call[f].entry /\ k = call[f].key
  BY DEF Leave, CallsWhole, Outside
<1>0. /\ locks[k] = e /\ e # None
      /\ users' = [users EXCEPT ![e] = @ - 1]
      /\ locks' = IF users[e] = 1 THEN [locks EXCEPT ![k] = None] ELSE locks
      /\ call' = [call EXCEPT ![f] = Outside]
      /\ holder' = holder
  BY <1>a, MutexAssumption DEF Leave, AfterLeave, CallsWhole, CallsCurrent, Outside
<1>1. /\ UsersOf(e)' = UsersOf(e) \ {f}
      /\ f \in UsersOf(e)
      /\ \A d \in Entries \ {e} : UsersOf(d)' = UsersOf(d)
  BY <1>a, <1>0, MutexAssumption DEF UsersOf, LockTypeOK, Outside
<1>2. Cardinality(UsersOf(e)') = users[e] - 1 /\ users[e] \in Nat \ {0}
  <2>1. Cardinality(UsersOf(e)') = Cardinality(UsersOf(e)) - 1
    BY <1>1, UsersFinite, FS_RemoveElement
  <2>2. Cardinality(UsersOf(e)) # 0
    BY <1>1, UsersFinite, FS_EmptySet
  <2> QED BY <1>0, <2>1, <2>2, UsersFinite DEF CountsExact
<1>3. LockTypeOK'
  BY <1>0, <1>2 DEF LockTypeOK, Calls, Outside
<1>4. CallsWhole'
  BY <1>0 DEF CallsWhole, LockTypeOK
<1>5. \A g \in Fibers \ {f} : call'[g] = call[g]
  BY <1>0 DEF LockTypeOK
<1>6. CountsExact'
  <2>1. ASSUME NEW d \in Entries PROVE users'[d] = Cardinality(UsersOf(d)')
    <3>1. CASE d = e
      BY <1>0, <1>2, <3>1 DEF LockTypeOK
    <3>2. CASE d # e
      BY <1>0, <1>1, <3>2 DEF CountsExact, LockTypeOK
    <3> QED BY <3>1, <3>2
  <2> QED BY <2>1 DEF CountsExact
<1>7. HoldersKnown'
  BY <1>0, <1>5 DEF HoldersKnown, Outside, LockTypeOK
<1>8. CASE users[e] = 1
  <2>1. UsersOf(e)' = {}
    BY <1>2, <1>8, UsersFinite, FS_EmptySet, FS_Subset, <1>1
  <2>2. \A g \in Fibers : g # f => call[g].entry # e
    BY <2>1, <1>1 DEF UsersOf
  <2>3. \A g \in Fibers : g # f /\ call[g].pc # "out" => call[g].key # k
    BY <1>0, <2>2 DEF CallsCurrent
  <2>4. locks'[k] = None /\ \A l \in Keys : l # k => locks'[l] = locks[l]
    BY <1>0, <1>8 DEF LockTypeOK
  <2>5. CallsCurrent'
    <3> SUFFICES ASSUME NEW g \in Fibers, call'[g].pc # "out"
                 PROVE  locks'[call'[g].key] = call'[g].entry
      BY DEF CallsCurrent
    <3>1. g # f
      BY <1>0 DEF Outside, LockTypeOK
    <3>2. call'[g] = call[g] /\ call[g].key \in Keys
      BY <1>5, <3>1 DEF CallsWhole, Outside
    <3> QED BY <2>3, <2>4, <3>1, <3>2 DEF CallsCurrent
  <2>6. EntriesUsed'
    <3> SUFFICES ASSUME NEW l \in Keys, locks'[l] # None
                 PROVE  \E g \in Fibers : call'[g].pc # "out" /\ call'[g].key = l
      BY DEF EntriesUsed
    <3>1. l # k /\ locks[l] # None
      BY <2>4
    <3>2. PICK g \in Fibers : call[g].pc # "out" /\ call[g].key = l
      BY <3>1 DEF EntriesUsed
    <3>3. g # f
      BY <1>a, <3>1, <3>2
    <3> QED BY <1>5, <3>2, <3>3
  <2>7. EntriesApart'
    BY <2>4 DEF EntriesApart
  <2> QED BY <1>3, <1>4, <1>6, <1>7, <2>5, <2>6, <2>7
<1>9. CASE users[e] # 1
  <2>1. PICK g \in Fibers \ {f} : call[g].entry = e
    <3>1. Cardinality(UsersOf(e)') # 0
      BY <1>2, <1>9
    <3>2. UsersOf(e)' # {}
      BY <3>1, FS_EmptySet
    <3> QED BY <3>2, <1>1 DEF UsersOf
  <2>2. call[g].pc # "out" /\ call[g].key = k
    BY <1>0, <2>1 DEF CallsWhole, CallsCurrent, EntriesApart, Outside
  <2>3. locks' = locks
    BY <1>0, <1>9
  <2>4. CallsCurrent'
    BY <1>0, <1>5, <2>3 DEF CallsCurrent, Outside, LockTypeOK
  <2>5. EntriesUsed'
    <3> SUFFICES ASSUME NEW l \in Keys, locks[l] # None
                 PROVE  \E h \in Fibers : call'[h].pc # "out" /\ call'[h].key = l
      BY <2>3 DEF EntriesUsed
    <3>1. CASE l = k
      BY <1>5, <2>1, <2>2, <3>1
    <3>2. CASE l # k
      <4>1. PICK h \in Fibers : call[h].pc # "out" /\ call[h].key = l
        BY DEF EntriesUsed
      <4>2. h # f
        BY <1>a, <3>2, <4>1
      <4> QED BY <1>5, <4>1, <4>2
    <3> QED BY <3>1, <3>2
  <2>6. EntriesApart'
    BY <2>3 DEF EntriesApart
  <2> QED BY <1>3, <1>4, <1>6, <1>7, <2>4, <2>5, <2>6
<1> QED BY <1>8, <1>9

\* The strengthening is inductive.
LEMMA LockStepInv == LockInv /\ [LockNext]_lockVars => LockInv'
<1> SUFFICES ASSUME LockInv, [LockNext]_lockVars PROVE LockInv'
  OBVIOUS
<1>1. ASSUME NEW f \in Fibers, LockStep(f) PROVE LockInv'
  <2>1. CASE \E k \in Keys : Enter(f, k)
    BY <2>1, EnterInv
  <2>2. CASE Take(f) \/ GiveUp(f) \/ Release(f)
    BY <2>2, PermitInv
  <2>3. CASE Leave(f)
    BY <2>3, LeaveInv
  <2> QED BY <1>1, <2>1, <2>2, <2>3 DEF LockStep
<1>2. CASE UNCHANGED lockVars
  <2>1. \A e \in Entries : UsersOf(e)' = UsersOf(e)
    BY <1>2 DEF lockVars, UsersOf
  <2>2. CountsExact'
    BY <1>2, <2>1 DEF LockInv, CountsExact, lockVars
  <2> QED
    BY <1>2, <2>2 DEF LockInv, lockVars, LockTypeOK, CallsWhole, CallsCurrent, EntriesUsed,
                      EntriesApart, HoldersKnown
<1> QED BY <1>1, <1>2 DEF LockNext

\* What the strengthening says of the mutex.
LEMMA LockInvExact == LockInv => LocksExact /\ Exclusion
<1> SUFFICES ASSUME LockInv PROVE LocksExact /\ Exclusion
  OBVIOUS
<1> USE DEF LockInv
<1>1. LocksExact
  BY DEF LocksExact, CallsCurrent, EntriesUsed, CountsExact, UsersOf, LockTypeOK
<1>2. Exclusion
  BY DEF Exclusion, CallsCurrent, HoldersKnown
<1> QED BY <1>1, <1>2

(* Every reachable state of the mutex satisfies the strengthening.             *)
THEOREM LockInvariant == LockSpec => []LockInv
BY LockInitInv, LockStepInv, PTL DEF LockSpec

(* The Map of the keyed mutex is exact in every reachable state.               *)
THEOREM LocksStayExact == LockSpec => []LocksExact
BY LockInvariant, LockInvExact, PTL

(* The keyed mutex is a mutex: one holder per key, though the entry of a key   *)
(* comes and goes.                                                             *)
THEOREM LocksExclude == LockSpec => []Exclusion
BY LockInvariant, LockInvExact, PTL

-------------------------------------------------------------------------------
(* What the mutex promises.                                                    *)

\* A permit that is taken is held by a fiber that works under it.
PermitsHeld ==
  \A e \in Entries : holder[e] # None =>
    call[holder[e]].pc = "holding" /\ call[holder[e]].entry = e

\* The owner of a key's lock is the fiber that holds it, and there is one or none.
OwnersExact ==
  /\ owners \in [Keys -> Fibers \cup {None}]
  /\ \A k \in Keys, f \in Fibers :
       owners[k] = f <=> call[f].pc = "holding" /\ call[f].key = k

LEMMA PermitsInit == LockInit => PermitsHeld
BY DEF LockInit, PermitsHeld

\* Only its holder gives a permit back, and it keeps its entry until then.
LEMMA PermitsStep == LockInv /\ PermitsHeld /\ [LockNext]_lockVars => PermitsHeld'
<1> SUFFICES ASSUME LockInv, PermitsHeld, [LockNext]_lockVars PROVE PermitsHeld'
  OBVIOUS
<1> USE DEF LockInv, LockTypeOK
<1>1. ASSUME NEW f \in Fibers, LockStep(f) PROVE PermitsHeld'
  <2> SUFFICES ASSUME NEW e \in Entries, holder'[e] # None
               PROVE  call'[holder'[e]].pc = "holding" /\ call'[holder'[e]].entry = e
    BY DEF PermitsHeld
  <2>1. CASE \E k \in Keys : Enter(f, k)
    <3>1. /\ holder' = holder
          /\ call[f].pc = "out"
          /\ \A g \in Fibers : g # f => call'[g] = call[g]
      BY <2>1 DEF Enter
    <3> QED BY <3>1 DEF PermitsHeld
  <2>2. CASE Take(f)
    <3>1. CASE e = call[f].entry
      BY <2>2, <3>1 DEF Take, Calls
    <3>2. CASE e # call[f].entry
      <4>1. holder'[e] = holder[e] /\ call[f].pc = "waiting"
        BY <2>2, <3>2 DEF Take
      <4>2. holder[e] # f /\ \A g \in Fibers : g # f => call'[g] = call[g]
        BY <2>2, <4>1 DEF Take, PermitsHeld
      <4> QED BY <4>1, <4>2 DEF PermitsHeld
    <3> QED BY <3>1, <3>2
  <2>3. CASE GiveUp(f) \/ Leave(f)
    <3>1. /\ holder' = holder
          /\ call[f].pc \in {"waiting", "leaving"}
          /\ \A g \in Fibers : g # f => call'[g] = call[g]
      BY <2>3 DEF GiveUp, Leave
    <3> QED BY <3>1 DEF PermitsHeld
  <2>4. CASE Release(f)
    <3>1. /\ holder'[e] = holder[e] /\ e # call[f].entry
          /\ \A g \in Fibers : g # f => call'[g] = call[g]
      BY <2>4 DEF Release
    <3>2. holder[e] # f
      BY <3>1 DEF PermitsHeld
    <3> QED BY <3>1, <3>2 DEF PermitsHeld
  <2> QED BY <1>1, <2>1, <2>2, <2>3, <2>4 DEF LockStep
<1>2. CASE UNCHANGED lockVars
  BY <1>2 DEF lockVars, PermitsHeld
<1> QED BY <1>1, <1>2 DEF LockNext

\* That owners are read off the Map and the permits, and who holds off the calls, agree.
LEMMA OwnersKnown == LockInv /\ PermitsHeld => OwnersExact
<1> SUFFICES ASSUME LockInv, PermitsHeld PROVE OwnersExact
  OBVIOUS
<1> USE DEF LockInv, LockTypeOK
<1>1. \A k \in Keys : owners[k] = IF locks[k] = None THEN None ELSE holder[locks[k]]
  BY DEF owners
<1>2. owners \in [Keys -> Fibers \cup {None}]
  BY DEF owners
<1>3. ASSUME NEW k \in Keys, NEW f \in Fibers, owners[k] = f
      PROVE  call[f].pc = "holding" /\ call[f].key = k
  <2>1. locks[k] # None /\ holder[locks[k]] = f
    BY <1>1, <1>3, MutexAssumption
  <2>2. call[f].pc = "holding" /\ call[f].entry = locks[k]
    BY <2>1, MutexAssumption DEF PermitsHeld
  <2>3. call[f].key \in Keys /\ locks[call[f].key] = locks[k]
    BY <2>2 DEF CallsWhole, CallsCurrent, Outside
  <2> QED BY <2>1, <2>2, <2>3 DEF EntriesApart
<1>4. ASSUME NEW k \in Keys, NEW f \in Fibers, call[f].pc = "holding", call[f].key = k
      PROVE  owners[k] = f
  <2>1. locks[k] = call[f].entry /\ call[f].entry \in Entries /\ holder[call[f].entry] = f
    BY <1>4 DEF CallsWhole, CallsCurrent, HoldersKnown, Outside
  <2> QED BY <1>1, <2>1, MutexAssumption
<1> QED BY <1>2, <1>3, <1>4 DEF OwnersExact

\* A step of the mutex is a step of its promise, once the ways into it are known.
LEMMA LockStepPromised ==
  ASSUME LockInv, PermitsHeld, OwnersExact, OwnersExact', NEW f \in Fibers, LockStep(f)
  PROVE  [Promised!Next]_(Promised!vars)
<1> USE DEF LockInv, LockTypeOK, Promised!vars
<1>w. /\ wants = [g \in Fibers |-> IF call[g].pc = "waiting" THEN call[g].key ELSE None]
      /\ wants' = [g \in Fibers |-> IF call'[g].pc = "waiting" THEN call'[g].key ELSE None]
  BY DEF wants
<1>o. ASSUME \A g \in Fibers, k \in Keys :
               call'[g].pc = "holding" /\ call'[g].key = k <=> call[g].pc = "holding" /\ call[g].key = k
      PROVE  owners' = owners
  <2>1. \A k \in Keys, g \in Fibers : owners'[k] = g <=> owners[k] = g
    BY <1>o DEF OwnersExact
  <2>2. \A k \in Keys : owners'[k] = owners[k]
    BY <2>1 DEF OwnersExact
  <2> QED BY <2>2 DEF OwnersExact
<1>1. CASE \E k \in Keys : Enter(f, k)
  <2> PICK k \in Keys : Enter(f, k)
    BY <1>1
  <2>1. PICK e \in Entries : call' = [call EXCEPT ![f] = [pc |-> "waiting", key |-> k, entry |-> e]]
    BY DEF Enter
  <2>2. call[f].pc = "out"
    BY DEF Enter
  <2>3. /\ call'[f].pc = "waiting" /\ call'[f].key = k
        /\ \A g \in Fibers : g # f => call'[g] = call[g]
    BY <2>1
  <2>4. owners' = owners
    BY <1>o, <2>2, <2>3
  <2>5. wants[f] = None /\ wants' = [wants EXCEPT ![f] = k]
    BY <1>w, <2>2, <2>3
  <2>6. \A l \in Keys : owners[l] # f
    BY <2>2 DEF OwnersExact
  <2>7. Promised!Ask(f)
    BY <2>4, <2>5, <2>6 DEF Promised!Ask
  <2> QED BY <2>7 DEF Promised!Next
<1>2. CASE Take(f)
  <2>1. PICK k \in Keys : k = call[f].key
    BY <1>2 DEF Take, CallsWhole, Outside
  <2>2. /\ call[f].pc = "waiting" /\ call'[f].pc = "holding" /\ call'[f].key = k
        /\ \A g \in Fibers : g # f => call'[g] = call[g]
    BY <1>2, <2>1 DEF Take, Calls
  <2>3. owners[k] = None
    BY <1>2, <2>1, <2>2 DEF Take, CallsCurrent, owners
  <2>4. \A l \in Keys : l # k => \A g \in Fibers : owners'[l] = g <=> owners[l] = g
    BY <2>1, <2>2 DEF OwnersExact
  <2>5. \A l \in Keys : l # k => owners'[l] = owners[l]
    BY <2>4 DEF OwnersExact
  <2>6. owners'[k] = f
    BY <2>2 DEF OwnersExact
  <2>7. owners' = [owners EXCEPT ![k] = f]
    BY <2>5, <2>6 DEF OwnersExact
  <2>8. wants[f] = k /\ wants' = [wants EXCEPT ![f] = None]
    BY <1>w, <2>1, <2>2
  <2>9. Promised!Acquire(f)
    BY <2>3, <2>7, <2>8 DEF Promised!Acquire
  <2> QED BY <2>9 DEF Promised!Next
<1>3. CASE GiveUp(f)
  <2>1. /\ call[f].pc = "waiting" /\ call'[f].pc = "leaving"
        /\ \A g \in Fibers : g # f => call'[g] = call[g]
    BY <1>3 DEF GiveUp, Calls
  <2>2. owners' = owners
    BY <1>o, <2>1
  <2>3. wants[f] # None /\ wants' = [wants EXCEPT ![f] = None]
    BY <1>w, <2>1, MutexAssumption DEF CallsWhole, Outside
  <2>4. Promised!Withdraw(f)
    BY <2>2, <2>3 DEF Promised!Withdraw
  <2> QED BY <2>4 DEF Promised!Next
<1>4. CASE Release(f)
  <2>1. PICK k \in Keys : k = call[f].key
    BY <1>4 DEF Release, CallsWhole, Outside
  <2>2. /\ call[f].pc = "holding" /\ call'[f].pc = "leaving"
        /\ \A g \in Fibers : g # f => call'[g] = call[g]
    BY <1>4 DEF Release, Calls
  <2>3. owners[k] = f
    BY <2>1, <2>2 DEF OwnersExact
  <2>4. \A l \in Keys : l # k => \A g \in Fibers : owners'[l] = g <=> owners[l] = g
    BY <2>1, <2>2 DEF OwnersExact
  <2>5. \A l \in Keys : l # k => owners'[l] = owners[l]
    BY <2>4 DEF OwnersExact
  <2>6. \A g \in Fibers : owners'[k] # g
    BY <2>2, <2>3, MutexAssumption DEF OwnersExact
  <2>7. owners'[k] = None
    BY <2>6 DEF OwnersExact
  <2>8. owners' = [owners EXCEPT ![k] = None]
    BY <2>5, <2>7 DEF OwnersExact
  <2>9. wants' = wants
    BY <1>w, <2>2
  <2>10. Promised!Release(f)
    BY <2>3, <2>8, <2>9 DEF Promised!Release
  <2> QED BY <2>10 DEF Promised!Next
<1>5. CASE Leave(f)
  <2>1. /\ call[f].pc = "leaving" /\ call'[f].pc = "out"
        /\ \A g \in Fibers : g # f => call'[g] = call[g]
    BY <1>5 DEF Leave, Outside
  <2>2. owners' = owners
    BY <1>o, <2>1
  <2>3. wants' = wants
    BY <1>w, <2>1
  <2> QED BY <2>2, <2>3
<1> QED BY <1>1, <1>2, <1>3, <1>4, <1>5 DEF LockStep

LEMMA LockInitPromised == LockInit => Promised!Init
BY DEF LockInit, Outside, owners, wants, Promised!Init

LEMMA LockNextPromised ==
  LockInv /\ PermitsHeld /\ OwnersExact /\ OwnersExact' /\ [LockNext]_lockVars
    => [Promised!Next]_(Promised!vars)
<1>1. UNCHANGED lockVars => UNCHANGED Promised!vars
  BY DEF lockVars, Promised!vars, owners, wants
<1> QED BY <1>1, LockStepPromised DEF LockNext

(* The keyed mutex keeps the promise of Mutex: a lock that its owner has is    *)
(* granted to nobody else, and whoever asked gets it free or gives up, though  *)
(* the Map forgets the entry of a key with its last user (keyed-mutex.ts:14).  *)
THEOREM ImplementsMutex == LockSpec => Promised!Spec
<1>1. LockInv /\ PermitsHeld /\ [LockNext]_lockVars => (LockInv /\ PermitsHeld)'
  BY LockStepInv, PermitsStep
<1>2. LockInv' /\ PermitsHeld' => OwnersExact'
  BY OwnersKnown, PTL
<1> QED
  BY <1>1, <1>2, LockInitInv, PermitsInit, OwnersKnown, LockInitPromised, LockNextPromised, PTL
  DEF LockSpec, Promised!Spec

-------------------------------------------------------------------------------
(* The files.                                                                  *)

JobSet ==
  [phase : {"idle", "prepare", "apply", "open", "fill", "ended"},
   plan : Plans \cup {<<>>}, seen : Seq(Contents), at : Nat]

Target(j) == j.plan[j.at].key

Kind(j) == j.plan[j.at].kind

\* A call applies its changes once it has read for each of them.
JobWell(j) ==
  /\ Len(j.seen) <= Len(j.plan)
  /\ j.phase = "prepare" => j.at = 1 /\ Len(j.seen) < Len(j.plan)
  /\ j.phase \in {"apply", "open", "fill"} =>
       j.at \in 1 .. Len(j.plan) /\ Len(j.seen) = Len(j.plan)
  /\ \A i \in 1 .. Len(j.seen) : j.plan[i].kind = "update" => j.seen[i] # None

JobsWell == job \in [Fibers -> JobSet] /\ \A f \in Fibers : JobWell(job[f])

\* Who waits for a lock or has one is about to apply a change to that very key.
AimsAtTarget ==
  \A f \in Fibers : call[f].pc \in {"waiting", "holding"} =>
    job[f].phase \in {"apply", "open", "fill"} /\ call[f].key = Target(job[f])

WritesUnderLock ==
  \A f \in Fibers : job[f].phase \in {"open", "fill"} => call[f].pc = "holding"

FilesWell ==
  /\ file \in [Keys -> Contents]
  /\ kept \in [Keys -> SUBSET Fibers]
  /\ foreign \in 0 .. MaxForeign
  /\ failures \in 0 .. MaxFailures

Filling(k) == \E f \in Fibers : job[f].phase = "fill" /\ Target(job[f]) = k

\* A torn file owes nothing, unless the call that emptied it is about to fill it.
TornOwesNothing ==
  \A k \in Keys : file[k] # None => file[k].whole \/ kept[k] = {} \/ Filling(k)

\* An update past its comparison has read every change the file must still contain.
UpdateSawAll ==
  \A f \in Fibers :
    job[f].phase \in {"open", "fill"} /\ Kind(job[f]) = "update" =>
      kept[Target(job[f])] \subseteq job[f].seen[job[f].at].marks

Inv ==
  /\ LockInv
  /\ JobsWell
  /\ AimsAtTarget
  /\ WritesUnderLock
  /\ FilesWell
  /\ TornOwesNothing
  /\ UpdateSawAll
  /\ NoLostEdit

\* The change a call is at, and what it read for it, are there.
LEMMA ChangeKnown ==
  ASSUME NEW j \in JobSet, JobWell(j), j.phase \in {"apply", "open", "fill"}
  PROVE  /\ j.plan[j.at] \in Changes
         /\ Target(j) \in Keys
         /\ j.seen[j.at] \in Contents
         /\ Kind(j) = "update" => j.seen[j.at] # None
<1>1. j.plan \in Plans /\ j.at \in 1 .. Len(j.plan) /\ Len(j.seen) = Len(j.plan)
  BY DEF JobWell, JobSet
<1>2. j.plan \in Seq(Changes)
  BY <1>1, PlansAssumption
<1>3. j.plan[j.at] \in Changes
  BY <1>1, <1>2
<1>4. j.seen[j.at] \in Contents
  BY <1>1 DEF JobSet
<1>5. Kind(j) = "update" => j.seen[j.at] # None
  BY <1>1 DEF Kind, JobWell
<1> QED BY <1>3, <1>4, <1>5 DEF Target, Changes

\* Two calls that write are never at the same file.
LEMMA WritersApart ==
  ASSUME Inv, NEW f \in Fibers, NEW g \in Fibers, f # g,
         call[f].pc = "holding", job[g].phase \in {"open", "fill"}
  PROVE  Target(job[f]) # Target(job[g])
<1>1. call[g].pc = "holding"
  BY DEF Inv, WritesUnderLock
<1>2. call[f].key = Target(job[f]) /\ call[g].key = Target(job[g])
  BY <1>1 DEF Inv, AimsAtTarget
<1>3. Exclusion
  BY LockInvExact DEF Inv
<1> QED BY <1>1, <1>2, <1>3 DEF Exclusion

\* Nothing is lost at the start.
LEMMA InitInv == Init => Inv
<1> SUFFICES ASSUME Init PROVE Inv
  OBVIOUS
<1> USE DEF Init
<1>1. LockInv
  BY LockInitInv
<1>2. \A f \in Fibers : call[f] = Outside /\ job[f] = NoJob
  BY DEF LockInit
<1>3. JobsWell
  BY DEF JobsWell, JobSet, JobWell, NoJob, Doing
<1>4. AimsAtTarget /\ WritesUnderLock
  BY <1>2 DEF AimsAtTarget, WritesUnderLock, Outside, NoJob, Doing
<1>5. FilesWell
  <2>1. {None, Whole({})} \subseteq Contents
    BY DEF Contents, Whole
  <2>2. file \in [Keys -> Contents]
    BY <2>1
  <2>3. kept \in [Keys -> SUBSET Fibers]
    OBVIOUS
  <2>4. foreign \in 0 .. MaxForeign /\ failures \in 0 .. MaxFailures
    BY BoundsAssumption
  <2> QED BY <2>2, <2>3, <2>4 DEF FilesWell
<1>6. TornOwesNothing /\ UpdateSawAll /\ NoLostEdit
  BY <1>2 DEF TornOwesNothing, UpdateSawAll, NoLostEdit, Whole, NoJob, Doing
<1> QED BY <1>1, <1>3, <1>4, <1>5, <1>6 DEF Inv

\* A step that replaces one job by a well-formed one keeps the table well-formed.
LEMMA JobReplaced ==
  ASSUME JobsWell, NEW f \in Fibers, NEW j \in JobSet, JobWell(j),
         Become(f, j)
  PROVE  JobsWell' /\ job'[f] = j /\ \A g \in Fibers \ {f} : job'[g] = job[g]
BY DEF JobsWell, Become

\* A call that neither is nor comes to be writing leaves what is said of the files true.
LEMMA QuietFiles ==
  ASSUME Inv, NEW f \in Fibers, UNCHANGED <<file, kept>>,
         \A g \in Fibers \ {f} : job'[g] = job[g],
         \/ job'[f] = job[f]
         \/ job[f].phase # "fill" /\ job'[f].phase \notin {"open", "fill"}
  PROVE  TornOwesNothing' /\ UpdateSawAll' /\ NoLostEdit'
<1> USE DEF Inv
<1>1. TornOwesNothing'
  BY DEF TornOwesNothing, Filling
<1>2. UpdateSawAll'
  BY DEF UpdateSawAll
<1>3. NoLostEdit'
  BY DEF NoLostEdit
<1> QED BY <1>1, <1>2, <1>3

\* The record of a call that is over is a well-formed one.
LEMMA EndedWell == Ended \in JobSet /\ JobWell(Ended) /\ Ended.phase = "ended"
BY DEF Ended, Doing, JobSet, JobWell

\* Reading ahead: no lock, no file changed, one more thing known.
LEMMA PreparationInv ==
  ASSUME Inv, NEW f \in Fibers, Begin(f) \/ Prepare(f) \/ PrepareFails(f)
  PROVE  Inv'
<1> USE DEF Inv
<1>0. /\ UNCHANGED <<lockVars, file, kept, foreign, failures>>
      /\ job[f].phase \in {"idle", "prepare"}
  BY DEF Begin, Prepare, PrepareFails
<1>1. \E j \in JobSet : JobWell(j) /\ j.phase \in {"prepare", "apply", "ended"} /\ Become(f, j)
  <2>1. CASE Begin(f)
    <3> PICK p \in Plans : Become(f, Doing("prepare", p, <<>>, 1))
      BY <2>1 DEF Begin
    <3> DEFINE j == Doing("prepare", p, <<>>, 1)
    <3>1. p \in Seq(Changes) /\ p # <<>>
      BY PlansAssumption
    <3>2. j \in JobSet
      BY DEF JobSet, Doing
    <3>3. JobWell(j) /\ j.phase = "prepare"
      BY <3>1 DEF JobWell, Doing
    <3> QED BY <3>2, <3>3
  <2>2. CASE Prepare(f)
    <3> DEFINE i == Len(job[f].seen) + 1
               c == job[f].plan[i]
               read == IF c.kind \in {"update", "delete"} THEN file[c.key] ELSE None
               j == Doing(IF i = Len(job[f].plan) THEN "apply" ELSE "prepare",
                          job[f].plan, Append(job[f].seen, read), job[f].at)
    <3>0. job[f] \in JobSet /\ JobWell(job[f]) /\ job[f].phase = "prepare"
      BY <2>2 DEF JobsWell, Prepare
    <3>1. Become(f, j)
      BY <2>2 DEF Prepare
    <3>2. c.kind \in {"update", "delete"} => file[c.key] # None
      BY <2>2 DEF Prepare
    <3>3. i \in 1 .. Len(job[f].plan) /\ job[f].plan \in Seq(Changes)
      BY <3>0, PlansAssumption DEF JobSet, JobWell
    <3>4. c \in Changes
      BY <3>3
    <3>5. read \in Contents /\ (c.kind = "update" => read # None)
      BY <3>2, <3>4 DEF FilesWell, Changes, Contents
    <3>6. j \in JobSet
      BY <3>0, <3>5 DEF JobSet, Doing
    <3>7. /\ Len(j.seen) = i /\ j.plan = job[f].plan /\ j.at = job[f].at
          /\ j.phase = IF i = Len(job[f].plan) THEN "apply" ELSE "prepare"
          /\ \A n \in 1 .. i : j.seen[n] = IF n = i THEN read ELSE job[f].seen[n]
      BY <3>0, <3>5 DEF JobSet, Doing
    <3>8. JobWell(j)
      <4>1. Len(job[f].seen) \in Nat /\ Len(job[f].plan) \in Nat
        BY <3>0, <3>3 DEF JobSet
      <4>2. \A n \in 1 .. Len(j.seen) : j.plan[n].kind = "update" => j.seen[n] # None
        <5> SUFFICES ASSUME NEW n \in 1 .. i, job[f].plan[n].kind = "update"
                     PROVE  j.seen[n] # None
          BY <3>7
        <5>1. CASE n = i
          BY <3>5, <3>7, <5>1
        <5>2. CASE n # i
          <6>1. n \in 1 .. Len(job[f].seen)
            BY <4>1, <5>2
          <6> HIDE DEF i, c, read, j
          <6> QED BY <3>0, <3>7, <5>2, <6>1 DEF JobWell
        <5> QED BY <5>1, <5>2
      <4> HIDE DEF j
      <4> QED BY <3>0, <3>3, <3>7, <4>1, <4>2 DEF JobWell
    <3> QED BY <3>1, <3>6, <3>7, <3>8
  <2>3. CASE PrepareFails(f)
    <3> QED BY <2>3, EndedWell DEF PrepareFails
  <2> QED BY <2>1, <2>2, <2>3
<1>2. PICK j \in JobSet : JobWell(j) /\ j.phase \in {"prepare", "apply", "ended"} /\ Become(f, j)
  BY <1>1
<1>3. JobsWell' /\ job'[f] = j /\ \A g \in Fibers \ {f} : job'[g] = job[g]
  BY <1>2, JobReplaced
<1>4. call[f].pc \notin {"waiting", "holding"}
  BY <1>0 DEF AimsAtTarget
<1>5. LockInv'
  BY <1>0, LockStepInv
<1>6. AimsAtTarget' /\ WritesUnderLock'
  BY <1>0, <1>2, <1>3, <1>4 DEF AimsAtTarget, WritesUnderLock, lockVars
<1>7. FilesWell'
  BY <1>0 DEF FilesWell
<1>8. TornOwesNothing' /\ UpdateSawAll' /\ NoLostEdit'
  BY <1>0, <1>2, <1>3, QuietFiles
<1> QED BY <1>3, <1>5, <1>6, <1>7, <1>8

\* A step of the lock moves one fiber.
LEMMA LockMoves ==
  ASSUME Inv, NEW f \in Fibers, Take(f) \/ GiveUp(f) \/ Release(f) \/ Leave(f)
  PROVE  /\ LockInv'
         /\ \A g \in Fibers \ {f} : call'[g] = call[g]
         /\ call'[f].pc = IF call[f].pc = "waiting" /\ call'[f].pc # "leaving" THEN "holding"
                          ELSE IF call[f].pc = "leaving" THEN "out" ELSE "leaving"
         /\ call[f].pc # "leaving" => call'[f].key = call[f].key
<1>1. LockInv'
  BY LockStepInv DEF LockNext, LockStep, Inv
<1> QED BY <1>1 DEF Inv, LockInv, LockTypeOK, Calls, Outside, Take, GiveUp, Release, Leave

\* Steps of the lock alone.
LEMMA LockingInv ==
  ASSUME Inv, NEW f \in Fibers, LockTarget(f) \/ TakeTarget(f) \/ LeaveTarget(f)
  PROVE  Inv'
<1> USE DEF Inv
<1>0. UNCHANGED <<file, job, kept, foreign, failures>>
  BY DEF LockTarget, TakeTarget, LeaveTarget
<1>1. JobsWell' /\ FilesWell' /\ TornOwesNothing' /\ UpdateSawAll' /\ NoLostEdit'
  BY <1>0, QuietFiles DEF JobsWell, FilesWell
<1>2. LockInv' /\ AimsAtTarget' /\ WritesUnderLock'
  <2>1. CASE LockTarget(f)
    <3>0. job[f].phase = "apply" /\ Enter(f, Target(job[f]))
      BY <2>1 DEF LockTarget, Change, Target
    <3>1. Target(job[f]) \in Keys
      BY <3>0, ChangeKnown DEF JobsWell
    <3>2. LockInv'
      BY <3>0, <3>1, LockStepInv DEF LockNext, LockStep
    <3>3. /\ call[f].pc = "out" /\ call'[f].pc = "waiting" /\ call'[f].key = Target(job[f])
          /\ \A g \in Fibers \ {f} : call'[g] = call[g]
      BY <3>0 DEF Enter, LockInv, LockTypeOK
    <3> QED BY <1>0, <3>0, <3>2, <3>3 DEF AimsAtTarget, WritesUnderLock
  <2>2. CASE TakeTarget(f)
    <3>1. Take(f) /\ call[f].pc = "waiting" /\ call'[f].pc = "holding"
      BY <2>2 DEF TakeTarget, Take, LockInv, LockTypeOK
    <3> QED BY <1>0, <3>1, LockMoves DEF AimsAtTarget, WritesUnderLock
  <2>3. CASE LeaveTarget(f)
    <3>1. Leave(f) /\ call[f].pc = "leaving"
      BY <2>3 DEF LeaveTarget, Leave
    <3> QED BY <1>0, <3>1, LockMoves DEF AimsAtTarget, WritesUnderLock
  <2> QED BY <2>1, <2>2, <2>3
<1> QED BY <1>1, <1>2

\* A call that gives up its lock is over or turns to its next change.
LEMMA LetGo ==
  ASSUME Inv, NEW f \in Fibers, job[f].phase \in {"apply", "open", "fill"},
         \/ Done(f)
         \/ Fail(f)
         \/ GiveUp(f) /\ Become(f, Ended)
         \/ call[f].pc = "out" /\ UNCHANGED lockVars /\ Become(f, Ended)
  PROVE  /\ LockInv' /\ JobsWell' /\ AimsAtTarget' /\ WritesUnderLock'
         /\ \A g \in Fibers \ {f} : job'[g] = job[g]
         /\ job'[f].phase \in {"apply", "ended"}
<1> USE DEF Inv
<1>1. \E j \in JobSet : JobWell(j) /\ j.phase \in {"apply", "ended"} /\ Become(f, j)
  <2>1. CASE Done(f) /\ job[f].at # Len(job[f].plan)
    <3>0. job[f] \in JobSet /\ JobWell(job[f])
      BY DEF JobsWell
    <3>1. Become(f, NextChange(f))
      BY <2>1 DEF Done
    <3>2. NextChange(f) \in JobSet
      BY <3>0 DEF NextChange, Doing, JobSet
    <3>3. job[f].at + 1 \in 1 .. Len(job[f].plan)
      <4>1. Len(job[f].plan) \in Nat
        BY <3>0, PlansAssumption DEF JobSet
      <4> QED BY <2>1, <3>0, <4>1 DEF JobWell
    <3>4. JobWell(NextChange(f)) /\ NextChange(f).phase = "apply"
      BY <3>0, <3>3 DEF NextChange, Doing, JobWell
    <3> QED BY <3>1, <3>2, <3>4
  <2>2. CASE ~(Done(f) /\ job[f].at # Len(job[f].plan))
    <3>1. Become(f, Ended)
      BY <2>2 DEF Done, Fail
    <3> QED BY <3>1, EndedWell
  <2> QED BY <2>1, <2>2
<1>2. /\ LockInv'
      /\ \A g \in Fibers \ {f} : call'[g] = call[g]
      /\ call'[f].pc \in {"leaving", "out"}
  <2>1. CASE Release(f) \/ GiveUp(f)
    <3>1. call'[f].pc = "leaving"
      BY <2>1 DEF Release, GiveUp, LockInv, LockTypeOK, Calls
    <3> QED BY <2>1, <3>1, LockMoves
  <2>2. CASE call[f].pc = "out" /\ UNCHANGED lockVars
    BY <2>2, LockStepInv DEF lockVars
  <2> QED BY <2>1, <2>2 DEF Done, Fail
<1>3. PICK j \in JobSet : JobWell(j) /\ j.phase \in {"apply", "ended"} /\ Become(f, j)
  BY <1>1
<1>4. JobsWell' /\ job'[f] = j /\ \A g \in Fibers \ {f} : job'[g] = job[g]
  BY <1>3, JobReplaced
<1>5. AimsAtTarget' /\ WritesUnderLock'
  BY <1>2, <1>3, <1>4 DEF AimsAtTarget, WritesUnderLock
<1> QED BY <1>2, <1>3, <1>4, <1>5

\* A change that is not made: interrupted, refused as stale, or in the way of a file.
LEMMA RefusalInv ==
  ASSUME Inv, NEW f \in Fibers, Interrupt(f) \/ Stale(f) \/ Exists(f)
  PROVE  Inv'
<1>1. /\ UNCHANGED <<file, kept, foreign, failures>>
      /\ job[f].phase = "apply"
      /\ \/ Fail(f)
         \/ GiveUp(f) /\ Become(f, Ended)
         \/ call[f].pc = "out" /\ UNCHANGED lockVars /\ Become(f, Ended)
  BY DEF Interrupt, Stale, Exists, Applying
<1>2. /\ LockInv' /\ JobsWell' /\ AimsAtTarget' /\ WritesUnderLock'
      /\ \A g \in Fibers \ {f} : job'[g] = job[g]
      /\ job'[f].phase \in {"apply", "ended"}
  BY <1>1, LetGo
<1>3. FilesWell'
  BY <1>1 DEF FilesWell, Inv
<1>4. TornOwesNothing' /\ UpdateSawAll' /\ NoLostEdit'
  BY <1>1, <1>2, QuietFiles
<1> QED BY <1>2, <1>3, <1>4 DEF Inv

\* A call that goes on at the same change, with its lock.
LEMMA GoesOn ==
  ASSUME Inv, NEW f \in Fibers, NEW p \in {"open", "fill"}, call[f].pc = "holding",
         job[f].phase \in {"apply", "open", "fill"}, Phase(f, p), UNCHANGED lockVars
  PROVE  /\ LockInv' /\ JobsWell' /\ AimsAtTarget' /\ WritesUnderLock'
         /\ \A g \in Fibers \ {f} : job'[g] = job[g]
         /\ job'[f] = [phase |-> p, plan |-> job[f].plan, seen |-> job[f].seen, at |-> job[f].at]
<1> USE DEF Inv
<1> DEFINE j == Doing(p, job[f].plan, job[f].seen, job[f].at)
<1>1. Become(f, j)
  BY DEF Phase
<1>2. job[f] \in JobSet /\ JobWell(job[f])
  BY DEF JobsWell
<1>3. j \in JobSet
  BY <1>2 DEF JobSet, Doing
<1>4. JobWell(j)
  BY <1>2 DEF JobWell, Doing
<1>5. JobsWell' /\ job'[f] = j /\ \A g \in Fibers \ {f} : job'[g] = job[g]
  BY <1>1, <1>3, <1>4, JobReplaced
<1>6. LockInv'
  BY LockStepInv
<1>7. AimsAtTarget' /\ WritesUnderLock'
  BY <1>5 DEF AimsAtTarget, WritesUnderLock, Target, lockVars, Doing
<1> QED BY <1>5, <1>6, <1>7 DEF Doing

\* The file holds what the update is derived from, so every change it owes was read.
LEMMA CompareInv ==
  ASSUME Inv, NEW f \in Fibers, Compare(f)
  PROVE  Inv'
<1> USE DEF Inv
<1>0. /\ UNCHANGED <<lockVars, file, kept, foreign, failures>> /\ Phase(f, "open")
      /\ call[f].pc = "holding" /\ job[f].phase = "apply" /\ Kind(job[f]) = "update"
      /\ file[Target(job[f])] = job[f].seen[job[f].at]
  BY DEF Compare, Applying, Unchanged, Change, Target, Kind
<1>1. /\ LockInv' /\ JobsWell' /\ AimsAtTarget' /\ WritesUnderLock'
      /\ \A g \in Fibers \ {f} : job'[g] = job[g]
      /\ job'[f] = [phase |-> "open", plan |-> job[f].plan, seen |-> job[f].seen,
                    at |-> job[f].at]
  BY <1>0, GoesOn
<1>2. /\ Target(job[f]) \in Keys /\ job[f].seen[job[f].at] \in Contents
      /\ job[f].seen[job[f].at] # None
  BY <1>0, ChangeKnown DEF JobsWell
<1>3. ~Filling(Target(job[f]))
  <2>1. ASSUME NEW g \in Fibers, job[g].phase = "fill", Target(job[g]) = Target(job[f])
        PROVE  FALSE
    BY <1>0, <2>1, WritersApart
  <2> QED BY <2>1 DEF Filling
<1>4. kept[Target(job[f])] \subseteq job[f].seen[job[f].at].marks
  BY <1>0, <1>2, <1>3 DEF TornOwesNothing, NoLostEdit
<1>5. UpdateSawAll'
  <2> SUFFICES ASSUME NEW g \in Fibers, job'[g].phase \in {"open", "fill"},
                      Kind(job'[g]) = "update"
               PROVE  kept[Target(job'[g])] \subseteq job'[g].seen[job'[g].at].marks
    BY <1>0 DEF UpdateSawAll
  <2>1. CASE g = f
    BY <1>1, <1>4, <2>1 DEF Target
  <2>2. CASE g # f
    BY <1>1, <2>2 DEF UpdateSawAll
  <2> QED BY <2>1, <2>2
<1>6. TornOwesNothing' /\ NoLostEdit' /\ FilesWell'
  BY <1>0, <1>1 DEF TornOwesNothing, NoLostEdit, FilesWell, Filling
<1> QED BY <1>1, <1>5, <1>6

\* The call that empties a file is the one about to fill it.
LEMMA OpenInv ==
  ASSUME Inv, NEW f \in Fibers, Open(f)
  PROVE  Inv'
<1> USE DEF Inv
<1>0. /\ UNCHANGED <<lockVars, kept, foreign, failures>> /\ Phase(f, "fill")
      /\ call[f].pc = "holding" /\ job[f].phase \in {"apply", "open"}
      /\ file' = [file EXCEPT ![Target(job[f])] = Torn]
      /\ job[f].phase = "apply" => Kind(job[f]) # "update"
  BY DEF Open, Applying, Change, Target, Kind
<1>1. /\ LockInv' /\ JobsWell' /\ AimsAtTarget' /\ WritesUnderLock'
      /\ \A g \in Fibers \ {f} : job'[g] = job[g]
      /\ job'[f] = [phase |-> "fill", plan |-> job[f].plan, seen |-> job[f].seen,
                    at |-> job[f].at]
  BY <1>0, GoesOn
<1>2. Target(job[f]) \in Keys
  BY <1>0, ChangeKnown DEF JobsWell
<1>3. FilesWell'
  BY <1>0, <1>2 DEF FilesWell, Contents, Torn
<1>4. UpdateSawAll'
  <2> SUFFICES ASSUME NEW g \in Fibers, job'[g].phase \in {"open", "fill"},
                      Kind(job'[g]) = "update"
               PROVE  kept[Target(job'[g])] \subseteq job'[g].seen[job'[g].at].marks
    BY <1>0 DEF UpdateSawAll
  <2>1. CASE g = f
    BY <1>0, <1>1, <2>1 DEF Target, Kind, UpdateSawAll
  <2>2. CASE g # f
    BY <1>1, <2>2 DEF UpdateSawAll
  <2> QED BY <2>1, <2>2
<1>5. TornOwesNothing'
  <2> SUFFICES ASSUME NEW k \in Keys, file'[k] # None, ~file'[k].whole, kept[k] # {}
               PROVE  Filling(k)'
    BY <1>0 DEF TornOwesNothing
  <2>1. CASE k = Target(job[f])
    BY <1>1, <2>1 DEF Filling, Target
  <2>2. CASE k # Target(job[f])
    <3>1. Filling(k)
      BY <1>0, <2>2 DEF TornOwesNothing, FilesWell
    <3>2. PICK g \in Fibers : job[g].phase = "fill" /\ Target(job[g]) = k
      BY <3>1 DEF Filling
    <3>3. g # f
      BY <1>0, <3>2
    <3> QED BY <1>1, <3>2, <3>3 DEF Filling
  <2> QED BY <2>1, <2>2
<1>6. NoLostEdit'
  BY <1>0, <1>2 DEF NoLostEdit, FilesWell, Torn
<1> QED BY <1>1, <1>3, <1>4, <1>5, <1>6

\* What the holder of a lock does to its file concerns no other call that writes.
LEMMA OthersUntouched ==
  ASSUME Inv, NEW f \in Fibers, call[f].pc = "holding",
         \A g \in Fibers \ {f} : job'[g] = job[g],
         job'[f].phase \in {"apply", "ended"},
         \A k \in Keys \ {Target(job[f])} : kept'[k] = kept[k] /\ file'[k] = file[k]
  PROVE  /\ UpdateSawAll'
         /\ \A k \in Keys \ {Target(job[f])} : Filling(k) => Filling(k)'
<1> USE DEF Inv
<1>1. UpdateSawAll'
  <2> SUFFICES ASSUME NEW g \in Fibers, job'[g].phase \in {"open", "fill"},
                      Kind(job'[g]) = "update"
               PROVE  kept'[Target(job'[g])] \subseteq job'[g].seen[job'[g].at].marks
    BY DEF UpdateSawAll
  <2>1. g # f /\ job'[g] = job[g]
    OBVIOUS
  <2>2. Target(job[g]) \in Keys /\ Target(job[g]) # Target(job[f])
    BY <2>1, ChangeKnown, WritersApart DEF JobsWell
  <2> QED BY <2>1, <2>2 DEF UpdateSawAll
<1>2. \A k \in Keys \ {Target(job[f])} : Filling(k) => Filling(k)'
  BY DEF Filling
<1> QED BY <1>1, <1>2

\* An update adds its mark to what it read, which is all the file owed; the others start afresh.
LEMMA FillInv ==
  ASSUME Inv, NEW f \in Fibers, Fill(f)
  PROVE  Inv'
<1> USE DEF Inv
<1> DEFINE k == Target(job[f])
           isUpdate == Kind(job[f]) = "update"
           seen == job[f].seen[job[f].at]
           marks == {f} \cup IF isUpdate THEN seen.marks ELSE {}
<1>0. /\ call[f].pc = "holding" /\ job[f].phase = "fill"
      /\ file' = [file EXCEPT ![k] = Whole(marks)]
      /\ kept' = [kept EXCEPT ![k] = {f} \cup IF isUpdate THEN kept[k] ELSE {}]
      /\ Done(f)
      /\ UNCHANGED <<foreign, failures>>
  BY DEF Fill, Written, Change, Target, Kind
<1>1. /\ LockInv' /\ JobsWell' /\ AimsAtTarget' /\ WritesUnderLock'
      /\ \A g \in Fibers \ {f} : job'[g] = job[g]
      /\ job'[f].phase \in {"apply", "ended"}
  BY <1>0, LetGo
<1>2. k \in Keys /\ seen \in Contents /\ (isUpdate => seen # None)
  BY <1>0, ChangeKnown DEF JobsWell
<1>3. /\ UpdateSawAll'
      /\ \A l \in Keys \ {k} : Filling(l) => Filling(l)'
  <2>1. \A l \in Keys \ {k} : kept'[l] = kept[l] /\ file'[l] = file[l]
    BY <1>0 DEF FilesWell
  <2> QED BY <1>0, <1>1, <2>1, OthersUntouched
<1>4. marks \subseteq Fibers
  BY <1>2 DEF Contents
<1>5. FilesWell'
  <2>1. Whole(marks) \in Contents
    BY <1>4 DEF Whole, Contents
  <2>2. file' \in [Keys -> Contents]
    BY <1>0, <2>1 DEF FilesWell
  <2>3. kept' \in [Keys -> SUBSET Fibers]
    BY <1>0, <1>2 DEF FilesWell
  <2> QED BY <1>0, <2>2, <2>3 DEF FilesWell
<1>6. file'[k] = Whole(marks) /\ \A l \in Keys \ {k} : file'[l] = file[l] /\ kept'[l] = kept[l]
  BY <1>0, <1>2 DEF FilesWell
<1>7. kept'[k] \subseteq marks
  <2>1. isUpdate => kept[k] \subseteq seen.marks
    BY <1>0 DEF UpdateSawAll
  <2> QED BY <1>0, <1>2, <2>1 DEF FilesWell
<1> HIDE DEF marks, k
<1>8. NoLostEdit'
  BY <1>6, <1>7 DEF NoLostEdit, Whole
<1>9. TornOwesNothing'
  BY <1>3, <1>6 DEF TornOwesNothing, Whole
<1> QED BY <1>1, <1>3, <1>5, <1>8, <1>9

\* A file left missing or torn by a call that ends owes nothing any more.
LEMMA EmptiedInv ==
  ASSUME Inv, NEW f \in Fibers, WriteFails(f) \/ Remove(f)
  PROVE  Inv'
<1> USE DEF Inv
<1> DEFINE k == Target(job[f])
<1>0. /\ call[f].pc = "holding" /\ job[f].phase \in {"apply", "open", "fill"}
      /\ Done(f) \/ Fail(f)
      /\ \/ file' = file
         \/ file' = [file EXCEPT ![k] = None] /\ job[f].phase = "apply"
      /\ \/ kept' = kept /\ file' = file /\ job[f].phase # "fill"
         \/ kept' = [kept EXCEPT ![k] = {}]
      /\ foreign' = foreign /\ failures' \in 0 .. MaxFailures
  <2>1. CASE Remove(f)
    BY <2>1 DEF Remove, Applying, Change, Target, FilesWell
  <2>2. CASE WriteFails(f)
    <3>1. failures' \in 0 .. MaxFailures
      BY <2>2, BoundsAssumption DEF WriteFails, FilesWell
    <3>2. kept' = IF job[f].phase = "fill" THEN [kept EXCEPT ![k] = {}] ELSE kept
      BY <2>2 DEF WriteFails, Change, Target
    <3>3. call[f].pc = "holding" /\ job[f].phase \in {"apply", "open", "fill"} /\ Fail(f)
      BY <2>2 DEF WriteFails, Applying
    <3>4. file' = file /\ foreign' = foreign
      BY <2>2 DEF WriteFails
    <3> QED BY <3>1, <3>2, <3>3, <3>4
  <2> QED BY <2>1, <2>2
<1>1. /\ LockInv' /\ JobsWell' /\ AimsAtTarget' /\ WritesUnderLock'
      /\ \A g \in Fibers \ {f} : job'[g] = job[g]
      /\ job'[f].phase \in {"apply", "ended"}
  BY <1>0, LetGo
<1>2. k \in Keys
  BY <1>0, ChangeKnown DEF JobsWell
<1>3. FilesWell'
  BY <1>0, <1>2 DEF FilesWell, Contents
<1>4. \A l \in Keys \ {k} : kept'[l] = kept[l] /\ file'[l] = file[l]
  BY <1>0 DEF FilesWell
<1>5. UpdateSawAll' /\ \A l \in Keys \ {k} : Filling(l) => Filling(l)'
  BY <1>0, <1>1, <1>4, OthersUntouched
<1>6. \/ kept'[k] = {}
      \/ kept'[k] = kept[k] /\ file'[k] = file[k] /\ job[f].phase # "fill"
  BY <1>0, <1>2 DEF FilesWell
<1>7. job[f].phase # "fill" => ~Filling(k)
  BY <1>0, WritersApart DEF Filling
<1> HIDE DEF k
<1>8. TornOwesNothing'
  BY <1>2, <1>4, <1>5, <1>6, <1>7 DEF TornOwesNothing
<1>9. NoLostEdit'
  BY <1>2, <1>4, <1>6 DEF NoLostEdit
<1> QED BY <1>1, <1>3, <1>5, <1>8, <1>9

\* After an edit of another process a file owes nothing to the calls.
LEMMA ForeignInv ==
  ASSUME Inv, NEW k \in Keys, ForeignEdit(k)
  PROVE  Inv'
<1> USE DEF Inv
<1>0. /\ UNCHANGED <<lockVars, job, failures>>
      /\ kept' = [kept EXCEPT ![k] = {}]
      /\ file' \in {[file EXCEPT ![k] = c] : c \in {None, Whole({})}}
      /\ foreign' \in 0 .. MaxForeign
  BY BoundsAssumption DEF ForeignEdit, FilesWell
<1>1. LockInv' /\ JobsWell' /\ AimsAtTarget' /\ WritesUnderLock'
  BY <1>0, LockStepInv DEF JobsWell, AimsAtTarget, WritesUnderLock, lockVars
<1>2. /\ kept'[k] = {}
      /\ \A l \in Keys \ {k} : kept'[l] = kept[l] /\ file'[l] = file[l]
  BY <1>0 DEF FilesWell
<1>3. FilesWell'
  <2>1. {None, Whole({})} \subseteq Contents
    BY DEF Whole, Contents
  <2> QED BY <1>0, <2>1 DEF FilesWell
<1>4. TornOwesNothing' /\ NoLostEdit'
  BY <1>0, <1>2 DEF TornOwesNothing, NoLostEdit, Filling
<1>5. UpdateSawAll'
  <2> SUFFICES ASSUME NEW g \in Fibers, job[g].phase \in {"open", "fill"},
                      Kind(job[g]) = "update"
               PROVE  kept'[Target(job[g])] \subseteq job[g].seen[job[g].at].marks
    BY <1>0 DEF UpdateSawAll
  <2>1. Target(job[g]) \in Keys
    BY ChangeKnown DEF JobsWell
  <2> QED BY <1>2, <2>1 DEF UpdateSawAll
<1> QED BY <1>1, <1>3, <1>4, <1>5

\* Every step keeps what is said of locks, calls and files.
LEMMA StepInv == Inv /\ [Next]_vars => Inv'
<1> SUFFICES ASSUME Inv, [Next]_vars PROVE Inv'
  OBVIOUS
<1>1. ASSUME NEW f \in Fibers, Step(f) PROVE Inv'
  BY <1>1, PreparationInv, LockingInv, RefusalInv, CompareInv, OpenInv, FillInv, EmptiedInv
  DEF Step
<1>2. ASSUME NEW k \in Keys, ForeignEdit(k) PROVE Inv'
  BY <1>2, ForeignInv
<1>3. CASE UNCHANGED vars
  <2>1. LockInv'
    BY <1>3, LockStepInv DEF Inv, vars, lockVars
  <2> QED BY <1>3, <2>1 DEF Inv, vars, JobsWell, AimsAtTarget, WritesUnderLock, FilesWell,
            TornOwesNothing, Filling, UpdateSawAll, NoLostEdit, lockVars
<1> QED BY <1>1, <1>2, <1>3 DEF Next

\* What the invariant says of types is the type invariant.
LEMMA InvTyped == Inv => TypeOK
<1> SUFFICES ASSUME Inv PROVE TypeOK
  OBVIOUS
<1>1. ASSUME NEW f \in Fibers
      PROVE  /\ job[f].phase \in {"idle", "prepare", "apply", "open", "fill", "ended"}
             /\ job[f].plan \in Plans \cup {<<>>}
             /\ job[f].seen \in Seq(Contents)
             /\ Len(job[f].seen) <= Len(job[f].plan)
             /\ job[f].phase \in {"apply", "open", "fill"} =>
                  job[f].at \in 1 .. Len(job[f].plan) /\ Len(job[f].seen) = Len(job[f].plan)
  BY DEF Inv, JobsWell, JobSet, JobWell
<1> QED BY <1>1 DEF TypeOK, Inv, LockInv, FilesWell

(* The state of a tool call that changes files has the types the model says,   *)
(* at every one of its suspensions.                                            *)
THEOREM TypeCorrect == Spec => []TypeOK
BY InitInv, StepInv, InvTyped, PTL DEF Spec

(* No completed change derived from what a file held is lost, though reads are *)
(* not locked and other processes edit the files.                              *)
THEOREM EditsKept == Spec => []NoLostEdit
<1>1. Inv => NoLostEdit
  BY DEF Inv
<1> QED BY <1>1, InitInv, StepInv, PTL DEF Spec

(* The tool calls use the keyed mutex as it is meant to be used, so it stays   *)
(* exact under them.                                                           *)
THEOREM TargetLocksExact == Spec => []LocksExact
<1>1. Inv => LocksExact
  BY LockInvExact DEF Inv
<1> QED BY <1>1, InitInv, StepInv, PTL DEF Spec

\* Whatever a tool call does to the locks is a step of the mutex.
LEMMA StepOfLock == Inv /\ [Next]_vars => [LockNext]_lockVars
<1> SUFFICES ASSUME Inv, [Next]_vars PROVE [LockNext]_lockVars
  OBVIOUS
<1>1. ASSUME NEW f \in Fibers, Step(f) PROVE LockStep(f) \/ UNCHANGED lockVars
  <2>1. CASE LockTarget(f)
    <3>1. job[f].phase = "apply" /\ Enter(f, Target(job[f]))
      BY <2>1 DEF LockTarget, Change, Target
    <3>2. Target(job[f]) \in Keys
      BY <3>1, ChangeKnown DEF Inv, JobsWell
    <3> QED BY <3>1, <3>2 DEF LockStep
  <2>2. CASE TakeTarget(f) \/ Interrupt(f) \/ LeaveTarget(f)
    BY <2>2 DEF TakeTarget, Interrupt, LeaveTarget, LockStep
  <2>3. CASE Stale(f) \/ Exists(f) \/ Fill(f) \/ WriteFails(f) \/ Remove(f)
    BY <2>3 DEF Stale, Exists, Fill, WriteFails, Remove, Done, Fail, LockStep
  <2>4. CASE Begin(f) \/ Prepare(f) \/ PrepareFails(f) \/ Compare(f) \/ Open(f)
    BY <2>4 DEF Begin, Prepare, PrepareFails, Compare, Open
  <2> QED BY <1>1, <2>1, <2>2, <2>3, <2>4 DEF Step
<1>2. ASSUME NEW k \in Keys, ForeignEdit(k) PROVE UNCHANGED lockVars
  BY <1>2 DEF ForeignEdit
<1>3. UNCHANGED vars => UNCHANGED lockVars
  BY DEF vars
<1> QED BY <1>1, <1>2, <1>3 DEF Next, LockNext

(* Under the tool calls the locks are those of the keyed mutex alone, and so   *)
(* they keep its promise: the lock of a file has one owner, from the grant to  *)
(* the release (file-mutation.ts:79).                                         *)
THEOREM TargetsLocked == Spec => Promised!Spec
<1>1. Init => LockInit
  BY DEF Init
<1>2. Spec => LockSpec
  BY <1>1, InitInv, StepInv, StepOfLock, PTL DEF Spec, LockSpec
<1> QED BY <1>2, ImplementsMutex
===============================================================================
