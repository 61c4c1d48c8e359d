----------------------------- MODULE KeyedMutex -----------------------------
(* The in-memory mutex with one lock per key (packages/core/src/effect/        *)
(* keyed-mutex.ts).  A Map leads from a key to an entry: a semaphore of one    *)
(* permit and the number of its holders and waiters.  An entry leaves the Map  *)
(* with its last user, so a key may have had many entries over time; the mutex *)
(* is one only if no two of them are ever in use together.                     *)
EXTENDS Naturals, FiniteSets

CONSTANTS Fibers,    \* the fibers that take locks
          Keys,      \* the keys of the Map
          Entries,   \* the entry objects; one that nothing refers to is free
          None

ASSUME MutexAssumption == IsFiniteSet(Fibers) /\ None \notin Fibers \cup Keys \cup Entries

VARIABLES locks,     \* the Map: a key's entry, None when it has none
          users,     \* an entry's count of holders and waiters
          holder,    \* the fiber that has the permit of an entry's semaphore
          call       \* where a fiber is in withLock, for which key, with which entry

lockVars == <<locks, users, holder, call>>

Outside == [pc |-> "out", key |-> None, entry |-> None]

Calls == [pc : {"out", "waiting", "holding", "leaving"}, key : Keys \cup {None},
          entry : Entries \cup {None}]

LockTypeOK ==
  /\ locks \in [Keys -> Entries \cup {None}]
  /\ users \in [Entries -> Nat]
  /\ holder \in [Entries -> Fibers \cup {None}]
  /\ call \in [Fibers -> Calls]

LockInit ==
  /\ locks = [k \in Keys |-> None]
  /\ users = [e \in Entries |-> 0]
  /\ holder = [e \in Entries |-> None]
  /\ call = [f \in Fibers |-> Outside]

InUse(e) == (\E f \in Fibers : call[f].entry = e) \/ (\E k \in Keys : locks[k] = e)

\* The synchronous head of withLock: find or make the entry and count the caller.
Enter(f, k) ==
  /\ call[f].pc = "out"
  /\ \E e \in Entries :
       /\ IF locks[k] = None THEN ~InUse(e) ELSE e = locks[k]
       /\ locks' = [locks EXCEPT ![k] = e]
       /\ users' = [users EXCEPT ![e] = IF locks[k] = None THEN 1 ELSE @ + 1]
       /\ call' = [call EXCEPT ![f] = [pc |-> "waiting", key |-> k, entry |-> e]]
  /\ UNCHANGED holder

\* The semaphore grants its one permit to any waiter.
Take(f) ==
  /\ call[f].pc = "waiting"
  /\ holder[call[f].entry] = None
  /\ holder' = [holder EXCEPT ![call[f].entry] = f]
  /\ call' = [call EXCEPT ![f] = [@ EXCEPT !.pc = "holding"]]
  /\ UNCHANGED <<locks, users>>

\* A waiter is interrupted: no permit, but the finalizer still has to run.
GiveUp(f) ==
  /\ call[f].pc = "waiting"
  /\ call' = [call EXCEPT ![f] = [@ EXCEPT !.pc = "leaving"]]
  /\ UNCHANGED <<locks, users, holder>>

Release(f) ==
  /\ call[f].pc = "holding"
  /\ holder' = [holder EXCEPT ![call[f].entry] = None]
  /\ call' = [call EXCEPT ![f] = [@ EXCEPT !.pc = "leaving"]]
  /\ UNCHANGED <<locks, users>>

\* Mutant: an entry leaves the Map with any of its users.
AlwaysDropped(k, e) == [locks EXCEPT ![k] = None]

\* The Map once a fiber stopped using entry e of key k.
AfterLeave(k, e) == IF users[e] = 1 THEN [locks EXCEPT ![k] = None] ELSE locks

\* The finalizer: stop counting the fiber, drop the entry with its last user.
Leave(f) ==
  /\ call[f].pc = "leaving"
  /\ users' = [users EXCEPT ![call[f].entry] = @ - 1]
  /\ locks' = AfterLeave(call[f].key, call[f].entry)
  /\ call' = [call EXCEPT ![f] = Outside]
  /\ UNCHANGED holder

LockStep(f) ==
  \/ \E k \in Keys : Enter(f, k)
  \/ Take(f)
  \/ GiveUp(f)
  \/ Release(f)
  \/ Leave(f)

LockNext == \E f \in Fibers : LockStep(f)

LockSpec == LockInit /\ [][LockNext]_lockVars

-----------------------------------------------------------------------------
(* The promise of the mutex: see Mutex.  The owner of a key's lock is whoever  *)
(* has the permit of the entry that the Map has for the key at the time.       *)

owners == [k \in Keys |-> IF locks[k] = None THEN None ELSE holder[locks[k]]]

wants == [f \in Fibers |-> IF call[f].pc = "waiting" THEN call[f].key ELSE None]

Promised == INSTANCE Mutex WITH owner <- owners, wanted <- wants

-----------------------------------------------------------------------------
(* The Map is exact: a fiber inside withLock uses the entry that the Map has   *)
(* for its key at this moment, whatever entries the key had before, the entry  *)
(* counts exactly the fibers that use it, and an entry without users is not in *)
(* the Map (keyed-mutex.ts:11, :17).  A user of an entry that is no longer     *)
(* there would share its key with the holder of the next one.                  *)
LocksExact ==
  /\ \A f \in Fibers : call[f].pc # "out" => locks[call[f].key] = call[f].entry
  /\ \A k \in Keys : locks[k] # None =>
       /\ \E f \in Fibers : call[f].pc # "out" /\ call[f].key = k
       /\ users[locks[k]] = Cardinality({f \in Fibers : call[f].entry = locks[k]})

(* Two fibers never hold the lock of one key (keyed-mutex.ts:14).              *)
Exclusion ==
  \A f, g \in Fibers :
    call[f].pc = "holding" /\ call[g].pc = "holding" /\ call[f].key = call[g].key => f = g
=============================================================================
