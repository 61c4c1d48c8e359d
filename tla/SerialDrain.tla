------------------------------ MODULE SerialDrain ------------------------------
(***************************************************************************)
(* What a client of the run coordinator may rely on, per key: a drain is   *)
(* running or not, and a further drain is owed or not.  A drain starts     *)
(* only when none runs, and what is owed is paid unless an interrupt       *)
(* cancels it.  Paying may leave a redundant drain owed: a wake that       *)
(* reaches the coordinator just before the owed drain begins asks again.   *)
(***************************************************************************)
CONSTANT Keys

VARIABLES busy,   \* key -> a drain is inside drain(key, force)
          owed    \* key -> a drain must still begin

vars == <<busy, owed>>

TypeOK == busy \in [Keys -> BOOLEAN] /\ owed \in [Keys -> BOOLEAN]

Init == /\ busy = [k \in Keys |-> FALSE]
        /\ owed = [k \in Keys |-> FALSE]

\* A wake while the key is not idle.
Request(k) == /\ owed' = [owed EXCEPT ![k] = TRUE]
              /\ UNCHANGED busy

\* A resume or a wake of an idle key, or the payment of what is owed.
Start(k) == /\ ~busy[k]
            /\ busy' = [busy EXCEPT ![k] = TRUE]
            /\ UNCHANGED owed \/ owed' = [owed EXCEPT ![k] = FALSE]

Finish(k) == /\ busy[k]
             /\ busy' = [busy EXCEPT ![k] = FALSE]
             /\ UNCHANGED owed

Cancel(k) == /\ owed' = [owed EXCEPT ![k] = FALSE]
             /\ UNCHANGED busy

Next == \E k \in Keys : Request(k) \/ Start(k) \/ Finish(k) \/ Cancel(k)

\* A drain may run for ever; once none runs, what is owed begins.
Fairness == \A k \in Keys : WF_vars(owed[k] /\ Start(k))

SafeSpec == Init /\ [][Next]_vars

Spec == SafeSpec /\ Fairness

=============================================================================
