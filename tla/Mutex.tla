--------------------------------- MODULE Mutex ---------------------------------
(***************************************************************************)
(* What a mutex with one lock per key promises: a lock has one owner, who  *)
(* keeps it until it lets go, and a fiber gets the lock that it asked for  *)
(* when nobody owns it, or stops asking.                                   *)
(***************************************************************************)
CONSTANTS Fibers, Keys, None

VARIABLES owner,   \* key -> the fiber that owns its lock
          wanted   \* fiber -> the key it waits for

vars == <<owner, wanted>>

Init == /\ owner = [k \in Keys |-> None]
        /\ wanted = [f \in Fibers |-> None]

Ask(f) == /\ wanted[f] = None
          /\ \A k \in Keys : owner[k] # f
          /\ \E k \in Keys : wanted' = [wanted EXCEPT ![f] = k]
          /\ UNCHANGED owner

Acquire(f) == \E k \in Keys :
  /\ wanted[f] = k
  /\ owner[k] = None
  /\ owner' = [owner EXCEPT ![k] = f]
  /\ wanted' = [wanted EXCEPT ![f] = None]

Withdraw(f) == /\ wanted[f] # None
               /\ wanted' = [wanted EXCEPT ![f] = None]
               /\ UNCHANGED owner

Release(f) == /\ \E k \in Keys : owner[k] = f /\ owner' = [owner EXCEPT ![k] = None]
              /\ UNCHANGED wanted

Next == \E f \in Fibers : Ask(f) \/ Acquire(f) \/ Withdraw(f) \/ Release(f)

Spec == Init /\ [][Next]_vars

=============================================================================
