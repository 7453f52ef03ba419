----------------------------- MODULE Semaphore -----------------------------
(***************************************************************************)
(* A counting semaphore: what mysem.h promises.  Units are taken n at a    *)
(* time, only when n are there, and given back n at a time.                *)
(***************************************************************************)
EXTENDS Integers

CONSTANTS InitVal,  \* units mysem_init is given
          MaxUnits  \* bound on the units of one call

VARIABLE value      \* units that are free

Init == value = InitVal

Take(n) == value >= n /\ value' = value - n

GiveBack(n) == value + n =< InitVal /\ value' = value + n

Next == \E n \in 1 .. MaxUnits : Take(n) \/ GiveBack(n)

Spec == Init /\ [][Next]_value
=============================================================================
