------------------------------- MODULE MySem -------------------------------
(***************************************************************************)
(* The counting semaphore of mysemaphore/mysem.c: a value under a mutex    *)
(* and a condition variable.  Each critical section is one step, for the   *)
(* only blocking call inside is pthread_cond_wait, which gives the mutex   *)
(* up.  The callers give back only what was taken, not necessarily in the  *)
(* thread that took it (main takes, the workers give back).                *)
(***************************************************************************)
EXTENDS Integers

CONSTANTS Thread,   \* threads that use the semaphore
          InitVal,  \* mysem_init(initval)
          MaxUnits  \* bound on the n of a call

ASSUME UnitsAssumption == InitVal \in Nat /\ MaxUnits \in Nat

VARIABLES value,  \* me->value
          pc,     \* idle, sub (about to lock in mysem_sub) or wait (on me->cond)
          need    \* the n of the thread's mysem_sub

vars == <<value, pc, need>>

Init == /\ value = InitVal
        /\ pc = [t \in Thread |-> "idle"]
        /\ need = [t \in Thread |-> 0]

\* Mutant: pthread_cond_signal where several threads may be satisfied.
SignalOne ==
  \/ \E t \in Thread : pc[t] = "wait" /\ pc' = [pc EXCEPT ![t] = "sub"]
  \/ (\A t \in Thread : pc[t] # "wait") /\ pc' = pc

\* pthread_cond_broadcast(&me->cond).
Broadcast == pc' = [t \in Thread |-> IF pc[t] = "wait" THEN "sub" ELSE pc[t]]

\* mysem_add(n) of units that are out.
Add(t, n) ==
  /\ pc[t] = "idle"
  /\ n > 0 /\ value + n =< InitVal
  /\ value' = value + n
  /\ Broadcast
  /\ UNCHANGED need

\* mysem_sub(n): the call ...
SubCall(t, n) ==
  /\ pc[t] = "idle"
  /\ pc' = [pc EXCEPT ![t] = "sub"]
  /\ need' = [need EXCEPT ![t] = n]
  /\ UNCHANGED value

\* ... that waits for value >= n ...
SubSleep(t) ==
  /\ pc[t] = "sub" /\ value < need[t]
  /\ pc' = [pc EXCEPT ![t] = "wait"]
  /\ UNCHANGED <<value, need>>

\* (POSIX lets the wait return without a signal)
SpuriousWakeup(t) ==
  /\ pc[t] = "wait"
  /\ pc' = [pc EXCEPT ![t] = "sub"]
  /\ UNCHANGED <<value, need>>

\* Mutant: if (value < n) wait, instead of while: a woken thread just takes.
SubTakeUnchecked(t) ==
  /\ pc[t] = "sub"
  /\ value' = value - need[t]
  /\ pc' = [pc EXCEPT ![t] = "idle"]
  /\ UNCHANGED need

\* ... and takes.
SubTake(t) ==
  /\ pc[t] = "sub" /\ value >= need[t]
  /\ value' = value - need[t]
  /\ pc' = [pc EXCEPT ![t] = "idle"]
  /\ UNCHANGED need

Next == \E t \in Thread :
          \/ SubSleep(t) \/ SpuriousWakeup(t) \/ SubTake(t)
          \/ \E n \in 1 .. MaxUnits : Add(t, n) \/ SubCall(t, n)

Spec == Init /\ [][Next]_vars
-----------------------------------------------------------------------------
TypeOK == /\ value \in 0 .. InitVal
          /\ pc \in [Thread -> {"idle", "sub", "wait"}]
          /\ need \in [Thread -> 0 .. MaxUnits]

\* No lost wakeup: a thread sleeps in mysem_sub only while its own request
\* cannot be met, whatever mix of requests the broadcasts have woken.
SleepersUnmet == \A t \in Thread : pc[t] = "wait" => value < need[t]

\* mysem implements Semaphore: units are never taken that are not there.
Sem == INSTANCE Semaphore
KeepsPromise == Sem!Spec
=============================================================================
