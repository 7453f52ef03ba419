----------------------------- MODULE PrintCond -----------------------------
(***************************************************************************)
(* 010printabcd_cond.c: THRNUM threads print their letter ROUNDS times     *)
(* each, in turn, with one mutex, one condition variable and the number of *)
(* the thread whose turn it is.  A critical section is one step.           *)
(***************************************************************************)
EXTENDS Integers, Sequences

CONSTANTS THRNUM, \* threads, numbered from 0
          ROUNDS  \* the m of thr_fun

ASSUME CountAssumption == THRNUM \in Nat \ {0} /\ ROUNDS \in Nat

Thread == 0 .. THRNUM - 1

VARIABLES num,   \* whose turn it is
          pc,    \* lock, wait (pthread_cond_wait) or done, per thread
          left,  \* rounds the thread still has to print
          out    \* what was written, as thread numbers

vars == <<num, pc, left, out>>

\* Mutant: no wrap to 0.
NextStuck(n) == IF n + 1 = THRNUM THEN n ELSE n + 1

NextThread(n) == IF n + 1 = THRNUM THEN 0 ELSE n + 1

Init == /\ num = 0
        /\ pc = [t \in Thread |-> IF ROUNDS = 0 THEN "done" ELSE "lock"]
        /\ left = [t \in Thread |-> ROUNDS]
        /\ out = <<>>

\* while (num != n) pthread_cond_wait(&cond, &mut);
Wait(t) ==
  /\ pc[t] = "lock" /\ num # t
  /\ pc' = [pc EXCEPT ![t] = "wait"]
  /\ UNCHANGED <<num, left, out>>

\* (POSIX lets the wait return without a signal)
SpuriousWakeup(t) ==
  /\ pc[t] = "wait"
  /\ pc' = [pc EXCEPT ![t] = "lock"]
  /\ UNCHANGED <<num, left, out>>

\* Mutant: pthread_cond_signal, which may wake a thread whose turn it is not.
WriteSignal(t) ==
  /\ pc[t] = "lock" /\ num = t
  /\ out' = Append(out, t) /\ num' = NextThread(num)
  /\ left' = [left EXCEPT ![t] = @ - 1]
  /\ LET mine == [pc EXCEPT ![t] = IF left[t] = 1 THEN "done" ELSE "lock"] IN
       \/ (\A u \in Thread : pc[u] # "wait") /\ pc' = mine
       \/ \E u \in Thread : pc[u] = "wait" /\ pc' = [mine EXCEPT ![u] = "lock"]

\* The turn: write, pass it on, broadcast, unlock; leave after ROUNDS turns.
Write(t) ==
  /\ pc[t] = "lock" /\ num = t
  /\ out' = Append(out, t)
  /\ num' = NextThread(num)
  /\ left' = [left EXCEPT ![t] = @ - 1]
  /\ pc' = [u \in Thread |-> IF u = t THEN (IF left[t] = 1 THEN "done" ELSE "lock")
                             ELSE IF pc[u] = "wait" THEN "lock" ELSE pc[u]]

AllDone == \A t \in Thread : pc[t] = "done"
Joined == AllDone /\ UNCHANGED vars

Next == Joined \/ \E t \in Thread : Wait(t) \/ SpuriousWakeup(t) \/ Write(t)

Spec == Init /\ [][Next]_vars
FairSpec == Spec /\ \A t \in Thread : WF_vars(Wait(t) \/ Write(t))
-----------------------------------------------------------------------------
TypeOK == /\ num \in Thread
          /\ pc \in [Thread -> {"lock", "wait", "done"}]
          /\ left \in [Thread -> 0 .. ROUNDS]
          /\ out \in Seq(Thread) /\ Len(out) =< THRNUM * ROUNDS

\* Nobody sleeps through its own turn, and nobody whose turn it is has left
\* while another thread still has letters to print.
TurnAwake == /\ \A t \in Thread : pc[t] = "wait" => num # t
             /\ (\E t \in Thread : left[t] > 0) => left[num] > 0

\* The parts of the inductive invariant behind it: the threads before num have
\* printed in one round more than the others, and a thread leaves after its last.
RoundsAgree == \E r \in 0 .. ROUNDS :
                 /\ Len(out) = THRNUM * r + num
                 /\ num > 0 => r < ROUNDS
                 /\ \A t \in Thread : left[t] = IF t < num THEN ROUNDS - r - 1 ELSE ROUNDS - r
LeftIsDone == \A t \in Thread : pc[t] = "done" <=> left[t] = 0
NotAsleep == \A t \in Thread : pc[t] = "wait" => num # t

IInv == TypeOK /\ RoundsAgree /\ LeftIsDone /\ NotAsleep

\* The output is abcdabcd..., as 010printabcd_cond.c:94 shows it.
RR == INSTANCE RoundRobin WITH Limit <- THRNUM * ROUNDS
InTurn == RR!Spec

\* main's joins return: every thread prints all its letters.
AllPrinted == <>(AllDone /\ Len(out) = THRNUM * ROUNDS)
=============================================================================
