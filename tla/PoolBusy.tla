------------------------------ MODULE PoolBusy ------------------------------
(***************************************************************************)
(* The pool of 008prime_pool_busy.c: the slot of 009prime_cond.c without a *)
(* condition variable.  main and the workers take mut_num, look, give it   *)
(* up, yield and try again; a look that finds nothing to do changes        *)
(* nothing and is no step.  main ends with the same double lock.           *)
(***************************************************************************)
EXTENDS Integers

CONSTANTS Worker, LEFT, RIGHT

VARIABLES num, mut_num, main, next, pc, task, takes  \* as in PrimePool

vars == <<num, mut_num, main, next, pc, task, takes>>
rest == <<mut_num, next, task, takes>>

Init == /\ num = 0 /\ mut_num = FALSE /\ main = "put" /\ next = LEFT
        /\ pc = [w \in Worker |-> "take"]
        /\ task = [w \in Worker |-> 0]
        /\ takes = {}

\* main's loop: num = i, once the slot is empty.
MainPut ==
  /\ main = "put" /\ next =< RIGHT /\ ~mut_num
  /\ num = 0
  /\ num' = next /\ next' = next + 1
  /\ main' = IF next = RIGHT THEN "last" ELSE "put"
  /\ UNCHANGED <<mut_num, pc, task, takes>>

\* After the loop: lock; if the last task is still there, lock again.
MainRelock ==
  /\ main = "last" /\ ~mut_num
  /\ num # 0
  /\ mut_num' = TRUE /\ main' = "stuck"
  /\ UNCHANGED <<num, next, pc, task, takes>>

\* Otherwise num = -1 and unlock.
MainClose ==
  /\ main = "last" /\ ~mut_num
  /\ num = 0
  /\ num' = -1
  /\ main' = "join"
  /\ UNCHANGED <<pc, rest>>

MainJoin ==
  /\ main = "join" /\ \A w \in Worker : pc[w] = "done"
  /\ main' = "exited"
  /\ UNCHANGED <<num, pc, rest>>

\* thr_primer: take a task and empty the slot ...
WorkerTake(w) ==
  /\ pc[w] = "take" /\ ~mut_num
  /\ num > 0
  /\ task' = [task EXCEPT ![w] = num]
  /\ takes' = takes \cup {<<w, num>>}
  /\ num' = 0
  /\ pc' = [pc EXCEPT ![w] = "test"]
  /\ UNCHANGED <<mut_num, main, next>>

\* ... or leave the loop when num is -1.
WorkerDone(w) ==
  /\ pc[w] = "take" /\ ~mut_num
  /\ num = -1
  /\ pc' = [pc EXCEPT ![w] = "done"]
  /\ UNCHANGED <<num, main, rest>>

WorkerTest(w) ==
  /\ pc[w] = "test"
  /\ pc' = [pc EXCEPT ![w] = "take"]
  /\ UNCHANGED <<num, main, rest>>

Ended == main = "exited" /\ UNCHANGED vars

MainStep == MainPut \/ MainRelock \/ MainClose \/ MainJoin
WorkerStep(w) == WorkerTake(w) \/ WorkerDone(w) \/ WorkerTest(w)

Next == MainStep \/ Ended \/ \E w \in Worker : WorkerStep(w)
=============================================================================
