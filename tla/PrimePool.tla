----------------------------- MODULE PrimePool -----------------------------
(***************************************************************************)
(* The pool of 009prime_cond.c: main puts LEFT..RIGHT one after the other  *)
(* into num under mut_num, THRNUM threads take them; one condition         *)
(* variable, cond_num, serves both directions.                             *)
(*                                                                         *)
(* A critical section is one step, except the end of main: it locks        *)
(* mut_num a second time while a task is still in the slot, and a default  *)
(* pthread mutex then blocks its owner for good.  So mut_num is a variable *)
(* that only that main holds between steps.                                *)
(***************************************************************************)
EXTENDS Integers, FiniteSets

CONSTANTS Worker, LEFT, RIGHT, Main

ASSUME RangeAssumption == /\ LEFT \in Nat \ {0} /\ RIGHT \in Nat /\ LEFT =< RIGHT
                          /\ Worker # {} /\ Main \notin Worker

VARIABLES num,     \* 0: no task, -1: exit, otherwise a task
          mut_num, \* TRUE while main holds the mutex between steps
          main,    \* put, wait, last, stuck, join or exited
          next,    \* the i of main's loop
          pc,      \* each thread: take, wait, test or done
          task,    \* the thread's own i
          takes    \* history: which thread took which task

vars == <<num, mut_num, main, next, pc, task, takes>>
rest == <<mut_num, next, task, takes>>

Init == /\ num = 0 /\ mut_num = FALSE /\ main = "put" /\ next = LEFT
        /\ pc = [w \in Worker |-> "take"]
        /\ task = [w \in Worker |-> 0]
        /\ takes = {}

Waiting == {w \in Worker : pc[w] = "wait"}
       \cup {m \in {Main} : main = "wait"}

\* The threads in S leave pthread_cond_wait and go for the mutex.
Wake(S, mainElse) ==
  /\ pc' = [w \in Worker |-> IF w \in S THEN "take" ELSE pc[w]]
  /\ main' = IF Main \in S THEN "put" ELSE mainElse

\* Mutant: the task is announced to nobody.
SignalForgotten(mainNow) == pc' = pc /\ main' = mainNow

\* pthread_cond_signal: one of the waiting threads, if there is one.
Signal(mainNow) ==
  \/ Waiting = {} /\ pc' = pc /\ main' = mainNow
  \/ \E x \in Waiting : Wake({x}, mainNow)

\* main's loop: wait while the slot is taken ...
MainWait ==
  /\ main = "put" /\ next =< RIGHT /\ ~mut_num
  /\ num # 0
  /\ main' = "wait"
  /\ UNCHANGED <<num, pc, rest>>

\* Mutant: main does not wait for the slot to be empty.
MainPutOver ==
  /\ main = "put" /\ next =< RIGHT /\ ~mut_num
  /\ num' = next /\ next' = next + 1
  /\ Signal(IF next = RIGHT THEN "last" ELSE "put")
  /\ UNCHANGED <<mut_num, task, takes>>

\* ... then fill it and wake one thread.
MainPut ==
  /\ main = "put" /\ next =< RIGHT /\ ~mut_num
  /\ num = 0
  /\ num' = next /\ next' = next + 1
  /\ Signal(IF next = RIGHT THEN "last" ELSE "put")
  /\ UNCHANGED <<mut_num, task, takes>>

\* After the loop: lock; if the last task is still there, lock again.
MainRelock ==
  /\ main = "last" /\ ~mut_num
  /\ num # 0
  /\ mut_num' = TRUE /\ main' = "stuck"
  /\ UNCHANGED <<num, next, pc, task, takes>>

\* Otherwise num = -1, broadcast, unlock.
MainClose ==
  /\ main = "last" /\ ~mut_num
  /\ num = 0
  /\ num' = -1
  /\ Wake(Waiting, "join")
  /\ UNCHANGED rest

\* pthread_join of every thread, then exit(0).
MainJoin ==
  /\ main = "join" /\ \A w \in Worker : pc[w] = "done"
  /\ main' = "exited"
  /\ UNCHANGED <<num, pc, rest>>

\* thr_primer: wait while there is no task ...
WorkerWait(w) ==
  /\ pc[w] = "take" /\ ~mut_num
  /\ num = 0
  /\ pc' = [pc EXCEPT ![w] = "wait"]
  /\ UNCHANGED <<num, main, rest>>

\* (POSIX lets either wait return without a signal)
SpuriousWakeup(x) ==
  /\ x \in Waiting
  /\ Wake({x}, main)
  /\ UNCHANGED <<num, rest>>

\* Mutant: num = 0 is missing.
WorkerTakeKeeps(w) ==
  /\ pc[w] = "take" /\ ~mut_num /\ num > 0
  /\ task' = [task EXCEPT ![w] = num]
  /\ takes' = takes \cup {<<w, num>>}
  /\ pc' = [pc EXCEPT ![w] = "test"]
  /\ UNCHANGED <<num, mut_num, next, main>>

\* Mutant: pthread_cond_signal, which may wake another thread and not main.
WorkerTakeSignals(w) ==
  /\ pc[w] = "take" /\ ~mut_num /\ num > 0
  /\ task' = [task EXCEPT ![w] = num]
  /\ takes' = takes \cup {<<w, num>>}
  /\ num' = 0
  /\ \E x \in Waiting \cup {w} :
       /\ pc' = [u \in Worker |-> IF u = w THEN "test" ELSE IF u = x THEN "take" ELSE pc[u]]
       /\ main' = IF x = Main THEN "put" ELSE main
  /\ UNCHANGED <<mut_num, next>>

\* ... take it, empty the slot, wake everybody ...
WorkerTake(w) ==
  /\ pc[w] = "take" /\ ~mut_num
  /\ num > 0
  /\ task' = [task EXCEPT ![w] = num]
  /\ takes' = takes \cup {<<w, num>>}
  /\ num' = 0
  /\ pc' = [u \in Worker |-> IF u = w THEN "test"
                             ELSE IF pc[u] = "wait" THEN "take" ELSE pc[u]]
  /\ main' = IF main = "wait" THEN "put" ELSE main
  /\ UNCHANGED <<mut_num, next>>

\* ... or leave the loop when num is -1.
WorkerDone(w) ==
  /\ pc[w] = "take" /\ ~mut_num
  /\ num = -1
  /\ pc' = [pc EXCEPT ![w] = "done"]
  /\ UNCHANGED <<num, main, rest>>

\* Outside the mutex: test the number and report it.
WorkerTest(w) ==
  /\ pc[w] = "test"
  /\ pc' = [pc EXCEPT ![w] = "take"]
  /\ UNCHANGED <<num, main, rest>>

Ended == main = "exited" /\ UNCHANGED vars

MainStep == MainWait \/ MainPut \/ MainRelock \/ MainClose \/ MainJoin
WorkerStep(w) == WorkerWait(w) \/ WorkerTake(w) \/ WorkerDone(w) \/ WorkerTest(w)

Next == \/ MainStep \/ Ended
        \/ \E w \in Worker : WorkerStep(w)
        \/ \E x \in Worker \cup {Main} : SpuriousWakeup(x)

Spec == Init /\ [][Next]_vars
FairSpec == Spec /\ WF_vars(MainStep) /\ \A w \in Worker : WF_vars(WorkerStep(w))
-----------------------------------------------------------------------------
TypeOK == /\ num \in {-1, 0} \cup (LEFT .. RIGHT)
          /\ mut_num \in BOOLEAN
          /\ main \in {"put", "wait", "last", "stuck", "join", "exited"}
          /\ next \in LEFT .. RIGHT + 1
          /\ pc \in [Worker -> {"take", "wait", "test", "done"}]
          /\ task \in [Worker -> {0} \cup (LEFT .. RIGHT)]
          /\ takes \subseteq Worker \X (LEFT .. RIGHT)

\* Every task main handed out is in the slot or was taken, by one thread only.
ExactlyOnce ==
  /\ \A i \in LEFT .. next - 1 : num = i \/ \E w \in Worker : <<w, i>> \in takes
  /\ \A p, q \in takes : p[2] = q[2] => p[1] = q[1]
  /\ \A p \in takes : p[2] # num

\* The one condition variable for both directions never sends the wake-up of
\* a task to nobody: while there is a task, a thread is awake to take it.
TaskHasTaker == num > 0 => \E w \in Worker : pc[w] \in {"take", "test"}

\* Nor does main sleep through the slot becoming empty.
EmptySlotWakesMain == main = "wait" => num # 0

\* The parts that make these inductive: the task in the slot is the latest
\* one, nobody leaves before the slot is closed, and main's place tells how
\* far its loop has come.
SlotIsLatest == /\ num > 0 => num = next - 1
                /\ \A p \in takes : p[2] < next
DoneAtClose == \A w \in Worker : pc[w] = "done" => num = -1
MainPlace == /\ num = -1 => main \in {"join", "exited"}
             /\ main \in {"put", "wait"} <=> next =< RIGHT

IInv == /\ TypeOK /\ ExactlyOnce /\ TaskHasTaker /\ EmptySlotWakesMain
        /\ SlotIsLatest /\ DoneAtClose /\ MainPlace

\* Every task but the last is eventually taken by some thread.
TasksTaken == \A i \in LEFT .. RIGHT - 1 :
                num = i ~> \E w \in Worker : <<w, i>> \in takes

\* The pool implements TaskSlot.
Slot == INSTANCE TaskSlot
KeepsPromise == Slot!Spec

\* "the last task must be consumed" (009prime_cond.c:57): then main goes on to
\* join the threads and the program ends.
LastTaskConsumed == <>(main = "exited")
=============================================================================
