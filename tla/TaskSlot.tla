------------------------------ MODULE TaskSlot ------------------------------
(***************************************************************************)
(* What the prime-number pools promise: main hands the tasks LEFT..RIGHT   *)
(* to the threads through one slot, in order, each to exactly one thread;  *)
(* the slot is closed only after the last task has been taken.             *)
(***************************************************************************)
EXTENDS Integers

CONSTANTS Worker, LEFT, RIGHT

VARIABLES num,    \* 0: no task, -1: closed, otherwise the task in the slot
          next,   \* the task main hands out next
          takes   \* the <<thread, task>> pairs that have happened

slotVars == <<num, next, takes>>

Init == num = 0 /\ next = LEFT /\ takes = {}

Put == /\ num = 0 /\ next =< RIGHT
       /\ num' = next /\ next' = next + 1
       /\ UNCHANGED takes

Take(w) == /\ num > 0
           /\ takes' = takes \cup {<<w, num>>}
           /\ num' = 0
           /\ UNCHANGED next

Close == /\ num = 0 /\ next > RIGHT
         /\ num' = -1
         /\ UNCHANGED <<next, takes>>

Next == Put \/ Close \/ \E w \in Worker : Take(w)

Spec == Init /\ [][Next]_slotVars
=============================================================================
