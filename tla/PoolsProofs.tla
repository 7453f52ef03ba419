---------------------------- MODULE PoolsProofs ----------------------------
(***************************************************************************)
(* Proofs about the prime-number programs, for any number of threads or    *)
(* processes and any numbers: the pool with a condition variable           *)
(* (PrimePool), the one that waits busily (PoolBusy), those without a pool *)
(* (Primers).                                                              *)
(***************************************************************************)
EXTENDS MCPools, FiniteSetTheorems, SequenceTheorems, WellFoundedInduction, TLAPS

\* The slot is empty and nobody has looked at it.
LEMMA InitIInv == Init => IInv
<1> SUFFICES ASSUME Init PROVE IInv
  OBVIOUS
<1>1. TypeOK
  <2>1. num = 0 /\ next \in LEFT .. RIGHT + 1
    BY RangeAssumption DEF Init
  <2>2. /\ mut_num \in BOOLEAN /\ main = "put" /\ takes = {}
        /\ pc \in [Worker -> {"take", "wait", "test", "done"}]
        /\ task \in [Worker -> {0} \cup (LEFT .. RIGHT)]
    BY DEF Init
  <2> QED
    BY <2>1, <2>2 DEF TypeOK
<1>2. ExactlyOnce /\ SlotIsLatest
  BY RangeAssumption DEF Init, ExactlyOnce, SlotIsLatest
<1>3. TaskHasTaker /\ EmptySlotWakesMain /\ DoneAtClose
  BY DEF Init, TaskHasTaker, EmptySlotWakesMain, DoneAtClose
<1>4. MainPlace
  BY RangeAssumption DEF Init, MainPlace
<1> QED
  BY <1>1, <1>2, <1>3, <1>4 DEF IInv

\* A task that was taken is one of main's.
LEMMA TakesTyped ==
  ASSUME IInv, NEW p \in takes
  PROVE  p[2] \in LEFT .. RIGHT
  BY DEF IInv, TypeOK

\* What a signal for a task does: a thread is awake for it, for one that
\* waits is woken, and if none waits, none has left.
LEMMA SignalFindsTaker ==
  ASSUME IInv, main = "put", num = 0, NEW mainNow \in {"put", "last"}, Signal(mainNow)
  PROVE  /\ pc' \in [Worker -> {"take", "wait", "test", "done"}]
         /\ main' = mainNow
         /\ \E w \in Worker : pc'[w] \in {"take", "test"}
         /\ \A w \in Worker : pc'[w] # "done"
<1>1. /\ pc \in [Worker -> {"take", "wait", "test", "done"}]
      /\ \A w \in Worker : pc[w] # "done"
      /\ Waiting \subseteq Worker
  BY DEF IInv, TypeOK, DoneAtClose, Waiting
<1>2. CASE Waiting = {} /\ pc' = pc /\ main' = mainNow
  <2>1. PICK w \in Worker : TRUE
    BY RangeAssumption
  <2>2. pc[w] \in {"take", "test"}
    BY <1>1, <1>2 DEF Waiting
  <2> QED
    BY <1>1, <1>2, <2>2
<1>3. ASSUME NEW x \in Waiting, Wake({x}, mainNow)
      PROVE  /\ pc' \in [Worker -> {"take", "wait", "test", "done"}]
             /\ main' = mainNow
             /\ \E w \in Worker : pc'[w] \in {"take", "test"}
             /\ \A w \in Worker : pc'[w] # "done"
  <2>1. x \in Worker /\ x # Main
    BY <1>1, RangeAssumption
  <2> QED
    BY <1>1, <1>3, <2>1 DEF Wake
<1> QED
  BY <1>2, <1>3 DEF Signal

\* main puts a task into the empty slot and signals: the invariant holds.
LEMMA PutIInv ==
  ASSUME IInv, MainPut
  PROVE  IInv'
<1> DEFINE mainNow == IF next = RIGHT THEN "last" ELSE "put"
<1>1. Signal(mainNow) /\ mainNow \in {"put", "last"} /\ main = "put" /\ num = 0
  BY DEF MainPut
<1>2. /\ pc' \in [Worker -> {"take", "wait", "test", "done"}]
      /\ main' = mainNow
      /\ \E w \in Worker : pc'[w] \in {"take", "test"}
      /\ \A w \in Worker : pc'[w] # "done"
  <2> HIDE DEF mainNow
  <2> QED BY <1>1, SignalFindsTaker
<1>3. /\ next \in LEFT .. RIGHT /\ next' = next + 1 /\ num' = next
      /\ takes' = takes /\ task' = task /\ mut_num' = mut_num
  BY DEF MainPut, IInv, TypeOK
<1>4. TypeOK'
  BY <1>2, <1>3, RangeAssumption DEF IInv, TypeOK
<1>5. ExactlyOnce'
  <2>1. ASSUME NEW i \in LEFT .. next' - 1
        PROVE  num' = i \/ \E w \in Worker : <<w, i>> \in takes'
    <3>1. CASE i = next
      BY <3>1, <1>3
    <3>2. CASE i # next
      <4>1. i \in LEFT .. next - 1 /\ i # num
        BY <3>2, <1>1, <1>3, RangeAssumption
      <4> QED
        BY <4>1, <1>3 DEF IInv, ExactlyOnce
    <3> QED
      BY <3>1, <3>2
  <2>2. \A p, q \in takes' : p[2] = q[2] => p[1] = q[1]
    BY <1>3 DEF IInv, ExactlyOnce
  <2>3. ASSUME NEW p \in takes' PROVE p[2] # num'
    <3>1. p[2] \in LEFT .. RIGHT /\ p[2] < next
      BY <1>3, TakesTyped DEF IInv, SlotIsLatest
    <3> QED
      BY <3>1, <1>3, RangeAssumption
  <2> QED
    BY <2>1, <2>2, <2>3 DEF ExactlyOnce
<1>6. TaskHasTaker' /\ EmptySlotWakesMain' /\ DoneAtClose'
  BY <1>2, <1>3, RangeAssumption DEF TaskHasTaker, EmptySlotWakesMain, DoneAtClose
<1>7. SlotIsLatest'
  <2>1. ASSUME NEW p \in takes' PROVE p[2] < next'
    <3>1. p[2] \in LEFT .. RIGHT /\ p[2] < next
      BY <1>3, TakesTyped DEF IInv, SlotIsLatest
    <3> QED
      BY <3>1, <1>3, RangeAssumption
  <2> QED
    BY <2>1, <1>3, RangeAssumption DEF SlotIsLatest
<1>8. MainPlace'
  BY <1>2, <1>3, RangeAssumption DEF MainPlace
<1> QED
  BY <1>4, <1>5, <1>6, <1>7, <1>8 DEF IInv

\* A worker takes the task and signals: the invariant holds.
LEMMA TakeIInv ==
  ASSUME IInv, NEW w \in Worker, WorkerTake(w)
  PROVE  IInv'
<1>1. /\ num \in LEFT .. RIGHT /\ num' = 0 /\ next' = next
      /\ takes' = takes \cup {<<w, num>>} /\ mut_num' = mut_num
      /\ task' = [task EXCEPT ![w] = num]
  BY RangeAssumption DEF WorkerTake, IInv, TypeOK
<1>2. /\ pc' \in [Worker -> {"take", "wait", "test", "done"}]
      /\ \A u \in Worker : pc'[u] = "done" => pc[u] = "done"
      /\ main' = IF main = "wait" THEN "put" ELSE main
  BY DEF WorkerTake, IInv, TypeOK
<1>3. TypeOK'
  <2>1. takes' \subseteq Worker \X (LEFT .. RIGHT)
    BY <1>1 DEF IInv, TypeOK
  <2>2. task' \in [Worker -> {0} \cup (LEFT .. RIGHT)]
    BY <1>1 DEF IInv, TypeOK
  <2> QED
    BY <1>1, <1>2, <2>1, <2>2 DEF IInv, TypeOK
<1>4. ExactlyOnce'
  <2>1. \A i \in LEFT .. next' - 1 : num' = i \/ \E u \in Worker : <<u, i>> \in takes'
    BY <1>1 DEF IInv, ExactlyOnce
  <2>2. \A p, q \in takes' : p[2] = q[2] => p[1] = q[1]
    BY <1>1 DEF IInv, ExactlyOnce
  <2>3. \A p \in takes' : p[2] # num'
    <3>1. \A p \in takes' : p[2] \in LEFT .. RIGHT
      BY <1>1, TakesTyped
    <3> QED
      BY <3>1, <1>1, RangeAssumption
  <2> QED
    BY <2>1, <2>2, <2>3 DEF ExactlyOnce
<1>5. DoneAtClose'
  BY <1>1, <1>2, RangeAssumption DEF IInv, DoneAtClose
<1>6. SlotIsLatest'
  <2>1. num < next
    BY <1>1, RangeAssumption DEF IInv, TypeOK, SlotIsLatest
  <2> QED
    BY <1>1, <2>1 DEF IInv, SlotIsLatest
<1>7. TaskHasTaker' /\ EmptySlotWakesMain' /\ MainPlace'
  BY <1>1, <1>2, RangeAssumption DEF IInv, TypeOK, TaskHasTaker, EmptySlotWakesMain, MainPlace
<1> QED
  BY <1>3, <1>4, <1>5, <1>6, <1>7 DEF IInv

\* The steps that neither hand out nor take a task.
LEMMA OtherIInv ==
  ASSUME IInv,
         \/ MainWait \/ MainRelock \/ MainClose \/ MainJoin
         \/ \E w \in Worker : WorkerWait(w) \/ WorkerDone(w) \/ WorkerTest(w)
         \/ \E x \in Worker \cup {Main} : SpuriousWakeup(x)
         \/ UNCHANGED vars
  PROVE  IInv'
<1>1. CASE MainWait \/ MainRelock \/ MainJoin
  BY <1>1, RangeAssumption DEF MainWait, MainRelock, MainJoin, rest, IInv, TypeOK, ExactlyOnce,
     TaskHasTaker, EmptySlotWakesMain, SlotIsLatest, DoneAtClose, MainPlace
<1>2. CASE MainClose
  <2>1. /\ num = 0 /\ num' = -1 /\ main' = "join" /\ main = "last"
        /\ pc' \in [Worker -> {"take", "wait", "test", "done"}]
        /\ UNCHANGED rest
    BY <1>2, RangeAssumption DEF MainClose, Wake, Waiting, IInv, TypeOK
  <2>2. TypeOK' /\ SlotIsLatest' /\ TaskHasTaker' /\ EmptySlotWakesMain' /\ DoneAtClose' /\ MainPlace'
    BY <2>1, RangeAssumption DEF rest, IInv, TypeOK, SlotIsLatest, TaskHasTaker,
       EmptySlotWakesMain, DoneAtClose, MainPlace
  <2>3. ExactlyOnce'
    <3>1. next' = next /\ takes' = takes
      BY <2>1 DEF rest
    <3>2. \A p \in takes : p[2] \in LEFT .. RIGHT
      BY TakesTyped
    <3>3. \A p \in takes : p[2] # -1
      BY <3>2, RangeAssumption
    <3>4. \A i \in LEFT .. next - 1 : i # 0
      BY RangeAssumption DEF IInv, TypeOK
    <3> QED
      BY <2>1, <3>1, <3>3, <3>4 DEF IInv, ExactlyOnce
  <2> QED
    BY <2>2, <2>3 DEF IInv
<1>3. ASSUME NEW w \in Worker, WorkerWait(w) \/ WorkerDone(w) \/ WorkerTest(w) PROVE IInv'
  <2>1. /\ num' = num /\ main' = main /\ UNCHANGED rest
        /\ pc' \in [Worker -> {"take", "wait", "test", "done"}]
    BY <1>3 DEF WorkerWait, WorkerDone, WorkerTest, IInv, TypeOK
  <2>2. TypeOK' /\ ExactlyOnce' /\ SlotIsLatest' /\ MainPlace' /\ EmptySlotWakesMain'
    BY <2>1 DEF rest, IInv, TypeOK, ExactlyOnce, SlotIsLatest, MainPlace, EmptySlotWakesMain
  <2>3. TaskHasTaker'
    BY <1>3, <2>1 DEF WorkerWait, WorkerDone, WorkerTest, IInv, TypeOK, TaskHasTaker
  <2>4. DoneAtClose'
    BY <1>3, <2>1 DEF WorkerWait, WorkerDone, WorkerTest, IInv, TypeOK, DoneAtClose
  <2> QED
    BY <2>2, <2>3, <2>4 DEF IInv
<1>4. ASSUME NEW x \in Worker \cup {Main}, SpuriousWakeup(x) PROVE IInv'
  <2>1. /\ num' = num /\ UNCHANGED rest
        /\ pc' \in [Worker -> {"take", "wait", "test", "done"}]
        /\ \A u \in Worker : pc'[u] = pc[u] \/ pc'[u] = "take"
        /\ \A u \in Worker : pc'[u] = "done" => pc[u] = "done"
        /\ main' = main \/ (main = "wait" /\ main' = "put")
    <3>1. /\ x \in Waiting /\ num' = num /\ UNCHANGED rest
          /\ pc' = [w \in Worker |-> IF w \in {x} THEN "take" ELSE pc[w]]
          /\ main' = IF Main \in {x} THEN "put" ELSE main
      BY <1>4 DEF SpuriousWakeup, Wake
    <3>2. /\ pc' \in [Worker -> {"take", "wait", "test", "done"}]
          /\ \A u \in Worker : pc'[u] = pc[u] \/ pc'[u] = "take"
      BY <3>1 DEF IInv, TypeOK
    <3>3. main' = main \/ (main = "wait" /\ main' = "put")
      BY <3>1, RangeAssumption DEF Waiting
    <3>4. \A u \in Worker : pc'[u] = "done" => pc[u] = "done"
      BY <3>2
    <3> QED
      BY <3>1, <3>2, <3>3, <3>4
  <2>2. TypeOK' /\ ExactlyOnce' /\ SlotIsLatest' /\ MainPlace' /\ EmptySlotWakesMain'
    BY <2>1 DEF rest, IInv, TypeOK, ExactlyOnce, SlotIsLatest, MainPlace, EmptySlotWakesMain
  <2>3. TaskHasTaker' /\ DoneAtClose'
    BY <2>1 DEF IInv, TaskHasTaker, DoneAtClose
  <2> QED
    BY <2>2, <2>3 DEF IInv
<1>5. CASE UNCHANGED vars
  BY <1>5 DEF vars, IInv, TypeOK, ExactlyOnce, TaskHasTaker, EmptySlotWakesMain,
     SlotIsLatest, DoneAtClose, MainPlace
<1> QED
  BY <1>1, <1>2, <1>3, <1>4, <1>5

\* The inductive invariant of the pool.
THEOREM Invariance == Spec => []IInv
<1>1. IInv /\ [Next]_vars => IInv'
  BY PutIInv, TakeIInv, OtherIInv DEF Next, MainStep, WorkerStep, Ended
<1> QED
  BY InitIInv, <1>1, PTL DEF Spec

\* Each task goes to exactly one thread.
THEOREM OneThreadPerTask == Spec => []ExactlyOnce
<1>1. IInv => ExactlyOnce
  BY DEF IInv
<1> QED
  BY Invariance, <1>1, PTL

\* With one condition variable for both directions, no wake-up goes astray:
\* a task finds a thread awake and main does not sleep at an empty slot.
THEOREM NoWakeupLost == Spec => [](TaskHasTaker /\ EmptySlotWakesMain)
<1>1. IInv => TaskHasTaker /\ EmptySlotWakesMain
  BY DEF IInv
<1> QED
  BY Invariance, <1>1, PTL

\* main does not sleep through the slot becoming empty.
THEOREM MainWoken == Spec => []EmptySlotWakesMain
<1>1. IInv => EmptySlotWakesMain
  BY DEF IInv
<1> QED
  BY Invariance, <1>1, PTL

\* The pool implements the slot: each step is a step of TaskSlot or a stutter.
THEOREM Refinement == Spec => KeepsPromise
<1>1. Init => Slot!Init
  BY DEF Init, Slot!Init
<1>2. IInv /\ [Next]_vars => [Slot!Next]_Slot!slotVars
  <2> SUFFICES ASSUME IInv, [Next]_vars PROVE [Slot!Next]_Slot!slotVars
    OBVIOUS
  <2>1. CASE MainPut
    BY <2>1 DEF MainPut, Slot!Next, Slot!Put
  <2>2. CASE MainClose
    BY <2>2, RangeAssumption DEF MainClose, rest, IInv, TypeOK, MainPlace, Slot!Next, Slot!Close
  <2>3. ASSUME NEW w \in Worker, WorkerTake(w) PROVE [Slot!Next]_Slot!slotVars
    BY <2>3 DEF WorkerTake, Slot!Next, Slot!Take
  <2>4. CASE \/ MainWait \/ MainRelock \/ MainJoin \/ UNCHANGED vars
             \/ \E w \in Worker : WorkerWait(w) \/ WorkerDone(w) \/ WorkerTest(w)
             \/ \E x \in Worker \cup {Main} : SpuriousWakeup(x)
    BY <2>4 DEF MainWait, MainRelock, MainJoin, vars, rest, WorkerWait, WorkerDone,
       WorkerTest, SpuriousWakeup, Slot!slotVars
  <2> QED
    BY <2>1, <2>2, <2>3, <2>4 DEF Next, MainStep, WorkerStep, Ended
<1> QED
  BY <1>1, <1>2, Invariance, PTL DEF Spec, KeepsPromise, Slot!Spec

-----------------------------------------------------------------------------
(* Waiting busily is a pool in which nobody sleeps. *)

NobodySleeps == Waiting = {}

\* 008prime_pool_busy.c starts with nobody asleep.
LEMMA BusyInit == Init => NobodySleeps
  BY DEF Init, NobodySleeps, Waiting

\* A step of the busy-waiting pool is one of the pool with the condition
\* variable in which nobody sleeps.
LEMMA BusyStep ==
  ASSUME IInv, NobodySleeps, Busy!Next
  PROVE  [Next]_vars /\ NobodySleeps'
<1> USE DEF Busy!rest, rest
<1>1. /\ pc \in [Worker -> {"take", "wait", "test", "done"}]
      /\ \A w \in Worker : pc[w] # "wait"
      /\ main # "wait"
  BY DEF IInv, TypeOK, NobodySleeps, Waiting
<1>2. ASSUME \A w \in Worker : pc'[w] # "wait", main' # "wait" PROVE NobodySleeps'
  BY <1>2 DEF NobodySleeps, Waiting
<1>3. CASE Busy!MainPut
  <2>1. MainPut
    BY <1>3 DEF Busy!MainPut, MainPut, Signal, NobodySleeps
  <2>2. \A w \in Worker : pc'[w] # "wait"
    BY <1>1, <1>3 DEF Busy!MainPut
  <2>3. main' # "wait"
    BY <1>3 DEF Busy!MainPut
  <2> QED
    BY <1>2, <2>1, <2>2, <2>3 DEF Next, MainStep
<1>4. CASE Busy!MainRelock
  <2>1. MainRelock
    BY <1>4 DEF Busy!MainRelock, MainRelock
  <2> QED
    BY <1>1, <1>2, <1>4, <2>1 DEF Busy!MainRelock, Next, MainStep
<1>5. CASE Busy!MainClose
  <2>1. pc = [w \in Worker |-> IF w \in {} THEN "take" ELSE pc[w]]
    BY <1>1
  <2>2. Wake({}, "join")
    BY <1>5, <2>1 DEF Busy!MainClose, Wake
  <2>3. MainClose
    BY <1>5, <2>2 DEF Busy!MainClose, MainClose, NobodySleeps
  <2> QED
    BY <1>1, <1>2, <1>5, <2>3 DEF Busy!MainClose, Next, MainStep
<1>6. CASE Busy!MainJoin
  <2>1. MainJoin
    BY <1>6 DEF Busy!MainJoin, MainJoin
  <2> QED
    BY <1>1, <1>2, <1>6, <2>1 DEF Busy!MainJoin, Next, MainStep
<1>7. ASSUME NEW w \in Worker, Busy!WorkerTake(w) PROVE [Next]_vars /\ NobodySleeps'
  <2>1. [pc EXCEPT ![w] = "test"]
          = [u \in Worker |-> IF u = w THEN "test" ELSE IF pc[u] = "wait" THEN "take" ELSE pc[u]]
    BY <1>1
  <2>2. WorkerTake(w)
    BY <1>1, <1>7, <2>1 DEF Busy!WorkerTake, WorkerTake
  <2> QED
    BY <1>1, <1>2, <1>7, <2>2 DEF Busy!WorkerTake, Next, WorkerStep
<1>8. ASSUME NEW w \in Worker, Busy!WorkerDone(w) \/ Busy!WorkerTest(w)
      PROVE  [Next]_vars /\ NobodySleeps'
  <2>1. WorkerDone(w) \/ WorkerTest(w)
    BY <1>8 DEF Busy!WorkerDone, Busy!WorkerTest, WorkerDone, WorkerTest
  <2> QED
    BY <1>1, <1>2, <1>8, <2>1 DEF Busy!WorkerDone, Busy!WorkerTest, Next, WorkerStep
<1>9. CASE Busy!Ended
  BY <1>9 DEF Busy!Ended, Busy!vars, vars, NobodySleeps, Waiting
<1> QED
  BY <1>3, <1>4, <1>5, <1>6, <1>7, <1>8, <1>9 DEF Busy!Next, Busy!MainStep, Busy!WorkerStep

-----------------------------------------------------------------------------
(* The programs without a pool: what the processes' loop tells. *)

\* Quotient and remainder.
LEMMA DivMod ==
  ASSUME NEW n \in Nat, NEW m \in Nat \ {0}
  PROVE  n = m * (n \div m) + (n % m) /\ n % m \in 0 .. m - 1 /\ n \div m \in Nat
  OBVIOUS

\* A multiple leaves no remainder.
LEMMA Multiple ==
  ASSUME NEW m \in Nat \ {0}, NEW q \in Nat, NEW n \in Nat, n = m * q
  PROVE  n % m = 0
  OBVIOUS

\* Two multiples of m less than m apart are the same.
LEMMA SameMultiple ==
  ASSUME NEW m \in Nat \ {0}, NEW a \in Nat, NEW b \in Nat,
         a % m = 0, b % m = 0, a < b + m, b < a + m
  PROVE  a = b
<1> DEFINE p == a \div m
           q == b \div m
<1>1. a = m * p /\ b = m * q /\ p \in Nat /\ q \in Nat
  BY DivMod
<1> HIDE DEF p, q
<1>2. CASE p < q
  <2>1. q >= p + 1 /\ m * q >= m * (p + 1)
    BY <1>1, <1>2
  <2> QED
    BY <1>1, <2>1
<1>3. CASE q < p
  <2>1. p >= q + 1 /\ m * p >= m * (q + 1)
    BY <1>1, <1>3
  <2> QED
    BY <1>1, <2>1
<1> QED
  BY <1>1, <1>2, <1>3

\* m after a multiple of m comes another.
LEMMA NextMultiple ==
  ASSUME NEW m \in Nat \ {0}, NEW a \in Nat, a % m = 0
  PROVE  (a + m) % m = 0
<1> DEFINE p == a \div m
<1>1. a = m * p /\ p \in Nat
  BY DivMod
<1> HIDE DEF p
<1>2. a + m = m * (p + 1)
  BY <1>1
<1> QED
  BY <1>1, <1>2, Multiple

\* A divisor that i/2 - 1 does not reach is i/2, and then 2 divides too.
LEMMA HalfIsEnough ==
  ASSUME NEW i \in Nat, i > 4, NEW j \in 2 .. i - 1, i % j = 0
  PROVE  \E d \in 2 .. (i \div 2) - 1 : i % d = 0
<1> DEFINE k == i \div j
           h == i \div 2
<1>1. i = j * k /\ k \in Nat
  BY DivMod
<1>2. /\ h \in Nat
      /\ i = 2 * h \/ i = 2 * h + 1
  BY DivMod
<1> HIDE DEF k, h
<1>3. k >= 2
  <2>1. k # 0 /\ k # 1
    BY <1>1
  <2> QED
    BY <1>1, <2>1
<1>4. CASE j =< h - 1
  <2>1. j \in 2 .. h - 1
    BY <1>2, <1>4
  <2> QED
    BY <2>1 DEF h
<1>5. CASE j > h - 1
  <2>1. j >= h
    BY <1>2, <1>5
  <2>2. k = 2
    <3>1. CASE k >= 3
      <4>1. j * k >= j * 3
        BY <1>1, <3>1
      <4> QED
        BY <1>1, <1>2, <2>1, <4>1
    <3> QED
      BY <1>1, <1>3, <3>1
  <2>3. i = 2 * j /\ j = h /\ h >= 3
    BY <1>1, <1>2, <2>1, <2>2
  <2>4. i % 2 = 0 /\ 2 \in 2 .. h - 1
    BY <2>3, Multiple
  <2> QED
    BY <2>4 DEF h
<1> QED
  BY <1>2, <1>4, <1>5

\* What the processes print, whose loop goes up to i/2 - 1, are the primes.
LEMMA MarkedArePrime ==
  ASSUME NEW i \in Plain!Number, ~Plain!Threads
  PROVE  Plain!Marked(i) <=> Plain!IsPrime(i)
<1>1. i \in Nat /\ i > 4
  BY RangeAssumption, PrimersAssumption DEF Plain!Number
<1>2. \A j \in 2 .. (i \div 2) - 1 : j \in 2 .. i - 1
  <2>1. i \div 2 \in Nat /\ i \div 2 =< i
    BY <1>1
  <2> QED
    BY <1>1, <2>1
<1>3. (\E j \in 2 .. i - 1 : i % j = 0) => \E d \in 2 .. (i \div 2) - 1 : i % d = 0
  BY <1>1, HalfIsEnough
<1> QED
  BY <1>1, <1>2, <1>3 DEF Plain!Marked, Plain!IsPrime, Plain!Divides

-----------------------------------------------------------------------------
(* The programs without a pool: main and its helpers. *)

\* A helper goes forward.
LEMMA StrideNat == Plain!Stride \in Nat \ {0}
<1>1. Cardinality(Worker) \in Nat /\ Cardinality(Worker) # 0
  BY RangeAssumption, PrimersAssumption, FS_CardinalityType, FS_EmptySet
<1>2. RIGHT - LEFT + 1 \in Nat \ {0}
  BY RangeAssumption
<1> QED
  BY <1>1, <1>2 DEF Plain!Stride, Plain!Once

\* The numbers looked at are above 4.
LEMMA NumberNat == \A i \in Plain!Number : i \in Nat /\ i > 4 /\ i >= LEFT /\ i =< RIGHT
  BY RangeAssumption, PrimersAssumption DEF Plain!Number

\* Before the first fork or pthread_create nothing is looked at or allocated.
LEMMA PrimersInit == Plain!Init => Plain!IInv
<1> SUFFICES ASSUME Plain!Init PROVE Plain!IInv
  OBVIOUS
<1>1. /\ boss = "create" /\ created = 0 /\ reported = {}
      /\ at = [i \in Plain!Number |-> 0]
      /\ style \in {"alone", "each", "stride", "value", "struct"}
  BY DEF Plain!Init
<1>2. Plain!TypeOK
  BY <1>1, StrideNat DEF Plain!TypeOK
<1>3. Plain!OnCourse
  BY <1>1, NumberNat, RangeAssumption DEF Plain!OnCourse
<1>4. Plain!BehindReported
  BY <1>1, NumberNat DEF Plain!BehindReported
<1>5. Plain!PrimesReported
  BY <1>1, NumberNat DEF Plain!PrimesReported
<1> QED
  BY <1>2, <1>3, <1>4, <1>5 DEF Plain!IInv

\* What is marked, and how far a helper goes, is the style's.
LEMMA StyleStays ==
  ASSUME style' = style
  PROVE  /\ Plain!Stride' = Plain!Stride
         /\ Plain!Threads' = Plain!Threads
         /\ \A i : Plain!Marked(i)' = Plain!Marked(i)
  BY DEF Plain!Stride, Plain!Threads, Plain!Marked

\* Another helper, at its first number: no number is behind it yet.
LEMMA HelperCreated ==
  ASSUME Plain!IInv, boss = "create", created < Plain!Stride,
         created' = created + 1, at' = [at EXCEPT ![LEFT + created] = LEFT + created],
         args \subseteq args', style = "struct" => LEFT + created \in args',
         UNCHANGED <<style, boss, reported>>
  PROVE  Plain!IInv'
<1> DEFINE f == LEFT + created
<1>1. /\ created \in Nat /\ at \in [Plain!Number -> Nat] /\ f \in Nat
      /\ \A h \in Plain!Number : IF h < f THEN at[h] >= h /\ (at[h] - h) % Plain!Stride = 0
                                          ELSE at[h] = 0
  BY StrideNat, RangeAssumption DEF Plain!IInv, Plain!TypeOK, Plain!OnCourse
<1>2. f + 1 = LEFT + created'
  BY <1>1, RangeAssumption
<1>3. at' = [at EXCEPT ![f] = f] /\ (style = "struct" => f \in args')
  OBVIOUS
<1> HIDE DEF f
<1>4. Plain!TypeOK'
  <2>1. created' \in 0 .. Plain!Stride
    BY <1>1, StrideNat
  <2>2. at' \in [Plain!Number -> Nat]
    BY <1>1, <1>3
  <2> QED
    BY <2>1, <2>2, StyleStays DEF Plain!IInv, Plain!TypeOK
<1>5. \A h \in Plain!Number : at'[h] = IF h = f THEN h ELSE at[h]
  BY <1>1, <1>3
<1>6. Plain!OnCourse'
  <2>1. ASSUME NEW h \in Plain!Number
        PROVE  IF h < f + 1 THEN at'[h] >= h /\ (at'[h] - h) % Plain!Stride = 0 ELSE at'[h] = 0
    <3>1. CASE h = f
      <4>1. at'[h] - h = 0 /\ 0 = Plain!Stride * 0 /\ at'[h] >= h /\ h < f + 1
        BY <1>5, <3>1, NumberNat, StrideNat
      <4>2. 0 % Plain!Stride = 0
        BY StrideNat, Multiple
      <4> QED
        BY <4>1, <4>2
    <3>2. CASE h # f
      <4>1. (h < f + 1) <=> (h < f)
        BY <1>1, <3>2, NumberNat
      <4> QED
        BY <1>1, <1>5, <3>2, <4>1
    <3> QED
      BY <3>1, <3>2
  <2> QED
    BY <1>2, <2>1, StyleStays DEF Plain!OnCourse
<1>7. Plain!BehindReported'
  <2>1. ASSUME NEW h \in Plain!Number, NEW i \in Plain!Number, i >= h, i < at'[h]
        PROVE  i < at[h]
    BY <1>1, <1>5, <2>1, NumberNat
  <2> QED
    BY <2>1, StyleStays DEF Plain!IInv, Plain!BehindReported
<1>8. Plain!PrimesReported'
  BY <1>3, <1>5 DEF Plain!IInv, Plain!PrimesReported, Plain!Killed
<1> QED
  BY <1>4, <1>6, <1>7, <1>8 DEF Plain!IInv

\* main gives up, or waits.
LEMMA BossMoves ==
  ASSUME Plain!IInv, boss = "create", UNCHANGED <<style, created, at, args, reported>>,
         boss' = "failed" \/ (boss' = "wait" /\ created = Plain!Stride)
  PROVE  Plain!IInv'
<1>1. Plain!TypeOK'
  BY StyleStays DEF Plain!IInv, Plain!TypeOK
<1>2. Plain!OnCourse'
  BY StyleStays DEF Plain!IInv, Plain!OnCourse
<1>3. Plain!BehindReported'
  BY StyleStays DEF Plain!IInv, Plain!BehindReported
<1>4. Plain!PrimesReported'
  BY DEF Plain!IInv, Plain!PrimesReported, Plain!Killed
<1> QED
  BY <1>1, <1>2, <1>3, <1>4 DEF Plain!IInv

\* A helper more, or none because fork or pthread_create failed.
LEMMA PrimersCreate ==
  ASSUME Plain!IInv, NEW s, NEW helpers, NEW allocates \in BOOLEAN, Plain!Create(s, helpers, allocates),
         helpers = Plain!Stride, s = "struct" => allocates
  PROVE  Plain!IInv'
<1>1. style = s /\ boss = "create" /\ UNCHANGED <<style, reported>>
  BY DEF Plain!Create
<1>2. CASE /\ created < helpers
           /\ created' = created + 1 /\ at' = [at EXCEPT ![LEFT + created] = LEFT + created]
           /\ args' = IF allocates THEN args \cup {LEFT + created} ELSE args
           /\ UNCHANGED boss
  BY <1>1, <1>2, HelperCreated
<1>3. CASE boss' = "failed" /\ UNCHANGED <<created, at, args>>
  BY <1>1, <1>3, BossMoves
<1>4. CASE created = helpers /\ boss' = "wait" /\ UNCHANGED <<created, at, args>>
  BY <1>1, <1>4, BossMoves
<1> QED
  BY <1>2, <1>3, <1>4 DEF Plain!Create

\* A helper looks at a number and goes on, or ends.
LEMMA PrimersLook ==
  ASSUME Plain!IInv, NEW s, NEW h \in Plain!Number, NEW step, Plain!Look(s, h, step),
         step = Plain!Stride
  PROVE  Plain!IInv'
<1> DEFINE S == Plain!Stride
           n == at[h]
<1>1. /\ n \in Plain!Number /\ at' = [at EXCEPT ![h] = n + S]
      /\ reported' = IF Plain!Marked(n) THEN reported \cup {n} ELSE reported
      /\ UNCHANGED <<style, boss, created, args>>
  BY DEF Plain!Look, Plain!Report
<1>2. /\ S \in Nat \ {0} /\ n \in Nat /\ h \in Nat /\ n > 4
      /\ at \in [Plain!Number -> Nat]
  BY <1>1, StrideNat, NumberNat DEF Plain!IInv, Plain!TypeOK
<1>3. h < LEFT + created /\ n >= h /\ (n - h) % S = 0
  BY <1>2 DEF Plain!IInv, Plain!OnCourse
<1>4. boss # "ended"
  BY <1>1 DEF Plain!IInv, Plain!OnCourse, Plain!AllGone
<1>5. \A g \in Plain!Number : at'[g] = IF g = h THEN n + S ELSE at[g]
  BY <1>1, <1>2
<1> HIDE DEF S, n
<1>6. Plain!TypeOK'
  <2>1. at' \in [Plain!Number -> Nat]
    BY <1>1, <1>2
  <2> QED
    BY <1>1, <2>1, StyleStays DEF Plain!IInv, Plain!TypeOK
<1>7. Plain!OnCourse'
  <2>1. n + S >= h /\ ((n + S) - h) % S = 0
    <3>1. n - h \in Nat
      BY <1>2, <1>3
    <3>2. ((n - h) + S) % S = 0
      BY <1>2, <1>3, <3>1, NextMultiple
    <3>3. (n - h) + S = (n + S) - h
      BY <1>2
    <3> QED
      BY <1>2, <1>3, <3>2, <3>3
  <2>2. ASSUME NEW g \in Plain!Number
        PROVE  IF g < LEFT + created THEN at'[g] >= g /\ (at'[g] - g) % S = 0 ELSE at'[g] = 0
    <3>1. CASE g = h
      BY <1>3, <1>5, <2>1, <3>1
    <3>2. CASE g # h
      <4>1. IF g < LEFT + created THEN at[g] >= g /\ (at[g] - g) % S = 0 ELSE at[g] = 0
        BY DEF Plain!IInv, Plain!OnCourse, S
      <4> QED
        BY <1>5, <3>2, <4>1
    <3> QED
      BY <3>1, <3>2
  <2> QED
    BY <1>1, <1>4, <2>2, StyleStays DEF Plain!IInv, Plain!OnCourse, S
<1>8. Plain!BehindReported'
  <2>1. reported' \subseteq {i \in Plain!Number : Plain!Marked(i)}
    BY <1>1 DEF Plain!IInv, Plain!BehindReported
  <2>2. ASSUME NEW g \in Plain!Number, NEW i \in Plain!Number,
               i >= g, (i - g) % S = 0, i < at'[g], Plain!Marked(i)
        PROVE  i \in reported'
    <3>1. i \in reported => i \in reported'
      BY <1>1
    <3>2. i < at[g] => i \in reported
      BY <2>2 DEF Plain!IInv, Plain!BehindReported, S
    <3>3. CASE g = h /\ i >= n
      <4>1. i \in Nat /\ i - h \in Nat /\ n - h \in Nat
        BY <1>2, <1>3, <2>2, <3>3, NumberNat
      <4>2. i < n + S
        BY <1>5, <2>2, <3>3
      <4>3. (i - h) % S = 0 /\ i - h < (n - h) + S /\ n - h < (i - h) + S
        BY <1>2, <2>2, <3>3, <4>1, <4>2
      <4>4. i - h = n - h
        BY <1>2, <1>3, <4>1, <4>3, SameMultiple
      <4>5. i = n
        BY <1>2, <4>1, <4>4
      <4> QED
        BY <1>1, <2>2, <4>5
    <3>4. CASE g # h
      BY <1>5, <2>2, <3>1, <3>2, <3>4
    <3>5. CASE g = h /\ i < n
      BY <3>1, <3>2, <3>5 DEF n
    <3>6. i < n \/ i >= n
      BY <1>2, NumberNat
    <3> QED
      BY <3>3, <3>4, <3>5, <3>6
  <2> QED
    BY <1>1, <2>1, <2>2, StyleStays DEF Plain!BehindReported, S
<1>9. Plain!PrimesReported'
  <2>1. n + S # h
    BY <1>2, <1>3
  <2>2. \A i \in Plain!Number : at'[i] = i => at[i] = i
    BY <1>5, <2>1
  <2> QED
    BY <1>1, <1>4, <2>2 DEF Plain!IInv, Plain!PrimesReported, Plain!Killed, Plain!Threads
<1> QED
  BY <1>6, <1>7, <1>8, <1>9 DEF Plain!IInv

\* When all helpers are gone every number is behind the helper whose stride
\* it is on.
LEMMA AllLookedAt ==
  ASSUME Plain!IInv, Plain!AllGone, created = Plain!Stride, NEW i \in Plain!Number, Plain!Marked(i)
  PROVE  i \in reported
<1> DEFINE S == Plain!Stride
           q == (i - LEFT) \div S
           r == (i - LEFT) % S
           h == LEFT + r
<1>1. S \in Nat \ {0} /\ i - LEFT \in Nat /\ i \in Nat /\ LEFT \in Nat
  BY StrideNat, NumberNat, RangeAssumption
<1>2. i - LEFT = S * q + r /\ r \in 0 .. S - 1 /\ q \in Nat
  BY <1>1, DivMod
<1> HIDE DEF S, q, r
<1>3. S * q \in Nat
  BY <1>1, <1>2
<1>4. h \in Plain!Number /\ i >= h /\ i - h = S * q
  <2>1. r =< i - LEFT
    BY <1>1, <1>2, <1>3
  <2>2. i =< RIGHT
    BY NumberNat
  <2> QED
    BY <1>1, <1>2, <1>3, <2>1, <2>2, RangeAssumption DEF Plain!Number
<1>5. (i - h) % S = 0
  BY <1>1, <1>2, <1>3, <1>4, Multiple
<1>6. h < LEFT + created
  BY <1>1, <1>2 DEF S
<1> HIDE DEF h
<1>7. at[h] >= h /\ at[h] \in Nat
  BY <1>4, <1>6 DEF Plain!IInv, Plain!TypeOK, Plain!OnCourse
<1>8. at[h] \notin Plain!Number
  BY <1>4 DEF Plain!AllGone
<1>9. i < at[h]
  BY <1>4, <1>7, <1>8, NumberNat, RangeAssumption DEF Plain!Number
<1> QED
  BY <1>4, <1>5, <1>9 DEF Plain!IInv, Plain!BehindReported, S

\* main has waited for the last helper and frees what structs are left.
LEMMA PrimersWait ==
  ASSUME Plain!IInv, NEW s, Plain!Wait(s)
  PROVE  Plain!IInv'
<1>1. /\ boss = "wait" /\ Plain!AllGone /\ args' = {} /\ boss' = "ended"
      /\ UNCHANGED <<style, created, at, reported>>
  BY DEF Plain!Wait
<1>2. created = Plain!Stride
  BY <1>1 DEF Plain!IInv, Plain!OnCourse
<1>3. reported = {i \in Plain!Number : Plain!Marked(i)}
  BY <1>1, <1>2, AllLookedAt DEF Plain!IInv, Plain!BehindReported
<1>4. reported = IF Plain!Threads THEN Plain!Number ELSE {i \in Plain!Number : Plain!IsPrime(i)}
  <2>1. CASE Plain!Threads
    <3>1. \A i \in Plain!Number : Plain!Marked(i)
      BY <2>1 DEF Plain!Marked
    <3> QED
      BY <1>3, <2>1, <3>1
  <2>2. CASE ~Plain!Threads
    BY <1>3, <2>2, MarkedArePrime
  <2> QED
    BY <2>1, <2>2
<1>5. Plain!TypeOK'
  BY <1>1, StyleStays DEF Plain!IInv, Plain!TypeOK
<1>6. Plain!OnCourse'
  BY <1>1, <1>2, StyleStays DEF Plain!IInv, Plain!OnCourse, Plain!AllGone
<1>7. Plain!BehindReported'
  BY <1>1, StyleStays DEF Plain!IInv, Plain!BehindReported
<1>8. Plain!PrimesReported'
  <2>1. \A i \in Plain!Number : at[i] # i
    BY <1>1 DEF Plain!AllGone
  <2>2. \A i \in Plain!Number : Plain!IsPrime(i)' = Plain!IsPrime(i)
    BY DEF Plain!IsPrime
  <2> QED
    BY <1>1, <1>4, <2>1, <2>2, StyleStays DEF Plain!PrimesReported
<1> QED
  BY <1>5, <1>6, <1>7, <1>8 DEF Plain!IInv

\* Each step of a program without a pool keeps its invariant.
LEMMA PrimersStep ==
  ASSUME Plain!IInv, Plain!Next
  PROVE  Plain!IInv'
<1>1. LEFT \in Plain!Number
  BY RangeAssumption DEF Plain!Number
<1>2. CASE Plain!primer
  <2>1. ASSUME style = "alone" PROVE Plain!Stride = 1
    BY <2>1 DEF Plain!Stride
  <2> QED
    BY <1>1, <1>2, <2>1, PrimersCreate, PrimersLook, PrimersWait
    DEF Plain!primer, Plain!Create, Plain!Look
<1>3. CASE Plain!primer_process
  <2>1. ASSUME style = "each" PROVE Plain!Stride = Plain!Once
    BY <2>1 DEF Plain!Stride
  <2> QED
    BY <1>3, <2>1, PrimersCreate, PrimersLook, PrimersWait
    DEF Plain!primer_process, Plain!Create, Plain!Look
<1>4. CASE Plain!primer_processN
  <2>1. ASSUME style = "stride" PROVE Plain!Stride = Cardinality(Worker)
    BY <2>1 DEF Plain!Stride
  <2> QED
    BY <1>4, <2>1, PrimersCreate, PrimersLook, PrimersWait
    DEF Plain!primer_processN, Plain!Create, Plain!Look
<1>5. CASE Plain!primer_value \/ Plain!thr_primer_value
  <2>1. ASSUME style = "value" PROVE Plain!Stride = Plain!Once
    BY <2>1 DEF Plain!Stride
  <2> QED
    BY <1>5, <2>1, PrimersCreate, PrimersLook, PrimersWait
    DEF Plain!primer_value, Plain!thr_primer_value, Plain!Create, Plain!Look
<1>6. CASE Plain!primer_e \/ Plain!thr_primer_e
  <2>1. ASSUME style = "struct" PROVE Plain!Stride = Plain!Once
    BY <2>1 DEF Plain!Stride
  <2> QED
    BY <1>6, <2>1, PrimersCreate, PrimersLook, PrimersWait
    DEF Plain!primer_e, Plain!thr_primer_e, Plain!Create, Plain!Look
<1> QED
  BY <1>2, <1>3, <1>4, <1>5, <1>6 DEF Plain!Next

\* That invariant speaks of these variables only.
LEMMA PrimersSame ==
  ASSUME Plain!IInv, UNCHANGED plainVars
  PROVE  Plain!IInv'
<1>1. UNCHANGED <<style, boss, created, at, args, reported>>
  BY DEF plainVars
<1>2. Plain!TypeOK' /\ Plain!OnCourse'
  BY <1>1, StyleStays DEF Plain!IInv, Plain!TypeOK, Plain!OnCourse, Plain!AllGone
<1>3. Plain!BehindReported'
  BY <1>1, StyleStays DEF Plain!IInv, Plain!BehindReported
<1>4. Plain!PrimesReported'
  BY <1>1 DEF Plain!IInv, Plain!PrimesReported, Plain!Threads, Plain!Killed, Plain!IsPrime
<1> QED
  BY <1>2, <1>3, <1>4 DEF Plain!IInv

-----------------------------------------------------------------------------
(* The programs around fork: what stdio holds back is counted text by text, *)
(* and the scripts are such that nothing is held back where a process is    *)
(* copied or replaced.                                                      *)

\* Procs counts with the same Cardinality.
LEMMA ProcSizes == \A S : Fork!Cardinality(S) = Cardinality(S)
  BY DEF Fork!Cardinality, Cardinality

\* How often a text occurs in a sequence is a number; ...
LEMMA TimesNat ==
  ASSUME NEW T, NEW s \in Seq(T), NEW x
  PROVE  /\ Fork!Times(s, x) = Cardinality({i \in 1 .. Len(s) : s[i] = x})
         /\ IsFiniteSet({i \in 1 .. Len(s) : s[i] = x})
         /\ Fork!Times(s, x) \in Nat
<1> DEFINE whole == {i \in 1 .. Len(s) : s[i] = x}
<1>1. Fork!Times(s, x) = Cardinality(whole)
  BY ProcSizes, LenProperties DEF Fork!Times
<1>2. IsFiniteSet(whole)
  <2>1. IsFiniteSet(1 .. Len(s)) /\ whole \in SUBSET (1 .. Len(s))
    BY FS_Interval, LenProperties
  <2> QED
    BY <2>1, FS_Subset
<1> QED
  BY <1>1, <1>2, FS_CardinalityType

\* ... none in the empty one, ...
LEMMA TimesEmpty == \A x : Fork!Times(<<>>, x) = 0
<1> SUFFICES ASSUME NEW x PROVE Fork!Times(<<>>, x) = 0
  OBVIOUS
<1>1. {i \in 1 .. Len(<<>>) : <<>>[i] = x} = {}
  OBVIOUS
<1>2. Fork!Times(<<>>, x) = Cardinality({i \in 1 .. Len(<<>>) : <<>>[i] = x})
  <2>1. <<>> \in Seq({x})
    OBVIOUS
  <2> QED
    BY <2>1, TimesNat
<1> QED
  BY <1>1, <1>2, FS_EmptySet

\* ... in two that are joined as often as in both, ...
LEMMA TimesJoined ==
  ASSUME NEW T, NEW s \in Seq(T), NEW t \in Seq(T), NEW x
  PROVE  Fork!Times(s \o t, x) = Fork!Times(s, x) + Fork!Times(t, x)
<1> DEFINE m == Len(s)
           atS == {i \in 1 .. Len(s) : s[i] = x}
           atT == {i \in 1 .. Len(t) : t[i] = x}
           behind == {i \in (m + 1) .. (m + Len(t)) : t[i - m] = x}
           whole == {i \in 1 .. Len(s \o t) : (s \o t)[i] = x}
<1>1. s \o t \in Seq(T) /\ Len(s \o t) = m + Len(t) /\ m \in Nat /\ Len(t) \in Nat
  BY ConcatProperties, LenProperties
<1>2. whole = atS \cup behind /\ atS \cap behind = {}
  <2>1. \A i \in 1 .. m + Len(t) : (s \o t)[i] = IF i =< m THEN s[i] ELSE t[i - m]
    BY ConcatProperties
  <2> QED
    BY <1>1, <2>1
<1>3. ExistsBijection(atT, behind)
  <2> DEFINE f == [i \in atT |-> i + m]
  <2>1. f \in [atT -> behind]
    BY <1>1
  <2>2. \A i, j \in atT : f[i] = f[j] => i = j
    BY <1>1
  <2>3. \A k \in behind : k - m \in atT /\ f[k - m] = k
    BY <1>1
  <2> HIDE DEF f, atT, behind
  <2> QED
    BY <2>1, <2>2, <2>3 DEF ExistsBijection, Bijection, Injection, Surjection, IsInjective
<1>4. IsFiniteSet(atT) /\ IsFiniteSet(atS)
  BY TimesNat
<1>5. IsFiniteSet(behind) /\ Cardinality(behind) = Cardinality(atT)
  BY <1>3, <1>4, FS_Bijection
<1>6. Cardinality(atS \cup behind)
        = Cardinality(atS) + Cardinality(behind) - Cardinality(atS \cap behind)
  BY <1>4, <1>5, FS_Union
<1>7. Cardinality(atS \cap behind) = 0 /\ Cardinality(atS) \in Nat /\ Cardinality(behind) \in Nat
  BY <1>2, <1>4, <1>5, FS_EmptySet, FS_CardinalityType
<1>8. Fork!Times(s \o t, x) = Cardinality(whole) /\ Fork!Times(s, x) = Cardinality(atS)
      /\ Fork!Times(t, x) = Cardinality(atT)
  BY <1>1, TimesNat
<1> HIDE DEF whole, atS, atT, behind
<1> QED
  BY <1>2, <1>5, <1>6, <1>7, <1>8

\* ... and once more when it is the one appended.
LEMMA TimesAppended ==
  ASSUME NEW T, NEW s \in Seq(T), NEW y \in T, NEW x
  PROVE  Fork!Times(Append(s, y), x) = Fork!Times(s, x) + (IF y = x THEN 1 ELSE 0)
<1>1. <<y>> \in Seq(T) /\ Append(s, y) = s \o <<y>>
  BY AppendIsConcat
<1>2. Fork!Times(<<y>>, x) = Cardinality({i \in 1 .. Len(<<y>>) : <<y>>[i] = x})
  BY <1>1, TimesNat
<1>3. Fork!Times(<<y>>, x) = IF y = x THEN 1 ELSE 0
  <2>1. CASE y = x
    <3>1. {i \in 1 .. Len(<<y>>) : <<y>>[i] = x} = {1}
      BY <2>1
    <3> QED
      BY <1>2, <2>1, <3>1, FS_Singleton
  <2>2. CASE y # x
    <3>1. {i \in 1 .. Len(<<y>>) : <<y>>[i] = x} = {}
      BY <2>2
    <3> QED
      BY <1>2, <2>2, <3>1, FS_EmptySet
  <2> QED
    BY <2>1, <2>2
<1>4. Fork!Times(s \o <<y>>, x) = Fork!Times(s, x) + Fork!Times(<<y>>, x)
  BY <1>1, TimesJoined
<1> QED
  BY <1>1, <1>3, <1>4

\* What copies or replaces a process, and what leaves nothing held back.
Copied == {"fork", "fork or not", "exec"}
Emptied == {"fflush", "getline", "fork", "fork or not"}

\* A script ends with everybody's exit; the same process takes the statement
\* before one that copies or replaces it, and nothing is held back after that.
WellWritten(s, n) ==
  /\ Len(s) = n /\ DOMAIN s = 1 .. n /\ s[n].op = "exit"
  /\ \A j, k \in 1 .. n : j + 1 = k /\ s[k].op \in Copied =>
       s[j].op \in Emptied /\ \A x \in s[k].who : x \in s[j].who

\* Does a script read commands, or hand a text over?
Shell(s, n) == \E k \in 1 .. n : s[k].op = "getline"
Hander(s, n) == \E k \in 1 .. n : s[k].op \in {"store", "store or not"}

\* 001fork: fflush before fork.
LEMMA ForkWritten == WellWritten(Fork!fork, 7) /\ ~Shell(Fork!fork, 7) /\ ~Hander(Fork!fork, 7)
<1> DEFINE s == Fork!fork
<1>1. Len(s) = 7 /\ DOMAIN s = 1 .. 7
  BY DEF Fork!fork
<1>2. /\ s[1].op = "puts" /\ s[2].op = "fflush" /\ s[3].op = "fork"
      /\ s[4].op = "puts" /\ s[5].op = "puts" /\ s[6].op = "puts"
      /\ s[7].op = "exit"
  BY DEF Fork!fork, Fork!Both, Fork!Child, Fork!Parent, Fork!Fork, Fork!Flush, Fork!Exit
<1>3. s[2].who = {"child", "parent"} /\ s[3].who = {"child", "parent"}
  BY DEF Fork!fork, Fork!Both, Fork!Child, Fork!Parent, Fork!Fork, Fork!Flush, Fork!Exit
<1> HIDE DEF s
<1>4. ASSUME NEW k \in 1 .. 7
      PROVE  k = 1 \/ k = 2 \/ k = 3 \/ k = 4 \/ k = 5 \/ k = 6 \/ k = 7
  OBVIOUS
<1>5. \A k \in 1 .. 7 : s[k].op \in Copied => k \in {3}
  BY <1>2, <1>4 DEF Copied
<1>6. ~Shell(s, 7) /\ ~Hander(s, 7)
  BY <1>2, <1>4 DEF Shell, Hander
<1>7. ASSUME NEW j \in 1 .. 7, NEW k \in 1 .. 7, j + 1 = k, s[k].op \in Copied
      PROVE  s[j].op \in Emptied /\ \A x \in s[k].who : x \in s[j].who
  <2>1. (j = 2 /\ k = 3)
    BY <1>5, <1>7
  <2> QED
    BY <1>2, <1>3, <2>1 DEF Emptied
<1>8. WellWritten(s, 7)
  BY <1>1, <1>2, <1>7 DEF WellWritten
<1> QED
  BY <1>6, <1>8 DEF s

\* 002forktest: fflush before each fork.
LEMMA ForktestWritten ==
  WellWritten(Fork!forktest, 9) /\ ~Shell(Fork!forktest, 9) /\ ~Hander(Fork!forktest, 9)
<1> DEFINE s == Fork!forktest
<1>1. Len(s) = 9 /\ DOMAIN s = 1 .. 9
  BY DEF Fork!forktest
<1>2. /\ s[1].op = "fflush" /\ s[2].op = "fork or not" /\ s[3].op = "printf"
      /\ s[4].op = "fflush" /\ s[5].op = "fork or not" /\ s[6].op = "printf"
      /\ s[7].op = "wait" /\ s[8].op = "wait" /\ s[9].op = "exit"
  BY DEF Fork!forktest, Fork!Both, Fork!Flush, Fork!Exit
<1>3. /\ s[1].who = {"child", "parent"} /\ s[2].who = {"child", "parent"}
      /\ s[4].who = {"child", "parent"} /\ s[5].who = {"child", "parent"}
  BY DEF Fork!forktest, Fork!Both, Fork!Flush, Fork!Exit
<1> HIDE DEF s
<1>4. ASSUME NEW k \in 1 .. 9
      PROVE  k = 1 \/ k = 2 \/ k = 3 \/ k = 4 \/ k = 5 \/ k = 6 \/ k = 7 \/ k = 8 \/ k = 9
  OBVIOUS
<1>5. \A k \in 1 .. 9 : s[k].op \in Copied => k \in {2, 5}
  BY <1>2, <1>4 DEF Copied
<1>6. ~Shell(s, 9) /\ ~Hander(s, 9)
  BY <1>2, <1>4 DEF Shell, Hander
<1>7. ASSUME NEW j \in 1 .. 9, NEW k \in 1 .. 9, j + 1 = k, s[k].op \in Copied
      PROVE  s[j].op \in Emptied /\ \A x \in s[k].who : x \in s[j].who
  <2>1. (j = 1 /\ k = 2) \/ (j = 4 /\ k = 5)
    BY <1>5, <1>7
  <2> QED
    BY <1>2, <1>3, <2>1 DEF Emptied
<1>8. WellWritten(s, 9)
  BY <1>1, <1>2, <1>7 DEF WellWritten
<1> QED
  BY <1>6, <1>8 DEF s

\* 006execl: fflush before exec.
LEMMA ExeclWritten ==
  WellWritten(Fork!execl, 4) /\ ~Shell(Fork!execl, 4) /\ ~Hander(Fork!execl, 4)
<1> DEFINE s == Fork!execl
<1>1. Len(s) = 4 /\ DOMAIN s = 1 .. 4
  BY DEF Fork!execl
<1>2. /\ s[1].op = "puts" /\ s[2].op = "fflush" /\ s[3].op = "exec"
      /\ s[4].op = "exit"
  BY DEF Fork!execl, Fork!Both, Fork!Flush, Fork!Exit
<1>3. s[2].who = {"child", "parent"} /\ s[3].who = {"child", "parent"}
  BY DEF Fork!execl, Fork!Both, Fork!Flush, Fork!Exit
<1> HIDE DEF s
<1>4. ASSUME NEW k \in 1 .. 4
      PROVE  k = 1 \/ k = 2 \/ k = 3 \/ k = 4
  OBVIOUS
<1>5. \A k \in 1 .. 4 : s[k].op \in Copied => k \in {3}
  BY <1>2, <1>4 DEF Copied
<1>6. ~Shell(s, 4) /\ ~Hander(s, 4)
  BY <1>2, <1>4 DEF Shell, Hander
<1>7. ASSUME NEW j \in 1 .. 4, NEW k \in 1 .. 4, j + 1 = k, s[k].op \in Copied
      PROVE  s[j].op \in Emptied /\ \A x \in s[k].who : x \in s[j].who
  <2>1. (j = 2 /\ k = 3)
    BY <1>5, <1>7
  <2> QED
    BY <1>2, <1>3, <2>1 DEF Emptied
<1>8. WellWritten(s, 4)
  BY <1>1, <1>2, <1>7 DEF WellWritten
<1> QED
  BY <1>6, <1>8 DEF s

\* 007few: fflush, fork, exec.
LEMMA FewWritten == WellWritten(Fork!few, 8) /\ ~Shell(Fork!few, 8) /\ ~Hander(Fork!few, 8)
<1> DEFINE s == Fork!few
<1>1. Len(s) = 8 /\ DOMAIN s = 1 .. 8
  BY DEF Fork!few
<1>2. /\ s[1].op = "puts" /\ s[2].op = "fflush" /\ s[3].op = "fork"
      /\ s[4].op = "exec" /\ s[5].op = "exit" /\ s[6].op = "wait"
      /\ s[7].op = "puts" /\ s[8].op = "exit"
  BY DEF Fork!few, Fork!Both, Fork!Child, Fork!Parent, Fork!Fork, Fork!Flush, Fork!Wait, Fork!Exit
<1>3. s[2].who = {"child", "parent"} /\ s[3].who = {"child", "parent"} /\ s[4].who = {"child"}
  BY DEF Fork!few, Fork!Both, Fork!Child, Fork!Parent, Fork!Fork, Fork!Flush, Fork!Wait, Fork!Exit
<1> HIDE DEF s
<1>4. ASSUME NEW k \in 1 .. 8
      PROVE  k = 1 \/ k = 2 \/ k = 3 \/ k = 4 \/ k = 5 \/ k = 6 \/ k = 7 \/ k = 8
  OBVIOUS
<1>5. \A k \in 1 .. 8 : s[k].op \in Copied => k \in {3, 4}
  BY <1>2, <1>4 DEF Copied
<1>6. ~Shell(s, 8) /\ ~Hander(s, 8)
  BY <1>2, <1>4 DEF Shell, Hander
<1>7. ASSUME NEW j \in 1 .. 8, NEW k \in 1 .. 8, j + 1 = k, s[k].op \in Copied
      PROVE  s[j].op \in Emptied /\ \A x \in s[k].who : x \in s[j].who
  <2>1. (j = 2 /\ k = 3) \/ (j = 3 /\ k = 4)
    BY <1>5, <1>7
  <2> QED
    BY <1>2, <1>3, <2>1 DEF Emptied
<1>8. WellWritten(s, 8)
  BY <1>1, <1>2, <1>7 DEF WellWritten
<1> QED
  BY <1>6, <1>8 DEF s

\* 008mysh: it reads a line before each fork.
LEMMA MyshWritten == WellWritten(Fork!mysh, 13) /\ ~Hander(Fork!mysh, 13)
<1> DEFINE s == Fork!mysh
<1>1. Len(s) = 13 /\ DOMAIN s = 1 .. 13
  BY DEF Fork!mysh, Fork!Round
<1>2. /\ s[1].op = "printf" /\ s[2].op = "getline" /\ s[3].op = "fork"
      /\ s[4].op = "exec" /\ s[5].op = "exit" /\ s[6].op = "wait"
      /\ s[7].op = "printf" /\ s[8].op = "getline" /\ s[9].op = "fork"
      /\ s[10].op = "exec" /\ s[11].op = "exit" /\ s[12].op = "wait"
      /\ s[13].op = "exit"
  BY DEF Fork!mysh, Fork!Round, Fork!Both, Fork!Child, Fork!Parent, Fork!Fork, Fork!Wait,
         Fork!Exit
<1>3. /\ s[2].who = {"child", "parent"} /\ s[3].who = {"child", "parent"}
      /\ s[4].who = {"child"} /\ s[8].who = {"child", "parent"}
      /\ s[9].who = {"child", "parent"} /\ s[10].who = {"child"}
  BY DEF Fork!mysh, Fork!Round, Fork!Both, Fork!Child, Fork!Parent, Fork!Fork, Fork!Wait,
         Fork!Exit
<1> HIDE DEF s
<1>4. ASSUME NEW k \in 1 .. 13
      PROVE  \/ k = 1 \/ k = 2 \/ k = 3 \/ k = 4 \/ k = 5 \/ k = 6 \/ k = 7
             \/ k = 8 \/ k = 9 \/ k = 10 \/ k = 11 \/ k = 12 \/ k = 13
  OBVIOUS
<1>5. \A k \in 1 .. 13 : s[k].op \in Copied => k \in {3, 4, 9, 10}
  BY <1>2, <1>4 DEF Copied
<1>6. ~Hander(s, 13)
  BY <1>2, <1>4 DEF Shell, Hander
<1>7. ASSUME NEW j \in 1 .. 13, NEW k \in 1 .. 13, j + 1 = k, s[k].op \in Copied
      PROVE  s[j].op \in Emptied /\ \A x \in s[k].who : x \in s[j].who
  <2>1. (j = 2 /\ k = 3) \/ (j = 3 /\ k = 4) \/ (j = 8 /\ k = 9) \/ (j = 9 /\ k = 10)
    BY <1>5, <1>7
  <2> QED
    BY <1>2, <1>3, <2>1 DEF Emptied
<1>8. WellWritten(s, 13)
  BY <1>1, <1>2, <1>7 DEF WellWritten
<1> QED
  BY <1>6, <1>8 DEF s

\* 009mysu: fork, exec.
LEMMA MysuWritten == WellWritten(Fork!mysu, 5) /\ ~Shell(Fork!mysu, 5) /\ ~Hander(Fork!mysu, 5)
<1> DEFINE s == Fork!mysu
<1>1. Len(s) = 5 /\ DOMAIN s = 1 .. 5
  BY DEF Fork!mysu
<1>2. /\ s[1].op = "fork" /\ s[2].op = "exec" /\ s[3].op = "exit"
      /\ s[4].op = "wait" /\ s[5].op = "exit"
  BY DEF Fork!mysu, Fork!Both, Fork!Child, Fork!Parent, Fork!Fork, Fork!Wait, Fork!Exit
<1>3. s[1].who = {"child", "parent"} /\ s[2].who = {"child"}
  BY DEF Fork!mysu, Fork!Both, Fork!Child, Fork!Parent, Fork!Fork, Fork!Wait, Fork!Exit
<1> HIDE DEF s
<1>4. ASSUME NEW k \in 1 .. 5
      PROVE  k = 1 \/ k = 2 \/ k = 3 \/ k = 4 \/ k = 5
  OBVIOUS
<1>5. \A k \in 1 .. 5 : s[k].op \in Copied => k \in {1, 2}
  BY <1>2, <1>4 DEF Copied
<1>6. ~Shell(s, 5) /\ ~Hander(s, 5)
  BY <1>2, <1>4 DEF Shell, Hander
<1>7. ASSUME NEW j \in 1 .. 5, NEW k \in 1 .. 5, j + 1 = k, s[k].op \in Copied
      PROVE  s[j].op \in Emptied /\ \A x \in s[k].who : x \in s[j].who
  <2>1. (j = 1 /\ k = 2)
    BY <1>5, <1>7
  <2> QED
    BY <1>2, <1>3, <2>1 DEF Emptied
<1>8. WellWritten(s, 5)
  BY <1>1, <1>2, <1>7 DEF WellWritten
<1> QED
  BY <1>6, <1>8 DEF s

\* 001pipe: the parent writes a text and the child reads it.
LEMMA PipeWritten == WellWritten(Fork!pipe, 6) /\ ~Shell(Fork!pipe, 6)
<1> DEFINE s == Fork!pipe
<1>1. Len(s) = 6 /\ DOMAIN s = 1 .. 6
  BY DEF Fork!pipe
<1>2. /\ s[1].op = "fork" /\ s[2].op = "read" /\ s[3].op = "exit"
      /\ s[4].op = "store" /\ s[5].op = "wait" /\ s[6].op = "exit"
  BY DEF Fork!pipe, Fork!Both, Fork!Child, Fork!Parent, Fork!Fork, Fork!Wait, Fork!Exit
<1>3. TRUE
  BY DEF Fork!pipe, Fork!Both, Fork!Child, Fork!Parent, Fork!Fork, Fork!Wait, Fork!Exit
<1> HIDE DEF s
<1>4. ASSUME NEW k \in 1 .. 6
      PROVE  k = 1 \/ k = 2 \/ k = 3 \/ k = 4 \/ k = 5 \/ k = 6
  OBVIOUS
<1>5. \A k \in 1 .. 6 : s[k].op \in Copied => k \in {1}
  BY <1>2, <1>4 DEF Copied
<1>6. ~Shell(s, 6)
  BY <1>2, <1>4 DEF Shell, Hander
<1>7. ASSUME NEW j \in 1 .. 6, NEW k \in 1 .. 6, j + 1 = k, s[k].op \in Copied
      PROVE  s[j].op \in Emptied /\ \A x \in s[k].who : x \in s[j].who
  <2>1. FALSE
    BY <1>5, <1>7
  <2> QED
    BY <1>2, <1>3, <2>1 DEF Emptied
<1>8. WellWritten(s, 6)
  BY <1>1, <1>2, <1>7 DEF WellWritten
<1> QED
  BY <1>6, <1>8 DEF s

\* shm: either side may fail to attach the memory.
LEMMA ShmWritten == WellWritten(Fork!shm, 6) /\ ~Shell(Fork!shm, 6)
<1> DEFINE s == Fork!shm
<1>1. Len(s) = 6 /\ DOMAIN s = 1 .. 6
  BY DEF Fork!shm
<1>2. /\ s[1].op = "fork" /\ s[2].op = "store or not" /\ s[3].op = "exit"
      /\ s[4].op = "wait" /\ s[5].op = "load or not" /\ s[6].op = "exit"
  BY DEF Fork!shm, Fork!Both, Fork!Child, Fork!Parent, Fork!Fork, Fork!Wait, Fork!Exit
<1>3. TRUE
  BY DEF Fork!shm, Fork!Both, Fork!Child, Fork!Parent, Fork!Fork, Fork!Wait, Fork!Exit
<1> HIDE DEF s
<1>4. ASSUME NEW k \in 1 .. 6
      PROVE  k = 1 \/ k = 2 \/ k = 3 \/ k = 4 \/ k = 5 \/ k = 6
  OBVIOUS
<1>5. \A k \in 1 .. 6 : s[k].op \in Copied => k \in {1}
  BY <1>2, <1>4 DEF Copied
<1>6. ~Shell(s, 6)
  BY <1>2, <1>4 DEF Shell, Hander
<1>7. ASSUME NEW j \in 1 .. 6, NEW k \in 1 .. 6, j + 1 = k, s[k].op \in Copied
      PROVE  s[j].op \in Emptied /\ \A x \in s[k].who : x \in s[j].who
  <2>1. FALSE
    BY <1>5, <1>7
  <2> QED
    BY <1>2, <1>3, <2>1 DEF Emptied
<1>8. WellWritten(s, 6)
  BY <1>1, <1>2, <1>7 DEF WellWritten
<1> QED
  BY <1>6, <1>8 DEF s

\* 006sharememory: the memory is there before the fork.
LEMMA SharememoryWritten == WellWritten(Fork!sharememory, 6) /\ ~Shell(Fork!sharememory, 6)
<1> DEFINE s == Fork!sharememory
<1>1. Len(s) = 6 /\ DOMAIN s = 1 .. 6
  BY DEF Fork!sharememory
<1>2. /\ s[1].op = "fork" /\ s[2].op = "store" /\ s[3].op = "exit"
      /\ s[4].op = "wait" /\ s[5].op = "load" /\ s[6].op = "exit"
  BY DEF Fork!sharememory, Fork!Both, Fork!Child, Fork!Parent, Fork!Fork, Fork!Wait, Fork!Exit
<1>3. TRUE
  BY DEF Fork!sharememory, Fork!Both, Fork!Child, Fork!Parent, Fork!Fork, Fork!Wait, Fork!Exit
<1> HIDE DEF s
<1>4. ASSUME NEW k \in 1 .. 6
      PROVE  k = 1 \/ k = 2 \/ k = 3 \/ k = 4 \/ k = 5 \/ k = 6
  OBVIOUS
<1>5. \A k \in 1 .. 6 : s[k].op \in Copied => k \in {1}
  BY <1>2, <1>4 DEF Copied
<1>6. ~Shell(s, 6)
  BY <1>2, <1>4 DEF Shell, Hander
<1>7. ASSUME NEW j \in 1 .. 6, NEW k \in 1 .. 6, j + 1 = k, s[k].op \in Copied
      PROVE  s[j].op \in Emptied /\ \A x \in s[k].who : x \in s[j].who
  <2>1. FALSE
    BY <1>5, <1>7
  <2> QED
    BY <1>2, <1>3, <2>1 DEF Emptied
<1>8. WellWritten(s, 6)
  BY <1>1, <1>2, <1>7 DEF WellWritten
<1> QED
  BY <1>6, <1>8 DEF s


\* Each of the scripts is one of these.
LEMMA ScriptWritten ==
  ASSUME prog \in DOMAIN Fork!Programs
  PROVE  /\ Len(Fork!Script) \in Nat \ {0} /\ WellWritten(Fork!Script, Len(Fork!Script))
         /\ prog # "mysh" => ~Shell(Fork!Script, Len(Fork!Script))
         /\ prog \notin {"pipe", "shm", "sharememory"} => ~Hander(Fork!Script, Len(Fork!Script))
<1> DEFINE Goal(s) == /\ Len(s) \in Nat \ {0} /\ WellWritten(s, Len(s))
                      /\ prog # "mysh" => ~Shell(s, Len(s))
                      /\ prog \notin {"pipe", "shm", "sharememory"} => ~Hander(s, Len(s))
<1>1. prog \in {"fork", "forktest", "execl", "few", "mysh", "mysu", "pipe", "shm", "sharememory"}
  BY DEF Fork!Programs
<1>2. /\ prog = "fork" => Fork!Script = Fork!fork
      /\ prog = "forktest" => Fork!Script = Fork!forktest
      /\ prog = "execl" => Fork!Script = Fork!execl
      /\ prog = "few" => Fork!Script = Fork!few
      /\ prog = "mysh" => Fork!Script = Fork!mysh
      /\ prog = "mysu" => Fork!Script = Fork!mysu
      /\ prog = "pipe" => Fork!Script = Fork!pipe
      /\ prog = "shm" => Fork!Script = Fork!shm
      /\ prog = "sharememory" => Fork!Script = Fork!sharememory
  BY DEF Fork!Script, Fork!Programs
<1>3. ASSUME NEW s, NEW n \in Nat \ {0}, WellWritten(s, n)
      PROVE  Len(s) = n /\ Len(s) \in Nat \ {0} /\ WellWritten(s, Len(s))
  BY <1>3 DEF WellWritten
<1>4. prog = "fork" => Goal(Fork!fork)
  BY <1>3, ForkWritten
<1>5. prog = "forktest" => Goal(Fork!forktest)
  BY <1>3, ForktestWritten
<1>6. prog = "execl" => Goal(Fork!execl)
  BY <1>3, ExeclWritten
<1>7. prog = "few" => Goal(Fork!few)
  BY <1>3, FewWritten
<1>8. prog = "mysh" => Goal(Fork!mysh)
  BY <1>3, MyshWritten
<1>9. prog = "mysu" => Goal(Fork!mysu)
  BY <1>3, MysuWritten
<1>10. prog = "pipe" => Goal(Fork!pipe)
  BY <1>3, PipeWritten
<1>11. prog = "shm" => Goal(Fork!shm)
  BY <1>3, ShmWritten
<1>12. prog = "sharememory" => Goal(Fork!sharememory)
  BY <1>3, SharememoryWritten
<1> HIDE DEF Goal
<1>13. Goal(Fork!Script)
  BY <1>1, <1>2, <1>4, <1>5, <1>6, <1>7, <1>8, <1>9, <1>10, <1>11, <1>12
<1> QED
  BY <1>13 DEF Goal

\* The next statement for a process is behind the one it is at; it is for its
\* side, or there is none; and none of those between is.
LEMMA NextStatement ==
  ASSUME Fork!TypeOK, NEW p \in Fork!Pid, Fork!Runs(p), NEW side
  PROVE  LET k == Fork!After(p, side) IN
           /\ k \in stmt[p] + 1 .. Len(Fork!Script) + 1
           /\ k \in 1 .. Len(Fork!Script) => side \in Fork!Script[k].who
           /\ \A j \in stmt[p] + 1 .. k - 1 : side \notin Fork!Script[j].who
<1> DEFINE s == Fork!Script
           n == Len(s)
           Mine == {k \in stmt[p] + 1 .. n + 1 : k \in DOMAIN s => side \in s[k].who}
           R == OpToRel(<, Nat)
<1>1. n \in Nat /\ DOMAIN s = 1 .. n /\ stmt[p] \in 1 .. n
  BY ScriptWritten DEF Fork!TypeOK, Fork!Runs, WellWritten
<1>2. Mine \subseteq Nat /\ n + 1 \in Mine
  BY <1>1
<1>3. \E k \in Mine : \A j \in Mine : ~(<<j, k>> \in R)
  <2>1. IsWellFoundedOn(R, Nat)
    BY NatLessThanWellFounded
  <2> HIDE DEF R, Mine
  <2> QED
    BY <1>2, <2>1, WFMin, Zenon
<1>4. PICK k \in Mine : \A j \in Mine : k =< j
  <2>1. ASSUME NEW j \in Nat, NEW i \in Nat, ~(<<j, i>> \in R) PROVE i =< j
    BY <2>1 DEF OpToRel
  <2> HIDE DEF R, Mine
  <2>2. PICK i \in Mine : \A j \in Mine : ~(<<j, i>> \in R)
    BY <1>3
  <2>3. \A j \in Mine : i =< j
    BY <1>2, <2>1, <2>2
  <2> QED
    BY <2>3
<1>5. \A j \in stmt[p] + 1 .. k - 1 : side \notin s[j].who
  <2> SUFFICES ASSUME NEW j \in stmt[p] + 1 .. k - 1, side \in s[j].who PROVE FALSE
    OBVIOUS
  <2>1. j \in Mine
    BY <1>1
  <2> QED
    BY <1>1, <1>2, <1>4, <2>1
<1> HIDE DEF R
<1>6. \E i \in stmt[p] + 1 .. n + 1 : /\ i \in DOMAIN s => side \in s[i].who
                                      /\ \A j \in stmt[p] + 1 .. i - 1 : side \notin s[j].who
  BY <1>4, <1>5
<1> QED
  BY <1>1, <1>6 DEF Fork!After

\* A process arrives where it is copied or replaced from a statement after
\* which nothing is held back.
LEMMA BeforeCopied ==
  ASSUME Fork!TypeOK, NEW p \in Fork!Pid, Fork!Runs(p), NEW side, NEW k, k = Fork!After(p, side),
         k \in 1 .. Len(Fork!Script), Fork!Script[k].op \in Copied
  PROVE  Fork!Op(p) \in Emptied
<1> DEFINE s == Fork!Script
           n == Len(s)
<1>1. n \in Nat /\ WellWritten(s, n) /\ stmt[p] \in 1 .. n
  BY ScriptWritten DEF Fork!TypeOK, Fork!Runs, WellWritten
<1>2. /\ k \in stmt[p] + 1 .. n + 1
      /\ side \in s[k].who
      /\ \A j \in stmt[p] + 1 .. k - 1 : side \notin s[j].who
  BY NextStatement
<1>3. k - 1 \in 1 .. n /\ (k - 1) + 1 = k
  BY <1>1, <1>2
<1>4. s[k - 1].op \in Emptied /\ side \in s[k - 1].who
  BY <1>1, <1>2, <1>3 DEF WellWritten
<1>5. k - 1 = stmt[p]
  BY <1>1, <1>2, <1>3, <1>4
<1> QED
  BY <1>4, <1>5 DEF Fork!Op

\* The script is the program's.
LEMMA ScriptStays ==
  ASSUME UNCHANGED prog
  PROVE  Fork!Script' = Fork!Script /\ Fork!Text' = Fork!Text
  BY DEF Fork!Script, Fork!Text

\* Where a statement leads: ahead, and to a statement that copies or replaces
\* the process only from one after which nothing is held back.
LEMMA Moving ==
  ASSUME Fork!TypeOK, NEW p \in Fork!Pid, Fork!Runs(p),
         Fork!Proceeds(p) \/ Fork!Fails(p) \/ Fork!Moves(p, Len(Fork!Script) + 1)
  PROVE  /\ UNCHANGED <<prog, tty>>
         /\ stmt' \in [Fork!Pid -> 0 .. Len(Fork!Script) + 1]
         /\ \A q \in Fork!Pid : q # p => stmt'[q] = stmt[q]
         /\ stmt'[p] # 0
         /\ Fork!Copying(p)' => Fork!Op(p) \in Emptied
<1> DEFINE s == Fork!Script
           n == Len(s)
<1>1. n \in Nat \ {0} /\ WellWritten(s, n) /\ stmt[p] \in 1 .. n /\ DOMAIN s = 1 .. n
  BY ScriptWritten DEF Fork!TypeOK, Fork!Runs, WellWritten
<1>2. stmt \in [Fork!Pid -> 0 .. n + 1]
  BY DEF Fork!TypeOK
<1>3. s[n].op \notin Copied
  BY <1>1 DEF WellWritten, Copied
<1>4. PICK k \in 1 .. n + 1 : /\ Fork!Moves(p, k)
                              /\ k \in 1 .. n /\ s[k].op \in Copied => Fork!Op(p) \in Emptied
  <2>1. CASE Fork!Proceeds(p)
    <3> DEFINE k == Fork!After(p, Fork!Side(p))
    <3>1. k \in 1 .. n + 1
      BY <1>1, NextStatement
    <3> QED
      BY <2>1, <3>1, BeforeCopied DEF Fork!Proceeds
  <2>2. CASE Fork!Fails(p)
    BY <1>1, <1>3, <2>2 DEF Fork!Fails
  <2>3. CASE Fork!Moves(p, n + 1)
    BY <1>1, <2>3
  <2> QED
    BY <2>1, <2>2, <2>3
<1>5. UNCHANGED <<prog, tty>> /\ stmt' = [stmt EXCEPT ![p] = k]
  BY <1>4 DEF Fork!Moves
<1>6. Fork!Copying(p)' => k \in 1 .. n /\ s[k].op \in Copied
  BY <1>1, <1>2, <1>5, ScriptStays DEF Fork!Copying, Fork!Runs, Fork!Op, Copied
<1> QED
  BY <1>2, <1>4, <1>5, <1>6

\* The text of a statement.
LEMMA ArgIsText ==
  ASSUME Fork!TypeOK, NEW p \in Fork!Pid, Fork!Runs(p)
  PROVE  Fork!Arg(p) \in Fork!Text
  BY DEF Fork!Arg, Fork!Text, Fork!Runs

\* The processes one by one.
Pids == {1, 2, 3, 4}

\* They are these.
LEMMA PidIs == Fork!Pid = Pids
  BY DEF Fork!Pid, Pids

\* Four numbers add up to a number.
LEMMA SumOfFour ==
  ASSUME NEW a \in Nat, NEW b \in Nat, NEW c \in Nat, NEW d \in Nat
  PROVE  a + b + c + d \in Nat
  OBVIOUS

\* Texts held back, when one process's buffer changes.
LEMMA HeldChanges ==
  ASSUME Fork!TypeOK, NEW p \in Fork!Pid, NEW v \in Seq(Fork!Text),
         buf' = [buf EXCEPT ![p] = v], NEW x
  PROVE  /\ Fork!Held(x) \in Nat /\ Fork!Held(x)' \in Nat
         /\ Fork!Times(v, x) \in Nat /\ Fork!Times(buf[p], x) \in Nat
         /\ Fork!Held(x)' = (Fork!Held(x) - Fork!Times(buf[p], x)) + Fork!Times(v, x)
<1>1. buf \in [Pids -> Seq(Fork!Text)] /\ p \in Pids
  BY PidIs DEF Fork!TypeOK
<1>2. \A q \in Pids : Fork!Times(buf[q], x) \in Nat
  BY <1>1, TimesNat
<1>3. Fork!Times(v, x) \in Nat
  BY TimesNat
<1>4. \A q \in Pids : buf'[q] = IF q = p THEN v ELSE buf[q]
  BY <1>1
<1>5. /\ Fork!Held(x) = Fork!Times(buf[1], x) + Fork!Times(buf[2], x) + Fork!Times(buf[3], x)
                        + Fork!Times(buf[4], x)
      /\ Fork!Held(x)' = Fork!Times(buf'[1], x) + Fork!Times(buf'[2], x) + Fork!Times(buf'[3], x)
                         + Fork!Times(buf'[4], x)
  BY DEF Fork!Held, Fork!Times
<1>6. p = 1 \/ p = 2 \/ p = 3 \/ p = 4
  BY <1>1 DEF Pids
<1>7. 1 \in Pids /\ 2 \in Pids /\ 3 \in Pids /\ 4 \in Pids
  BY DEF Pids
<1> DEFINE h == [q \in Pids |-> Fork!Times(buf[q], x)]
           g == [q \in Pids |-> Fork!Times(buf'[q], x)]
<1>8. \A q \in Pids : h[q] \in Nat /\ g[q] = IF q = p THEN Fork!Times(v, x) ELSE h[q]
  BY <1>2, <1>4
<1>9. /\ Fork!Held(x) = h[1] + h[2] + h[3] + h[4]
      /\ Fork!Held(x)' = g[1] + g[2] + g[3] + g[4]
  BY <1>5, <1>7
<1>10. Fork!Times(buf[p], x) = h[p]
  BY <1>1
<1> HIDE DEF h, g
<1>11. /\ h[1] \in Nat /\ h[2] \in Nat /\ h[3] \in Nat /\ h[4] \in Nat
       /\ g[1] \in Nat /\ g[2] \in Nat /\ g[3] \in Nat /\ g[4] \in Nat
  BY <1>3, <1>7, <1>8
<1>12. g[1] + g[2] + g[3] + g[4] = ((h[1] + h[2] + h[3] + h[4]) - h[p]) + Fork!Times(v, x)
  <2>1. CASE p = 1
    <3>1. g[1] = Fork!Times(v, x) /\ h[p] = h[1]
      BY <1>7, <1>8, <2>1
    <3>2. g[2] = h[2] /\ g[3] = h[3] /\ g[4] = h[4]
      BY <1>7, <1>8, <2>1
    <3> QED
      BY <1>3, <1>11, <3>1, <3>2
  <2>2. CASE p = 2
    <3>1. g[2] = Fork!Times(v, x) /\ h[p] = h[2]
      BY <1>7, <1>8, <2>2
    <3>2. g[1] = h[1] /\ g[3] = h[3] /\ g[4] = h[4]
      BY <1>7, <1>8, <2>2
    <3> QED
      BY <1>3, <1>11, <3>1, <3>2
  <2>3. CASE p = 3
    <3>1. g[3] = Fork!Times(v, x) /\ h[p] = h[3]
      BY <1>7, <1>8, <2>3
    <3>2. g[1] = h[1] /\ g[2] = h[2] /\ g[4] = h[4]
      BY <1>7, <1>8, <2>3
    <3> QED
      BY <1>3, <1>11, <3>1, <3>2
  <2>4. CASE p = 4
    <3>1. g[4] = Fork!Times(v, x) /\ h[p] = h[4]
      BY <1>7, <1>8, <2>4
    <3>2. g[1] = h[1] /\ g[2] = h[2] /\ g[3] = h[3]
      BY <1>7, <1>8, <2>4
    <3> QED
      BY <1>3, <1>11, <3>1, <3>2
  <2> QED
    BY <1>6, <2>1, <2>2, <2>3, <2>4
<1>13. Fork!Held(x) \in Nat /\ Fork!Held(x)' \in Nat
  <2>1. h[1] + h[2] + h[3] + h[4] \in Nat
    BY <1>11, SumOfFour
  <2>2. g[1] + g[2] + g[3] + g[4] \in Nat
    BY <1>11, SumOfFour
  <2> QED
    BY <1>9, <2>1, <2>2
<1>14. Fork!Times(buf[p], x) \in Nat
  BY <1>1, <1>2
<1>15. Fork!Held(x)' = (Fork!Held(x) - Fork!Times(buf[p], x)) + Fork!Times(v, x)
  BY <1>9, <1>10, <1>12
<1> QED
  BY <1>3, <1>13, <1>14, <1>15
\* The process that moves goes on, fails or ends.
Leads(p) == Fork!Proceeds(p) \/ Fork!Fails(p) \/ Fork!Moves(p, Len(Fork!Script) + 1)

\* Nothing is held back where a process is copied or replaced, if only the
\* process that moves changes its buffer.
LEMMA CopyStep ==
  ASSUME Fork!TypeOK, Fork!NothingToCopy, NEW p \in Fork!Pid, Fork!Runs(p), Leads(p),
         \A q \in Fork!Pid : q # p => buf'[q] = buf[q],
         Fork!Op(p) \in Emptied => buf'[p] = <<>>
  PROVE  Fork!NothingToCopy'
<1>1. /\ UNCHANGED prog
      /\ \A q \in Fork!Pid : q # p => stmt'[q] = stmt[q]
      /\ stmt'[p] # 0
      /\ Fork!Copying(p)' => Fork!Op(p) \in Emptied
  BY Moving DEF Leads
<1>2. ASSUME NEW q \in Fork!Pid, q # p PROVE Fork!Copying(q)' => Fork!Copying(q)
  BY <1>1, <1>2, ScriptStays DEF Fork!Copying, Fork!Runs, Fork!Op
<1>3. ASSUME NEW q \in Fork!Pid, stmt'[q] = 0 \/ Fork!Copying(q)' PROVE buf'[q] = <<>>
  <2>1. CASE q = p
    BY <1>1, <1>3, <2>1
  <2>2. CASE q # p
    BY <1>1, <1>2, <1>3, <2>2 DEF Fork!NothingToCopy
  <2> QED
    BY <2>1, <2>2
<1> QED
  BY <1>3 DEF Fork!NothingToCopy

\* What is printed is written or held back.
LEMMA PrintsCounted ==
  ASSUME Fork!TypeOK, NEW p \in Fork!Pid, UNCHANGED prog,
         NEW y \in Fork!Text, NEW flush \in BOOLEAN, Fork!Prints(p, y, flush)
  PROVE  /\ Fork!AllCounted => Fork!AllCounted'
         /\ buf' \in [Fork!Pid -> Seq(Fork!Text)] /\ \A q \in Fork!Pid : q # p => buf'[q] = buf[q]
         /\ out' \in Seq(Fork!Text) /\ printed' \in Seq(Fork!Text)
<1>1. /\ buf \in [Fork!Pid -> Seq(Fork!Text)]
      /\ out \in Seq(Fork!Text) /\ printed \in Seq(Fork!Text)
      /\ buf[p] \in Seq(Fork!Text)
  BY DEF Fork!TypeOK
<1>2. printed' = Append(printed, y) /\ printed' \in Seq(Fork!Text)
  BY <1>1, AppendProperties DEF Fork!Prints
<1>3. PICK v \in Seq(Fork!Text) :
        /\ buf' = [buf EXCEPT ![p] = v] /\ out' \in Seq(Fork!Text)
        /\ \A x : Fork!Times(out', x) + Fork!Times(v, x)
                    = ((Fork!Times(out, x) + Fork!Times(buf[p], x)) + (IF y = x THEN 1 ELSE 0))
  <2>1. CASE flush
    <3>1. out' = Append(out \o buf[p], y) /\ buf' = [buf EXCEPT ![p] = <<>>]
      BY <2>1 DEF Fork!Prints
    <3>2. out \o buf[p] \in Seq(Fork!Text) /\ out' \in Seq(Fork!Text) /\ <<>> \in Seq(Fork!Text)
      BY <1>1, <3>1, ConcatProperties, AppendProperties, EmptySeq
    <3>3. ASSUME NEW x
          PROVE  /\ Fork!Times(out', x) = Fork!Times(out \o buf[p], x) + (IF y = x THEN 1 ELSE 0)
                 /\ Fork!Times(out \o buf[p], x) = Fork!Times(out, x) + Fork!Times(buf[p], x)
                 /\ Fork!Times(<<>>, x) = 0
                 /\ Fork!Times(out, x) \in Nat /\ Fork!Times(buf[p], x) \in Nat
      <4>1. Fork!Times(out', x) = Fork!Times(out \o buf[p], x) + (IF y = x THEN 1 ELSE 0)
        <5> DEFINE w == out \o buf[p]
        <5>1. w \in Seq(Fork!Text) /\ out' = Append(w, y)
          BY <3>1, <3>2
        <5> HIDE DEF w
        <5>2. Fork!Times(Append(w, y), x) = Fork!Times(w, x) + (IF y = x THEN 1 ELSE 0)
          BY <5>1, TimesAppended
        <5> QED
          BY <5>1, <5>2 DEF w
      <4>2. Fork!Times(out \o buf[p], x) = Fork!Times(out, x) + Fork!Times(buf[p], x)
        BY <1>1, TimesJoined
      <4>3. Fork!Times(out, x) \in Nat /\ Fork!Times(buf[p], x) \in Nat
        BY <1>1, TimesNat
      <4> QED
        BY <4>1, <4>2, <4>3, TimesEmpty
    <3>4. ASSUME NEW x
          PROVE  Fork!Times(out', x) + Fork!Times(<<>>, x)
                   = ((Fork!Times(out, x) + Fork!Times(buf[p], x)) + (IF y = x THEN 1 ELSE 0))
      BY <3>3
    <3> QED
      BY <3>1, <3>2, <3>4
  <2>2. CASE ~flush
    <3>1. out' = out /\ buf' = [buf EXCEPT ![p] = Append(buf[p], y)]
      BY <1>1, <2>2 DEF Fork!Prints
    <3>2. Append(buf[p], y) \in Seq(Fork!Text)
      BY <1>1, AppendProperties
    <3>3. ASSUME NEW x
          PROVE  /\ Fork!Times(Append(buf[p], y), x) = Fork!Times(buf[p], x) + (IF y = x THEN 1 ELSE 0)
                 /\ Fork!Times(out, x) \in Nat /\ Fork!Times(buf[p], x) \in Nat
      <4>1. Fork!Times(Append(buf[p], y), x) = Fork!Times(buf[p], x) + (IF y = x THEN 1 ELSE 0)
        BY <1>1, TimesAppended
      <4>2. Fork!Times(out, x) \in Nat /\ Fork!Times(buf[p], x) \in Nat
        BY <1>1, TimesNat
      <4> QED
        BY <4>1, <4>2
    <3>4. ASSUME NEW x
          PROVE  Fork!Times(out', x) + Fork!Times(Append(buf[p], y), x)
                   = ((Fork!Times(out, x) + Fork!Times(buf[p], x)) + (IF y = x THEN 1 ELSE 0))
      BY <3>1, <3>3
    <3> QED
      BY <1>1, <3>1, <3>2, <3>4
  <2> QED
    BY <2>1, <2>2
<1>4. ASSUME Fork!AllCounted, NEW x \in Fork!Text
      PROVE  Fork!Times(out', x) + Fork!Held(x)' = Fork!Times(printed', x)
  <2>1. Fork!Times(printed', x) = Fork!Times(printed, x) + (IF y = x THEN 1 ELSE 0)
    BY <1>1, <1>2, TimesAppended
  <2>2. Fork!Times(out, x) + Fork!Held(x) = Fork!Times(printed, x)
    BY <1>4 DEF Fork!AllCounted
  <2>3. /\ Fork!Held(x) \in Nat /\ Fork!Held(x)' \in Nat
        /\ Fork!Times(v, x) \in Nat /\ Fork!Times(buf[p], x) \in Nat
        /\ Fork!Held(x)' = (Fork!Held(x) - Fork!Times(buf[p], x)) + Fork!Times(v, x)
    BY <1>3, HeldChanges
  <2>4. Fork!Times(out, x) \in Nat /\ Fork!Times(out', x) \in Nat /\ Fork!Times(printed, x) \in Nat
    BY <1>1, <1>3, TimesNat
  <2>5. Fork!Times(out', x) + Fork!Times(v, x)
                    = ((Fork!Times(out, x) + Fork!Times(buf[p], x)) + (IF y = x THEN 1 ELSE 0))
    BY <1>3
  <2> QED
    BY <2>1, <2>2, <2>3, <2>4, <2>5
<1>5. Fork!AllCounted => Fork!AllCounted'
  BY <1>4, ScriptStays DEF Fork!AllCounted, Fork!Times
<1>6. buf' \in [Fork!Pid -> Seq(Fork!Text)] /\ \A q \in Fork!Pid : q # p => buf'[q] = buf[q]
  BY <1>1, <1>3
<1> QED
  BY <1>2, <1>3, <1>5, <1>6

\* fflush writes what is held back.
LEMMA WritesCounted ==
  ASSUME Fork!TypeOK, NEW p \in Fork!Pid, UNCHANGED prog, Fork!Writes(p)
  PROVE  /\ buf'[p] = <<>> /\ (Fork!AllCounted => Fork!AllCounted')
         /\ buf' \in [Fork!Pid -> Seq(Fork!Text)] /\ \A q \in Fork!Pid : q # p => buf'[q] = buf[q]
         /\ out' \in Seq(Fork!Text) /\ printed' \in Seq(Fork!Text)
<1>1. /\ buf \in [Fork!Pid -> Seq(Fork!Text)]
      /\ out \in Seq(Fork!Text) /\ printed \in Seq(Fork!Text)
      /\ buf[p] \in Seq(Fork!Text) /\ <<>> \in Seq(Fork!Text)
  BY EmptySeq DEF Fork!TypeOK
<1>2. out' = out \o buf[p] /\ buf' = [buf EXCEPT ![p] = <<>>] /\ printed' = printed
  BY DEF Fork!Writes
<1>3. out' \in Seq(Fork!Text)
  BY <1>1, <1>2, ConcatProperties
<1>4. ASSUME Fork!AllCounted, NEW x \in Fork!Text
      PROVE  Fork!Times(out', x) + Fork!Held(x)' = Fork!Times(printed', x)
  <2>1. Fork!Times(out, x) + Fork!Held(x) = Fork!Times(printed, x)
    BY <1>4 DEF Fork!AllCounted
  <2>2. /\ Fork!Held(x) \in Nat /\ Fork!Held(x)' \in Nat
        /\ Fork!Times(<<>>, x) = 0 /\ Fork!Times(buf[p], x) \in Nat
        /\ Fork!Held(x)' = (Fork!Held(x) - Fork!Times(buf[p], x)) + Fork!Times(<<>>, x)
    BY <1>1, <1>2, HeldChanges, TimesEmpty
  <2>3. /\ Fork!Times(out, x) \in Nat /\ Fork!Times(printed', x) = Fork!Times(printed, x)
        /\ Fork!Times(out', x) = Fork!Times(out, x) + Fork!Times(buf[p], x)
    <3>1. Fork!Times(out', x) = Fork!Times(out, x) + Fork!Times(buf[p], x)
      BY <1>1, <1>2, TimesJoined
    <3>2. Fork!Times(out, x) \in Nat
      BY <1>1, TimesNat
    <3> QED
      BY <1>2, <3>1, <3>2
  <2> QED
    BY <2>1, <2>2, <2>3
<1>5. Fork!AllCounted => Fork!AllCounted'
  BY <1>4, ScriptStays DEF Fork!AllCounted, Fork!Times
<1> QED
  BY <1>1, <1>2, <1>3, <1>5

\* Text that stdio does not hold back; the speaker may lose an empty buffer.
LEMMA SaysCounted ==
  ASSUME Fork!TypeOK, UNCHANGED <<prog, buf>>,
         NEW y \in Fork!Text, Fork!Says(y)
  PROVE  /\ Fork!AllCounted => Fork!AllCounted'
         /\ out' \in Seq(Fork!Text) /\ printed' \in Seq(Fork!Text)
<1>1. out \in Seq(Fork!Text) /\ printed \in Seq(Fork!Text) /\ buf \in [Fork!Pid -> Seq(Fork!Text)]
  BY DEF Fork!TypeOK
<1>2. out' = Append(out, y) /\ printed' = Append(printed, y)
  BY DEF Fork!Says
<1>3. ASSUME Fork!AllCounted, NEW x \in Fork!Text
      PROVE  Fork!Times(out', x) + Fork!Held(x)' = Fork!Times(printed', x)
  <2>1. Fork!Times(out, x) + Fork!Held(x) = Fork!Times(printed, x)
    BY <1>3 DEF Fork!AllCounted
  <2>2. Fork!Held(x) \in Nat /\ Fork!Held(x)' = Fork!Held(x)
    <3>1. 1 \in Fork!Pid /\ buf[1] \in Seq(Fork!Text) /\ buf' = [buf EXCEPT ![1] = buf[1]]
      BY <1>1 DEF Fork!Pid
    <3>2. Fork!Held(x) \in Nat
      BY <3>1, HeldChanges
    <3>3. Fork!Held(x)' = Fork!Held(x)
      BY DEF Fork!Held, Fork!Times
    <3> QED
      BY <3>2, <3>3
  <2>3. /\ Fork!Times(out, x) \in Nat /\ Fork!Times(printed, x) \in Nat
        /\ Fork!Times(out', x) = Fork!Times(out, x) + (IF y = x THEN 1 ELSE 0)
        /\ Fork!Times(printed', x) = Fork!Times(printed, x) + (IF y = x THEN 1 ELSE 0)
    <3>1. Fork!Times(out, x) \in Nat /\ Fork!Times(printed, x) \in Nat
      BY <1>1, TimesNat
    <3>2. Fork!Times(out', x) = Fork!Times(out, x) + (IF y = x THEN 1 ELSE 0)
      BY <1>1, <1>2, TimesAppended
    <3>3. Fork!Times(printed', x) = Fork!Times(printed, x) + (IF y = x THEN 1 ELSE 0)
      BY <1>1, <1>2, TimesAppended
    <3> QED
      BY <3>1, <3>2, <3>3
  <2> QED
    BY <2>1, <2>2, <2>3
<1>4. Fork!AllCounted => Fork!AllCounted'
  BY <1>3, ScriptStays DEF Fork!AllCounted, Fork!Times
<1> QED
  BY <1>1, <1>2, <1>4, AppendProperties

\* What is held back and counted, and of which runs that is claimed.
Once == Fork!NothingToCopy /\ Fork!AllCounted
Counts == prog = "mysh" => tty

\* What a step of the one process leaves alone.
LEMMA StepShape ==
  ASSUME Fork!TypeOK, NEW p \in Fork!Pid, Fork!Runs(p), Leads(p),
         UNCHANGED parent, waited' \subseteq Fork!Pid,
         buf' \in [Fork!Pid -> Seq(Fork!Text)], shared' \in Fork!Text,
         out' \in Seq(Fork!Text), printed' \in Seq(Fork!Text)
  PROVE  Fork!TypeOK'
<1>1. UNCHANGED <<prog, tty>> /\ stmt' \in [Fork!Pid -> 0 .. Len(Fork!Script) + 1]
  BY Moving DEF Leads
<1> QED
  BY <1>1, ScriptStays DEF Fork!TypeOK, Fork!Pid

\* stdio keeps what it is given, or writes it.
LEMMA StdioStep ==
  ASSUME Fork!TypeOK, NEW p \in Fork!Pid, Fork!Runs(p), Fork!Stdio(p)
  PROVE  Fork!TypeOK' /\ (Counts /\ Once => Once')
<1>1. /\ buf \in [Fork!Pid -> Seq(Fork!Text)]
      /\ shared \in Fork!Text /\ waited \subseteq Fork!Pid
      /\ out \in Seq(Fork!Text) /\ printed \in Seq(Fork!Text) /\ tty \in BOOLEAN
      /\ UNCHANGED <<parent, waited, shared>>
  BY DEF Fork!TypeOK, Fork!Stdio
<1>2. Leads(p)
  BY DEF Fork!Stdio, Leads
<1>3. UNCHANGED prog
  BY <1>2, Moving DEF Leads
<1>4. ASSUME NEW y \in Fork!Text, NEW flush \in BOOLEAN, Fork!Prints(p, y, flush),
             Fork!Op(p) \in {"printf", "puts", "load", "load or not"}
      PROVE  Fork!TypeOK' /\ (Counts /\ Once => Once')
  <2>1. /\ Fork!AllCounted => Fork!AllCounted'
        /\ buf' \in [Fork!Pid -> Seq(Fork!Text)] /\ \A q \in Fork!Pid : q # p => buf'[q] = buf[q]
        /\ out' \in Seq(Fork!Text) /\ printed' \in Seq(Fork!Text)
    BY <1>3, <1>4, PrintsCounted
  <2>2. Fork!NothingToCopy => Fork!NothingToCopy'
    BY <1>2, <1>4, <2>1, CopyStep DEF Emptied
  <2> QED
    BY <1>1, <1>2, <2>1, <2>2, StepShape DEF Once
<1>5. ASSUME Fork!Writes(p), Fork!Op(p) \in {"fflush", "getline"}
      PROVE  Fork!TypeOK' /\ (Counts /\ Once => Once')
  <2>1. /\ buf'[p] = <<>> /\ (Fork!AllCounted => Fork!AllCounted')
        /\ buf' \in [Fork!Pid -> Seq(Fork!Text)] /\ \A q \in Fork!Pid : q # p => buf'[q] = buf[q]
        /\ out' \in Seq(Fork!Text) /\ printed' \in Seq(Fork!Text)
    BY <1>3, <1>5, WritesCounted
  <2>2. ASSUME Fork!NothingToCopy PROVE Fork!NothingToCopy'
    BY <1>2, <2>1, <2>2, CopyStep
  <2> QED
    BY <1>1, <1>2, <2>1, <2>2, StepShape DEF Once
<1>6. CASE Fork!Op(p) = "printf"
  <2>1. Fork!Prints(p, Fork!Arg(p), FALSE)
    BY <1>6 DEF Fork!Stdio
  <2> QED
    BY <1>4, <1>6, <2>1, ArgIsText
<1>7. CASE Fork!Op(p) = "puts"
  <2>1. Fork!Prints(p, Fork!Arg(p), tty)
    BY <1>7 DEF Fork!Stdio
  <2> QED
    BY <1>1, <1>4, <1>7, <2>1, ArgIsText
<1>8. CASE Fork!Op(p) \in {"load", "load or not"}
  <2>1. Fork!Prints(p, shared, tty)
    BY <1>8 DEF Fork!Stdio
  <2> QED
    BY <1>1, <1>4, <1>8, <2>1
<1>9. CASE Fork!Op(p) = "fflush"
  BY <1>5, <1>9 DEF Fork!Stdio
<1>10. CASE Fork!Op(p) = "getline" /\ tty
  BY <1>5, <1>10 DEF Fork!Stdio
<1>11. CASE Fork!Op(p) = "getline" /\ ~tty
  <2>1. UNCHANGED <<buf, out, printed>>
    BY <1>11 DEF Fork!Stdio
  <2>2. prog = "mysh"
    <3>1. stmt[p] \in 1 .. Len(Fork!Script) /\ Fork!Script[stmt[p]].op = "getline"
      BY <1>11, ScriptWritten DEF Fork!Op, Fork!Runs, Fork!TypeOK, WellWritten
    <3> QED
      BY <3>1, ScriptWritten DEF Shell, Fork!TypeOK
  <2> QED
    BY <1>1, <1>2, <1>11, <2>1, <2>2, StepShape DEF Counts
<1> QED
  BY <1>6, <1>7, <1>8, <1>9, <1>10, <1>11 DEF Fork!Stdio

\* A step that leaves the buffers alone: fork or exec failed, or a wait.
LEMMA NoForkStep ==
  ASSUME Fork!TypeOK, NEW p \in Fork!Pid, Fork!Runs(p), Leads(p),
         Fork!Op(p) \in Copied \/ Fork!Op(p) \notin Emptied,
         waited' \subseteq Fork!Pid, UNCHANGED <<parent, buf, shared, out, printed>>
  PROVE  Fork!TypeOK' /\ (Once => Once')
<1>1. UNCHANGED prog
  BY Moving DEF Leads
<1>2. Fork!TypeOK'
  BY StepShape DEF Fork!TypeOK
<1>3. ASSUME Fork!NothingToCopy PROVE Fork!NothingToCopy'
  <2>1. Fork!Op(p) \in Emptied => buf'[p] = <<>>
    BY <1>3 DEF Fork!NothingToCopy, Fork!Copying, Copied
  <2> QED
    BY <1>3, <2>1, CopyStep
<1>4. Fork!AllCounted => Fork!AllCounted'
  BY <1>1, ScriptStays DEF Fork!AllCounted, Fork!Times, Fork!Held
<1> QED
  BY <1>2, <1>3, <1>4 DEF Once

\* The child gets a copy of an empty buffer, and neither is where it would be
\* copied again unless it is empty.
LEMMA ForksStep ==
  ASSUME Fork!TypeOK, NEW p \in Fork!Pid, Fork!Runs(p), Fork!Forks(p)
  PROVE  Fork!TypeOK' /\ (Once => Once')
<1> DEFINE n == Len(Fork!Script)
<1>1. Fork!Op(p) \in Copied /\ Fork!Op(p) \in Emptied
  BY DEF Fork!Forks, Copied, Emptied
<1>2. CASE UNCHANGED <<parent, buf>> /\ (Fork!Fails(p) \/ Fork!Proceeds(p))
  BY <1>1, <1>2, NoForkStep DEF Fork!Forks, Leads, Fork!TypeOK
<1>3. ASSUME NEW q \in Fork!Unborn,
             stmt' = [stmt EXCEPT ![q] = Fork!After(p, "child"), ![p] = Fork!After(p, Fork!Side(p))],
             parent' = [parent EXCEPT ![q] = p],
             buf' = [buf EXCEPT ![q] = buf[p]], UNCHANGED <<prog, tty>>
      PROVE  Fork!TypeOK' /\ (Once => Once')
  <2>1. /\ buf \in [Fork!Pid -> Seq(Fork!Text)] /\ stmt \in [Fork!Pid -> 0 .. n + 1]
        /\ parent \in [Fork!Pid -> 0 .. 4] /\ n \in Nat /\ stmt[p] \in 1 .. n
        /\ UNCHANGED <<waited, shared, out, printed>>
    BY ScriptWritten DEF Fork!TypeOK, Fork!Forks, Fork!Runs, WellWritten
  <2>2. q \in Fork!Pid /\ stmt[q] = 0 /\ q # p
    BY <2>1 DEF Fork!Unborn
  <2>3. Fork!After(p, "child") \in 1 .. n + 1 /\ Fork!After(p, Fork!Side(p)) \in 1 .. n + 1
    BY <2>1, NextStatement
  <2>4. Fork!TypeOK'
    <3>1. p \in 0 .. 4
      BY DEF Fork!Pid
    <3>2. stmt' \in [Fork!Pid -> 0 .. n + 1] /\ parent' \in [Fork!Pid -> 0 .. 4]
          /\ buf' \in [Fork!Pid -> Seq(Fork!Text)]
      <4>4. PICK a \in 0 .. n + 1, b \in 0 .. n + 1 : stmt' = [stmt EXCEPT ![q] = a, ![p] = b]
        <5> HIDE DEF n
        <5>1. Fork!After(p, "child") \in 0 .. n + 1 /\ Fork!After(p, Fork!Side(p)) \in 0 .. n + 1
          BY <2>1, <2>3
        <5> QED
          BY <1>3, <5>1
      <4>1. stmt' \in [Fork!Pid -> 0 .. n + 1]
        <5> HIDE DEF n
        <5> QED
          BY <2>1, <2>2, <4>4
      <4>2. parent' \in [Fork!Pid -> 0 .. 4]
        BY <1>3, <2>1, <2>2, <3>1
      <4>3. buf' \in [Fork!Pid -> Seq(Fork!Text)]
        BY <1>3, <2>1, <2>2
      <4> QED
        BY <4>1, <4>2, <4>3
    <3> QED
      BY <1>3, <2>1, <3>2, ScriptStays DEF Fork!TypeOK, Fork!Pid
  <2>5. ASSUME Once PROVE Once'
    <3>1. buf[p] = <<>> /\ buf[q] = <<>>
      BY <1>1, <2>2, <2>5 DEF Once, Fork!NothingToCopy, Fork!Copying, Copied
    <3>2. buf' = buf
      BY <1>3, <2>1, <2>2, <3>1
    <3>3. Fork!NothingToCopy'
      <4>1. ASSUME NEW r \in Fork!Pid, r # p, r # q
            PROVE  stmt'[r] = stmt[r] /\ (Fork!Copying(r)' => Fork!Copying(r))
        BY <1>3, <2>1, <4>1, ScriptStays DEF Fork!Copying, Fork!Runs, Fork!Op
      <4> QED
        BY <2>5, <3>1, <3>2, <4>1 DEF Once, Fork!NothingToCopy
    <3>4. Fork!AllCounted'
      <4>1. UNCHANGED <<prog, buf, out, printed>>
        BY <1>3, <2>1, <3>2
      <4> QED
        BY <2>5, <4>1, ScriptStays DEF Once, Fork!AllCounted, Fork!Times, Fork!Held
    <3> QED
      BY <3>3, <3>4 DEF Once
  <2> QED
    BY <2>4, <2>5
<1> QED
  BY <1>2, <1>3 DEF Fork!Forks

\* exec finds an empty buffer to drop.
LEMMA ExecsStep ==
  ASSUME Fork!TypeOK, NEW p \in Fork!Pid, Fork!Runs(p), Fork!Execs(p)
  PROVE  Fork!TypeOK' /\ (Once => Once')
<1>1. Fork!Op(p) \in Copied /\ Fork!Op(p) \notin Emptied /\ Leads(p)
  BY DEF Fork!Execs, Copied, Emptied, Leads
<1>2. CASE Fork!Proceeds(p) /\ UNCHANGED <<buf, out, printed>>
  BY <1>1, <1>2, NoForkStep DEF Fork!Execs, Fork!TypeOK
<1>3. CASE Fork!Says(Fork!Arg(p)) /\ buf' = [buf EXCEPT ![p] = <<>>]
  <2>1. UNCHANGED <<prog, parent, waited, shared>>
    BY <1>1, Moving DEF Leads, Fork!Execs
  <2>2. buf \in [Fork!Pid -> Seq(Fork!Text)]
        /\ out \in Seq(Fork!Text) /\ printed \in Seq(Fork!Text)
    BY DEF Fork!TypeOK
  <2>3. buf' \in [Fork!Pid -> Seq(Fork!Text)]
    BY <1>3, <2>2, EmptySeq
  <2>4. out' \in Seq(Fork!Text) /\ printed' \in Seq(Fork!Text)
    BY <1>3, <2>2, ArgIsText, AppendProperties DEF Fork!Says
  <2>5. Fork!TypeOK'
    BY <1>1, <2>1, <2>3, <2>4, StepShape DEF Fork!TypeOK
  <2>6. ASSUME Once PROVE Once'
    <3>1. buf' = buf
      BY <1>1, <1>3, <2>2, <2>6 DEF Once, Fork!NothingToCopy, Fork!Copying, Copied
    <3>2. Fork!AllCounted'
      BY <1>3, <2>1, <2>6, <3>1, ArgIsText, SaysCounted DEF Once
    <3>3. Fork!NothingToCopy'
      BY <1>1, <2>6, <3>1, CopyStep DEF Once
    <3> QED
      BY <3>2, <3>3 DEF Once
  <2> QED
    BY <2>5, <2>6
<1> QED
  BY <1>2, <1>3 DEF Fork!Execs

\* A wait prints nothing.
LEMMA WaitsStep ==
  ASSUME Fork!TypeOK, NEW p \in Fork!Pid, Fork!Runs(p), Fork!Waits(p)
  PROVE  Fork!TypeOK' /\ (Once => Once')
<1>1. Fork!Op(p) \notin Emptied /\ Leads(p)
  BY DEF Fork!Waits, Emptied, Leads
<1>2. waited' \subseteq Fork!Pid /\ UNCHANGED <<parent, buf, shared, out, printed>>
  BY DEF Fork!Waits, Fork!TypeOK
<1> QED
  BY <1>1, <1>2, NoForkStep

\* What is handed over does not go through stdio.
LEMMA HandsStep ==
  ASSUME Fork!TypeOK, NEW p \in Fork!Pid, Fork!Runs(p), Fork!Hands(p)
  PROVE  Fork!TypeOK' /\ (Once => Once')
<1>1. Fork!Op(p) \notin Emptied /\ Leads(p)
  BY DEF Fork!Hands, Emptied, Leads
<1>2. UNCHANGED <<prog, parent, waited, buf>>
  BY <1>1, Moving DEF Leads, Fork!Hands
<1>3. /\ buf \in [Fork!Pid -> Seq(Fork!Text)] /\ waited \subseteq Fork!Pid
      /\ out \in Seq(Fork!Text) /\ printed \in Seq(Fork!Text) /\ shared \in Fork!Text
      /\ "shmat()" \in Fork!Text /\ Fork!Arg(p) \in Fork!Text
  BY ArgIsText DEF Fork!TypeOK, Fork!Text
<1>4. shared' \in Fork!Text
  BY <1>3 DEF Fork!Hands
<1>5. CASE UNCHANGED <<out, printed>>
  BY <1>1, <1>2, <1>3, <1>4, <1>5, StepShape, CopyStep, ScriptStays
     DEF Once, Fork!AllCounted, Fork!Times, Fork!Held
<1>6. ASSUME NEW y \in Fork!Text, Fork!Says(y) PROVE Fork!TypeOK' /\ (Once => Once')
  <2>1. /\ Fork!AllCounted => Fork!AllCounted'
        /\ out' \in Seq(Fork!Text) /\ printed' \in Seq(Fork!Text)
    BY <1>2, <1>6, SaysCounted
  <2>2. Fork!NothingToCopy => Fork!NothingToCopy'
    BY <1>1, <1>2, CopyStep
  <2> QED
    BY <1>1, <1>2, <1>3, <1>4, <2>1, <2>2, StepShape DEF Once
<1> QED
  BY <1>3, <1>5, <1>6 DEF Fork!Hands

\* exit writes what is held back.
LEMMA ExitsStep ==
  ASSUME Fork!TypeOK, NEW p \in Fork!Pid, Fork!Runs(p), Fork!Exits(p)
  PROVE  Fork!TypeOK' /\ (Once => Once')
<1>1. Leads(p)
  BY DEF Fork!Exits, Leads
<1>2. UNCHANGED <<prog, parent, waited, shared>>
  BY <1>1, Moving DEF Leads, Fork!Exits
<1>3. /\ buf'[p] = <<>> /\ (Fork!AllCounted => Fork!AllCounted')
      /\ buf' \in [Fork!Pid -> Seq(Fork!Text)] /\ \A q \in Fork!Pid : q # p => buf'[q] = buf[q]
      /\ out' \in Seq(Fork!Text) /\ printed' \in Seq(Fork!Text)
  BY <1>2, WritesCounted DEF Fork!Exits
<1>4. ASSUME Fork!NothingToCopy PROVE Fork!NothingToCopy'
  BY <1>1, <1>3, <1>4, CopyStep
<1> QED
  BY <1>1, <1>2, <1>3, <1>4, StepShape DEF Once, Fork!TypeOK

\* Every step of a program keeps the types, the counts and the program.
LEMMA ProcsCounted ==
  ASSUME Fork!TypeOK, Fork!Next
  PROVE  Fork!TypeOK' /\ (Counts /\ Once => Once') /\ UNCHANGED <<prog, tty>>
<1>1. PICK p \in Fork!Pid : Fork!Runs(p) /\ \/ Fork!Stdio(p) \/ Fork!Forks(p) \/ Fork!Execs(p)
                                            \/ Fork!Waits(p) \/ Fork!Hands(p) \/ Fork!Exits(p)
  BY DEF Fork!Next
<1>2. Fork!TypeOK' /\ (Counts /\ Once => Once')
  BY <1>1, StdioStep, ForksStep, ExecsStep, WaitsStep, HandsStep, ExitsStep
<1>3. UNCHANGED <<prog, tty>>
  BY <1>1 DEF Fork!Stdio, Fork!Forks, Fork!Execs, Fork!Waits, Fork!Hands, Fork!Exits,
              Fork!Proceeds, Fork!Fails, Fork!Moves
<1> QED
  BY <1>2, <1>3

\* The three programs that hand a text over.
Handers == {"pipe", "shm", "sharememory"}

\* Their scripts, statement by statement.
LEMMA HanderScripts ==
  ASSUME prog \in Handers
  PROVE  LET s == Fork!Script IN
         /\ Len(s) = 6 /\ DOMAIN s = 1 .. 6
         /\ s[1].who = {"child", "parent"} /\ s[2].who = {"child"} /\ s[3].who = {"child"}
         /\ s[4].who = {"parent"} /\ s[5].who = {"parent"} /\ s[6].who = {"child", "parent"}
         /\ s[1].op = "fork" /\ s[3].op = "exit" /\ s[6].op = "exit"
         /\ prog = "pipe" => /\ s[2].op = "read" /\ s[4].op = "store" /\ s[5].op = "wait"
                             /\ s[4].x = "Hello!"
         /\ prog = "shm" => /\ s[2].op = "store or not" /\ s[4].op = "wait" /\ s[5].op = "load or not"
                            /\ s[2].x = "Hello!"
         /\ prog = "sharememory" => /\ s[2].op = "store" /\ s[4].op = "wait" /\ s[5].op = "load"
                                    /\ s[2].x = "hello!"
<1>1. CASE prog = "pipe"
  <2>1. Fork!Script = Fork!pipe
    BY <1>1 DEF Fork!Script, Fork!Programs
  <2> DEFINE s == Fork!Script
  <2>2. Len(s) = 6 /\ DOMAIN s = 1 .. 6
    BY <2>1, PipeWritten DEF WellWritten
  <2>3. /\ s[1].who = {"child", "parent"} /\ s[2].who = {"child"} /\ s[3].who = {"child"}
        /\ s[4].who = {"parent"} /\ s[5].who = {"parent"} /\ s[6].who = {"child", "parent"}
    BY <2>1 DEF Fork!pipe, Fork!Fork, Fork!Wait, Fork!Exit, Fork!Both, Fork!Child, Fork!Parent
  <2>4. s[1].op = "fork" /\ s[3].op = "exit" /\ s[6].op = "exit"
    BY <2>1 DEF Fork!pipe, Fork!Fork, Fork!Wait, Fork!Exit, Fork!Both, Fork!Child, Fork!Parent
  <2>5. s[2].op = "read" /\ s[4].op = "store" /\ s[5].op = "wait" /\ s[4].x = "Hello!"
    BY <2>1 DEF Fork!pipe, Fork!Fork, Fork!Wait, Fork!Exit, Fork!Both, Fork!Child, Fork!Parent
  <2> QED
    BY <1>1, <2>2, <2>3, <2>4, <2>5
<1>2. CASE prog = "shm"
  <2>1. Fork!Script = Fork!shm
    BY <1>2 DEF Fork!Script, Fork!Programs
  <2> DEFINE s == Fork!Script
  <2>2. Len(s) = 6 /\ DOMAIN s = 1 .. 6
    BY <2>1, ShmWritten DEF WellWritten
  <2>3. /\ s[1].who = {"child", "parent"} /\ s[2].who = {"child"} /\ s[3].who = {"child"}
        /\ s[4].who = {"parent"} /\ s[5].who = {"parent"} /\ s[6].who = {"child", "parent"}
    BY <2>1 DEF Fork!shm, Fork!Fork, Fork!Wait, Fork!Exit, Fork!Both, Fork!Child, Fork!Parent
  <2>4. s[1].op = "fork" /\ s[3].op = "exit" /\ s[6].op = "exit"
    BY <2>1 DEF Fork!shm, Fork!Fork, Fork!Wait, Fork!Exit, Fork!Both, Fork!Child, Fork!Parent
  <2>5. s[2].op = "store or not" /\ s[4].op = "wait" /\ s[5].op = "load or not" /\ s[2].x = "Hello!"
    BY <2>1 DEF Fork!shm, Fork!Fork, Fork!Wait, Fork!Exit, Fork!Both, Fork!Child, Fork!Parent
  <2> QED
    BY <1>2, <2>2, <2>3, <2>4, <2>5
<1>3. CASE prog = "sharememory"
  <2>1. Fork!Script = Fork!sharememory
    BY <1>3 DEF Fork!Script, Fork!Programs
  <2> DEFINE s == Fork!Script
  <2>2. Len(s) = 6 /\ DOMAIN s = 1 .. 6
    BY <2>1, SharememoryWritten DEF WellWritten
  <2>3. /\ s[1].who = {"child", "parent"} /\ s[2].who = {"child"} /\ s[3].who = {"child"}
        /\ s[4].who = {"parent"} /\ s[5].who = {"parent"} /\ s[6].who = {"child", "parent"}
    BY <2>1 DEF Fork!sharememory, Fork!Fork, Fork!Wait, Fork!Exit, Fork!Both, Fork!Child,
                Fork!Parent
  <2>4. s[1].op = "fork" /\ s[3].op = "exit" /\ s[6].op = "exit"
    BY <2>1 DEF Fork!sharememory, Fork!Fork, Fork!Wait, Fork!Exit, Fork!Both, Fork!Child,
                Fork!Parent
  <2>5. s[2].op = "store" /\ s[4].op = "wait" /\ s[5].op = "load" /\ s[2].x = "hello!"
    BY <2>1 DEF Fork!sharememory, Fork!Fork, Fork!Wait, Fork!Exit, Fork!Both, Fork!Child,
                Fork!Parent
  <2> QED
    BY <1>3, <2>2, <2>3, <2>4, <2>5
<1> QED
  BY <1>1, <1>2, <1>3 DEF Handers

\* Which of their processes is where, and where it goes.
LEMMA HandersGo ==
  ASSUME prog \in Handers, Fork!TypeOK, Fork!OneChild, NEW p \in Fork!Pid, Fork!Runs(p)
  PROVE  /\ \/ p = 1 /\ stmt[p] \in {1, 4, 5, 6} /\ Fork!Side(p) = "parent"
            \/ p = 2 /\ stmt[p] \in {2, 3, 6} /\ Fork!Side(p) = "child"
         /\ stmt[p] = 1 => Fork!After(p, "child") = 2 /\ Fork!After(p, Fork!Side(p)) = 4
         /\ stmt[p] = 2 => Fork!After(p, Fork!Side(p)) = 3
         /\ stmt[p] = 4 => Fork!After(p, Fork!Side(p)) = 5
         /\ stmt[p] = 5 => Fork!After(p, Fork!Side(p)) = 6
<1> DEFINE k == Fork!After(p, Fork!Side(p))
           c == Fork!After(p, "child")
           s == Fork!Script
<1>1. stmt[p] \in 1 .. 6
  BY HanderScripts DEF Fork!Runs
<1>2. /\ p = 1 \/ p = 2
      /\ p = 1 => stmt[p] \in {1, 4, 5, 6} /\ Fork!Side(p) = "parent"
      /\ p = 2 => stmt[p] \in {2, 3, 6} /\ Fork!Side(p) = "child"
  BY <1>1 DEF Fork!OneChild, Fork!Side, Fork!Pid
<1> Len(s) = 6
  BY HanderScripts
<1>3. /\ k \in stmt[p] + 1 .. 7
      /\ k \in 1 .. 6 => Fork!Side(p) \in s[k].who
      /\ \A j \in stmt[p] + 1 .. k - 1 : Fork!Side(p) \notin s[j].who
  BY NextStatement
<1>4. /\ c \in stmt[p] + 1 .. 7
      /\ c \in 1 .. 6 => "child" \in s[c].who
      /\ \A j \in stmt[p] + 1 .. c - 1 : "child" \notin s[j].who
  BY NextStatement
<1>5. /\ s[1].who = {"child", "parent"} /\ s[2].who = {"child"} /\ s[3].who = {"child"}
      /\ s[4].who = {"parent"} /\ s[5].who = {"parent"} /\ s[6].who = {"child", "parent"}
  BY HanderScripts
<1> HIDE DEF k, c, s
<1>6. CASE p = 1
  <2>1. stmt[p] = 1 => c = 2
    BY <1>4, <1>5, <1>6
  <2>2. (stmt[p] = 1 /\ k = 4) \/ (stmt[p] = 4 /\ k = 5) \/ (stmt[p] = 5 /\ k = 6) \/ stmt[p] = 6
    BY <1>2, <1>3, <1>5, <1>6
  <2> QED
    BY <1>2, <1>6, <2>1, <2>2 DEF k, c
<1>7. CASE p = 2
  <2>1. stmt[p] = 2 => k = 3
    BY <1>2, <1>3, <1>5, <1>7
  <2> QED
    BY <1>2, <1>7, <2>1 DEF k
<1> QED
  BY <1>2, <1>6, <1>7

\* The other programs hand nothing over.
LEMMA NothingHanded ==
  ASSUME prog \in DOMAIN Fork!Programs \ Handers, Fork!Next
  PROVE  UNCHANGED shared
<1>1. PICK p \in Fork!Pid : Fork!Runs(p) /\ \/ Fork!Stdio(p) \/ Fork!Forks(p) \/ Fork!Execs(p)
                                            \/ Fork!Waits(p) \/ Fork!Hands(p) \/ Fork!Exits(p)
  BY DEF Fork!Next
<1>2. Fork!Op(p) \notin {"store", "store or not"}
  BY <1>1, ScriptWritten DEF Fork!Runs, Fork!Op, WellWritten, Hander, Handers
<1> QED
  BY <1>1, <1>2 DEF Fork!Stdio, Fork!Forks, Fork!Execs, Fork!Waits, Fork!Hands, Fork!Exits

\* A step of one of a program's processes.
Steps(p) == /\ Fork!Runs(p)
            /\ \/ Fork!Stdio(p) \/ Fork!Forks(p) \/ Fork!Execs(p)
               \/ Fork!Waits(p) \/ Fork!Hands(p) \/ Fork!Exits(p)

\* Their types, with the length of the script.
LEMMA HandersTyped ==
  ASSUME prog \in Handers, Fork!TypeOK
  PROVE  /\ Len(Fork!Script) = 6 /\ Len(Fork!Script) + 1 = 7
         /\ stmt \in [Fork!Pid -> 0 .. 7] /\ parent \in [Fork!Pid -> 0 .. 4]
         /\ buf \in [Fork!Pid -> Seq(Fork!Text)]
<1>1. Len(Fork!Script) = 6
  BY HanderScripts
<1>2. Len(Fork!Script) + 1 = 7
  BY <1>1
<1> QED
  BY <1>1, <1>2 DEF Fork!TypeOK

\* Their fork makes the second process, or the program ends.
LEMMA HandersFork ==
  ASSUME prog \in Handers, Fork!TypeOK, Fork!OneChild, NEW p \in Fork!Pid, Steps(p), stmt[p] = 1
  PROVE  /\ \/ stmt' = [stmt EXCEPT ![2] = 2, ![1] = 4] /\ parent' = [parent EXCEPT ![2] = 1]
            \/ stmt' = [stmt EXCEPT ![1] = 6] /\ parent' = parent
         /\ p = 1 /\ UNCHANGED <<prog, waited, buf, shared, out>>
<1>1. p = 1 /\ Fork!After(p, "child") = 2 /\ Fork!After(p, Fork!Side(p)) = 4
  BY HandersGo DEF Steps
<1>2. Fork!Op(p) = "fork"
  BY HanderScripts DEF Fork!Op
<1>3. Fork!Forks(p)
  BY <1>2 DEF Steps, Fork!Stdio, Fork!Execs, Fork!Waits, Fork!Hands, Fork!Exits
<1>4. stmt \in [Fork!Pid -> 0 .. 7] /\ buf \in [Fork!Pid -> Seq(Fork!Text)]
  BY HandersTyped
<1>5. stmt[1] = 1 /\ stmt[2] = 0 /\ buf[1] = <<>> /\ buf[2] = <<>>
  BY <1>1 DEF Fork!OneChild
<1>6. UNCHANGED <<waited, shared, out>>
  BY <1>3 DEF Fork!Forks
<1>7. CASE Fork!Fails(p) /\ UNCHANGED <<parent, buf>>
  BY <1>1, <1>6, <1>7, HanderScripts DEF Fork!Fails, Fork!Moves
<1>8. ASSUME NEW q \in Fork!Unborn, \A r \in Fork!Unborn : q =< r,
             stmt' = [stmt EXCEPT ![q] = Fork!After(p, "child"), ![p] = Fork!After(p, Fork!Side(p))],
             parent' = [parent EXCEPT ![q] = p],
             buf' = [buf EXCEPT ![q] = buf[p]], UNCHANGED <<prog, tty>>
      PROVE  /\ stmt' = [stmt EXCEPT ![2] = 2, ![1] = 4] /\ parent' = [parent EXCEPT ![2] = 1]
             /\ UNCHANGED <<prog, buf>>
  <2>1. 2 \in Fork!Unborn /\ q \in {2, 3, 4}
    BY <1>5, <1>8 DEF Fork!Unborn, Fork!Pid
  <2>2. q = 2
    BY <1>8, <2>1
  <2>3. buf' = buf
    BY <1>1, <1>4, <1>5, <1>8, <2>2
  <2> QED
    BY <1>1, <1>8, <2>2, <2>3
<1> QED
  BY <1>1, <1>2, <1>3, <1>6, <1>7, <1>8 DEF Fork!Forks

\* Their exits write what is held back.
LEMMA HandersExit ==
  ASSUME prog \in Handers, Fork!TypeOK, Fork!OneChild, NEW p \in Fork!Pid, Steps(p),
         stmt[p] \in {3, 6}
  PROVE  /\ stmt' = [stmt EXCEPT ![p] = 7] /\ buf' = [buf EXCEPT ![p] = <<>>]
         /\ buf[p] = <<>> => buf' = buf /\ out' = out
         /\ out' = out \o buf[p] /\ UNCHANGED <<prog, parent, waited, shared>>
<1>1. Fork!Op(p) = "exit"
  BY HanderScripts DEF Fork!Op
<1>2. Fork!Exits(p)
  BY <1>1 DEF Steps, Fork!Stdio, Fork!Forks, Fork!Execs, Fork!Waits, Fork!Hands
<1>3. out \o <<>> = out /\ buf \in [Fork!Pid -> Seq(Fork!Text)]
  BY ConcatEmptySeq DEF Fork!TypeOK
<1> QED
  BY <1>2, <1>3, HandersTyped DEF Fork!Exits, Fork!Writes, Fork!Moves

\* Their wait is for the second process's end, if there is one.
LEMMA HandersWait ==
  ASSUME prog \in Handers, Fork!TypeOK, Fork!OneChild, NEW p \in Fork!Pid, Steps(p),
         Fork!Op(p) = "wait", stmt[2] # 0, waited = {}
  PROVE  /\ stmt[2] = 7 /\ waited' = {2} /\ stmt' = [stmt EXCEPT ![p] = IF stmt[p] = 4 THEN 5 ELSE 6]
         /\ UNCHANGED <<prog, parent, buf, shared, out>>
<1>1. Fork!Waits(p)
  BY DEF Steps, Fork!Stdio, Fork!Forks, Fork!Execs, Fork!Hands, Fork!Exits
<1>2. stmt \in [Fork!Pid -> 0 .. 7]
  BY HandersTyped
<1>3. p = 1 /\ stmt[p] \in {4, 5} /\ Fork!After(p, Fork!Side(p)) = IF stmt[p] = 4 THEN 5 ELSE 6
  <2>1. stmt[p] \in {4, 5}
    <3>1. stmt[p] \in {1, 2, 3, 4, 5, 6} /\ Fork!Script[stmt[p]].op = "wait"
      BY HandersGo DEF Fork!Op, Steps
    <3> QED
      BY <3>1, HanderScripts DEF Handers
  <2> QED
    BY <2>1, HandersGo DEF Steps
<1>4. {q \in Fork!Pid \ waited : parent[q] = p} = {2}
  BY <1>3 DEF Fork!OneChild, Fork!Pid
<1>5. \E q \in {2} : Fork!Over(q) /\ waited' = waited \cup {q}
  BY <1>1, <1>4 DEF Fork!Waits
<1>6. stmt[2] = 7 /\ waited' = {2}
  BY <1>2, <1>5, HandersTyped DEF Fork!Over, Fork!Pid
<1> QED
  BY <1>1, <1>3, <1>6 DEF Fork!Waits, Fork!Proceeds, Fork!Moves

\* Where the two processes are after a step: the parent's, ...
LEMMA ParentGoes ==
  ASSUME prog \in Handers, Fork!TypeOK, Fork!OneChild, UNCHANGED parent, waited' \subseteq {2},
         NEW k, k \in {6, 7} \/ (k = 5 /\ stmt[1] = 4), stmt' = [stmt EXCEPT ![1] = k],
         buf'[2] = <<>>, k # 6 => buf'[1] = <<>>
  PROVE  Fork!OneChild' /\ stmt'[1] = k /\ stmt'[2] = stmt[2]
<1>1. stmt \in [Fork!Pid -> 0 .. 7] /\ parent \in [Fork!Pid -> 0 .. 4]
  BY HandersTyped
<1>2. stmt'[1] = k /\ stmt'[2] = stmt[2] /\ stmt'[3] = stmt[3] /\ stmt'[4] = stmt[4]
  BY <1>1 DEF Fork!Pid
<1> QED
  BY <1>1, <1>2 DEF Fork!OneChild, Fork!Pid

\* ... the child's, ...
LEMMA ChildGoes ==
  ASSUME prog \in Handers, Fork!TypeOK, Fork!OneChild, UNCHANGED parent, waited' \subseteq {2},
         NEW k \in {3, 6, 7}, stmt[2] # 0, stmt' = [stmt EXCEPT ![2] = k],
         buf'[2] = <<>>, buf'[1] = buf[1]
  PROVE  Fork!OneChild' /\ stmt'[1] = stmt[1] /\ stmt'[2] = k
<1>1. stmt \in [Fork!Pid -> 0 .. 7] /\ parent \in [Fork!Pid -> 0 .. 4]
  BY HandersTyped
<1>2. stmt'[1] = stmt[1] /\ stmt'[2] = k /\ stmt'[3] = stmt[3] /\ stmt'[4] = stmt[4]
  BY <1>1 DEF Fork!Pid
<1>3. stmt[1] # 1
  BY DEF Fork!OneChild
<1> QED
  BY <1>1, <1>2, <1>3 DEF Fork!OneChild, Fork!Pid

\* ... and the fork.
LEMMA ChildBorn ==
  ASSUME prog \in Handers, Fork!TypeOK, Fork!OneChild, UNCHANGED <<waited, buf>>, stmt[1] = 1,
         stmt' = [stmt EXCEPT ![2] = 2, ![1] = 4], parent' = [parent EXCEPT ![2] = 1]
  PROVE  Fork!OneChild' /\ stmt'[1] = 4 /\ stmt'[2] = 2
<1>1. stmt \in [Fork!Pid -> 0 .. 7] /\ parent \in [Fork!Pid -> 0 .. 4]
  BY HandersTyped
<1>2. stmt'[1] = 4 /\ stmt'[2] = 2 /\ stmt'[3] = stmt[3] /\ stmt'[4] = stmt[4]
  BY <1>1 DEF Fork!Pid
<1> QED
  BY <1>1, <1>2 DEF Fork!OneChild, Fork!Pid

\* The pipe: the text is in it when the parent has written it, and the child
\* writes it once.
LEMMA PipeStep ==
  ASSUME prog = "pipe", Fork!TypeOK, Fork!OneChild, Fork!PipeHands, NEW p \in Fork!Pid, Steps(p)
  PROVE  Fork!OneChild' /\ Fork!PipeHands'
<1> prog \in Handers
  BY DEF Handers
<1>1. /\ stmt \in [Fork!Pid -> 0 .. 7] /\ buf \in [Fork!Pid -> Seq(Fork!Text)]
      /\ 1 \in Fork!Pid /\ 2 \in Fork!Pid
  BY HandersTyped DEF Fork!Pid
<1>2. /\ stmt[1] \in {1, 4, 5, 6, 7} /\ stmt[2] \in {0, 2, 3, 7} /\ waited \subseteq {2}
      /\ stmt[1] = 1 => stmt[2] = 0
      /\ stmt[1] \in {4, 5} => stmt[2] # 0
      /\ buf[1] = <<>> /\ buf[2] = <<>>
  BY DEF Fork!OneChild, Fork!PipeHands
<1>3. \/ p = 1 /\ stmt[p] \in {1, 4, 5, 6}
      \/ p = 2 /\ stmt[p] \in {2, 3}
  BY <1>2, HandersGo DEF Steps
<1>4. CASE stmt[p] = 1
  <2>1. /\ \/ stmt' = [stmt EXCEPT ![2] = 2, ![1] = 4] /\ parent' = [parent EXCEPT ![2] = 1]
           \/ stmt' = [stmt EXCEPT ![1] = 6] /\ parent' = parent
        /\ p = 1 /\ UNCHANGED <<prog, waited, buf, shared, out>>
    BY <1>4, HandersFork
  <2>2. Fork!OneChild' /\ \/ stmt'[1] = 4 /\ stmt'[2] = 2
                          \/ stmt'[1] = 6 /\ stmt'[2] = stmt[2]
    BY <1>2, <1>4, <2>1, ParentGoes, ChildBorn
  <2> QED
    BY <1>2, <1>4, <2>1, <2>2 DEF Fork!PipeHands
<1>5. CASE stmt[p] \in {3, 6}
  <2>1. stmt' = [stmt EXCEPT ![p] = 7] /\ UNCHANGED <<prog, parent, waited, shared, buf, out>>
    BY <1>2, <1>3, <1>5, HandersExit
  <2>2. CASE p = 1
    <3>1. Fork!OneChild' /\ stmt'[1] = 7 /\ stmt'[2] = stmt[2]
      BY <1>2, <2>1, <2>2, ParentGoes
    <3> QED
      BY <1>2, <1>3, <1>5, <2>1, <2>2, <3>1 DEF Fork!PipeHands
  <2>3. CASE p = 2
    <3>1. Fork!OneChild' /\ stmt'[1] = stmt[1] /\ stmt'[2] = 7
      BY <1>2, <1>3, <2>1, <2>3, ChildGoes
    <3> QED
      BY <1>2, <1>3, <1>5, <2>1, <2>3, <3>1 DEF Fork!PipeHands
  <2> QED
    BY <1>3, <2>2, <2>3
<1>6. CASE stmt[p] = 4
  <2>1. p = 1 /\ Fork!Op(p) = "store" /\ Fork!Arg(p) = "Hello!"
    BY <1>3, <1>6, HanderScripts DEF Fork!Op, Fork!Arg
  <2>2. Fork!Hands(p)
    BY <2>1 DEF Steps, Fork!Stdio, Fork!Forks, Fork!Execs, Fork!Waits, Fork!Exits
  <2>3. shared' = "Hello!" /\ Fork!Proceeds(p) /\ UNCHANGED <<out, parent, waited, buf>>
    BY <2>1, <2>2 DEF Fork!Hands
  <2>4. stmt' = [stmt EXCEPT ![1] = 5] /\ UNCHANGED prog
    BY <1>6, <2>1, <2>3, HandersGo DEF Steps, Fork!Proceeds, Fork!Moves
  <2>5. Fork!OneChild' /\ stmt'[1] = 5 /\ stmt'[2] = stmt[2]
    BY <1>2, <1>6, <2>1, <2>3, <2>4, ParentGoes
  <2> QED
    BY <1>2, <1>6, <2>1, <2>3, <2>5 DEF Fork!PipeHands
<1>7. CASE stmt[p] = 5
  <2>1. p = 1 /\ Fork!Op(p) = "wait" /\ stmt[2] # 0 /\ waited = {}
    BY <1>2, <1>3, <1>7, HanderScripts DEF Fork!Op, Fork!PipeHands
  <2>2. /\ stmt[2] = 7 /\ waited' = {2} /\ stmt' = [stmt EXCEPT ![1] = 6]
        /\ UNCHANGED <<prog, parent, buf, shared, out>>
    BY <1>7, <2>1, HandersWait
  <2>3. Fork!OneChild' /\ stmt'[1] = 6 /\ stmt'[2] = 7
    BY <1>2, <2>2, ParentGoes
  <2> QED
    BY <1>2, <1>7, <2>1, <2>2, <2>3 DEF Fork!PipeHands
<1>8. CASE stmt[p] = 2
  <2>1. p = 2 /\ Fork!Op(p) = "read"
    BY <1>3, <1>8, HanderScripts DEF Fork!Op
  <2>2. Fork!Hands(p)
    BY <2>1 DEF Steps, Fork!Stdio, Fork!Forks, Fork!Execs, Fork!Waits, Fork!Exits
  <2>3. /\ shared # Fork!NULL /\ Fork!Says(shared) /\ Fork!Proceeds(p)
        /\ UNCHANGED <<shared, parent, waited, buf>>
    BY <2>1, <2>2 DEF Fork!Hands
  <2>4. stmt' = [stmt EXCEPT ![2] = 3] /\ UNCHANGED prog
    BY <1>8, <2>1, <2>3, HandersGo DEF Steps, Fork!Proceeds, Fork!Moves
  <2>5. shared = "Hello!" /\ out = <<>> /\ waited = {}
    BY <1>2, <1>8, <2>1, <2>3 DEF Fork!PipeHands
  <2>6. out' = <<"Hello!">>
    BY <2>3, <2>5 DEF Fork!Says
  <2>7. Fork!OneChild' /\ stmt'[1] = stmt[1] /\ stmt'[2] = 3
    BY <1>2, <1>8, <2>1, <2>3, <2>4, ChildGoes
  <2> QED
    BY <1>2, <1>8, <2>1, <2>3, <2>5, <2>6, <2>7 DEF Fork!PipeHands
<1> QED
  BY <1>3, <1>4, <1>5, <1>6, <1>7, <1>8

\* The memory: the text is in it when the child has written it, and the
\* parent prints it after that, or says that it cannot.
LEMMA MemoryStep ==
  ASSUME NEW text, \/ prog = "shm" /\ text = "Hello!"
                   \/ prog = "sharememory" /\ text = "hello!",
         Fork!TypeOK, Fork!OneChild, Fork!MemoryHands(text), prog = "sharememory" => stmt[2] # 6,
         NEW p \in Fork!Pid, Steps(p)
  PROVE  /\ Fork!OneChild' /\ Fork!MemoryHands(text)'
         /\ prog = "sharememory" => stmt'[2] # 6
<1> prog \in Handers
  BY DEF Handers
<1>1. /\ stmt \in [Fork!Pid -> 0 .. 7] /\ buf \in [Fork!Pid -> Seq(Fork!Text)]
      /\ 1 \in Fork!Pid /\ 2 \in Fork!Pid
  BY HandersTyped DEF Fork!Pid
<1>2. /\ stmt[1] \in {1, 4, 5, 6, 7} /\ stmt[2] \in {0, 2, 3, 6, 7} /\ waited \subseteq {2}
      /\ stmt[1] = 1 => stmt[2] = 0
      /\ stmt[1] \in {4, 5} => stmt[2] # 0
      /\ stmt[1] # 6 => buf[1] = <<>>
      /\ buf[2] = <<>>
  BY DEF Fork!OneChild
<1>3. /\ stmt[1] \in {1, 4} => waited = {}
      /\ stmt[1] \in {5, 6, 7} /\ stmt[2] # 0 => stmt[2] = 7
      /\ shared \in {Fork!NULL, text}
      /\ stmt[2] \in {0, 2} => shared = Fork!NULL /\ out = <<>> /\ buf[1] = <<>>
      /\ stmt[2] = 6 => shared = Fork!NULL
      /\ shared # Fork!NULL /\ stmt[1] \in {1, 4, 5} => out = <<>>
      /\ shared # Fork!NULL /\ stmt[1] = 6 => \/ out = <<>> /\ buf[1] = <<text>>
                                              \/ out \in {<<text>>, <<"shmat()">>} /\ buf[1] = <<>>
      /\ shared # Fork!NULL /\ stmt[1] = 7 => out \in {<<text>>, <<"shmat()">>}
  BY DEF Fork!MemoryHands
<1>4. \/ p = 1 /\ stmt[1] \in {1, 4, 5, 6} /\ stmt[p] = stmt[1]
      \/ p = 2 /\ stmt[2] \in {2, 3, 6} /\ stmt[p] = stmt[2]
  BY HandersGo DEF Steps
<1>5. CASE stmt[p] = 1
  <2>1. /\ \/ stmt' = [stmt EXCEPT ![2] = 2, ![1] = 4] /\ parent' = [parent EXCEPT ![2] = 1]
           \/ stmt' = [stmt EXCEPT ![1] = 6] /\ parent' = parent
        /\ p = 1 /\ UNCHANGED <<prog, waited, buf, shared, out>>
    BY <1>5, HandersFork
  <2>2. Fork!OneChild' /\ \/ stmt'[1] = 4 /\ stmt'[2] = 2
                          \/ stmt'[1] = 6 /\ stmt'[2] = stmt[2]
    BY <1>2, <1>5, <2>1, ParentGoes, ChildBorn
  <2> QED
    BY <1>2, <1>3, <1>5, <2>1, <2>2 DEF Fork!MemoryHands
<1>6. CASE stmt[p] \in {3, 6}
  <2>1. /\ stmt' = [stmt EXCEPT ![p] = 7] /\ buf' = [buf EXCEPT ![p] = <<>>]
        /\ buf[p] = <<>> => buf' = buf /\ out' = out
        /\ out' = out \o buf[p] /\ UNCHANGED <<prog, parent, waited, shared>>
    BY <1>6, HandersExit
  <2>2. CASE p = 1
    <3>1. buf'[1] = <<>> /\ buf'[2] = <<>> /\ out' = out \o buf[1]
      BY <1>1, <1>2, <2>1, <2>2
    <3>2. Fork!OneChild' /\ stmt'[1] = 7 /\ stmt'[2] = stmt[2]
      BY <1>2, <2>1, <2>2, <3>1, ParentGoes
    <3>3. ASSUME shared # Fork!NULL PROVE out' \in {<<text>>, <<"shmat()">>}
      <4>1. CASE out = <<>> /\ buf[1] = <<text>>
        BY <3>1, <4>1
      <4>2. CASE out \in {<<text>>, <<"shmat()">>} /\ buf[1] = <<>>
        BY <2>1, <2>2, <4>2
      <4> QED
        BY <1>3, <1>4, <1>6, <2>2, <3>3, <4>1, <4>2
    <3>4. stmt[2] \in {0, 7} /\ (stmt[2] = 0 => out' = <<>>)
      BY <1>2, <1>3, <1>4, <1>6, <2>1, <2>2
    <3> QED
      BY <1>3, <2>1, <2>2, <3>1, <3>2, <3>3, <3>4 DEF Fork!MemoryHands
  <2>3. CASE p = 2
    <3>1. buf' = buf /\ out' = out
      BY <1>2, <2>1, <2>3
    <3>2. Fork!OneChild' /\ stmt'[1] = stmt[1] /\ stmt'[2] = 7
      BY <1>2, <1>4, <2>1, <2>3, <3>1, ChildGoes
    <3>3. stmt[1] = 4
      BY <1>2, <1>3, <1>4, <1>6, <2>3
    <3> QED
      BY <1>3, <2>1, <3>1, <3>2, <3>3 DEF Fork!MemoryHands
  <2> QED
    BY <1>4, <2>2, <2>3
<1>7. CASE stmt[p] = 4
  <2>1. p = 1 /\ Fork!Op(p) = "wait" /\ stmt[2] # 0 /\ waited = {}
    BY <1>2, <1>3, <1>4, <1>7, HanderScripts DEF Fork!Op
  <2>2. /\ stmt[2] = 7 /\ waited' = {2} /\ stmt' = [stmt EXCEPT ![1] = 5]
        /\ UNCHANGED <<prog, parent, buf, shared, out>>
    BY <1>7, <2>1, HandersWait
  <2>3. buf[1] = <<>>
    BY <1>2, <1>4, <1>7, <2>1
  <2>4. Fork!OneChild' /\ stmt'[1] = 5 /\ stmt'[2] = 7
    BY <1>2, <1>4, <1>7, <2>1, <2>2, <2>3, ParentGoes
  <2> QED
    BY <1>3, <1>4, <1>7, <2>1, <2>2, <2>4 DEF Fork!MemoryHands
<1>8. CASE stmt[p] = 5
  <2>1. p = 1 /\ stmt[2] = 7 /\ buf[1] = <<>>
    BY <1>2, <1>3, <1>4, <1>8
  <2>2. \/ prog = "shm" /\ Fork!Op(p) = "load or not"
        \/ prog = "sharememory" /\ Fork!Op(p) = "load"
    BY <1>8, HanderScripts DEF Fork!Op
  <2>3. CASE Fork!Prints(p, shared, tty) /\ Fork!Proceeds(p) /\ UNCHANGED <<parent, waited, shared>>
    <3>1. stmt' = [stmt EXCEPT ![1] = 6] /\ UNCHANGED prog
      BY <1>8, <2>1, <2>3, HandersGo DEF Steps, Fork!Proceeds, Fork!Moves
    <3>2. \/ out' = Append(out \o <<>>, shared) /\ buf' = [buf EXCEPT ![1] = <<>>]
          \/ out' = out /\ buf' = [buf EXCEPT ![1] = Append(<<>>, shared)]
      BY <2>1, <2>3 DEF Fork!Prints
    <3>3. buf'[2] = <<>>
      BY <1>1, <1>2, <3>2
    <3>4. Fork!OneChild' /\ stmt'[1] = 6 /\ stmt'[2] = 7
      BY <1>2, <2>1, <2>3, <3>1, <3>3, ParentGoes
    <3>5. ASSUME shared # Fork!NULL
          PROVE  \/ out' = <<>> /\ buf'[1] = <<text>>
                 \/ out' \in {<<text>>, <<"shmat()">>} /\ buf'[1] = <<>>
      <4>1. shared = text /\ out = <<>>
        BY <1>3, <1>8, <2>1, <3>5
      <4> QED
        BY <1>1, <3>2, <4>1
    <3> QED
      BY <1>3, <2>1, <2>3, <3>4, <3>5 DEF Fork!MemoryHands
  <2>4. CASE Fork!Says("shmat()") /\ Fork!Fails(p) /\ UNCHANGED <<shared, parent, waited, buf>>
    <3>1. stmt' = [stmt EXCEPT ![1] = 6] /\ UNCHANGED prog
      BY <2>1, <2>4, HandersTyped DEF Fork!Fails, Fork!Moves
    <3>2. Fork!OneChild' /\ stmt'[1] = 6 /\ stmt'[2] = 7
      BY <1>2, <2>1, <2>4, <3>1, ParentGoes
    <3>3. shared # Fork!NULL => out' = <<"shmat()">>
      <4>1. shared # Fork!NULL => out = <<>>
        BY <1>3, <1>8, <2>1
      <4> QED
        BY <2>4, <4>1 DEF Fork!Says
    <3> QED
      BY <1>3, <2>1, <2>4, <3>2, <3>3 DEF Fork!MemoryHands
  <2> QED
    BY <2>1, <2>2, <2>3, <2>4 DEF Steps, Fork!Stdio, Fork!Forks, Fork!Execs, Fork!Waits,
                                  Fork!Hands, Fork!Exits
<1>9. CASE stmt[p] = 2
  <2>1. p = 2 /\ stmt[1] = 4
    BY <1>2, <1>3, <1>4, <1>9
  <2>2. waited = {} /\ shared = Fork!NULL /\ out = <<>> /\ buf[1] = <<>>
    BY <1>3, <1>9, <2>1
  <2>3. /\ Fork!Arg(p) = text
        /\ \/ prog = "shm" /\ Fork!Op(p) = "store or not"
           \/ prog = "sharememory" /\ Fork!Op(p) = "store"
    BY <1>9, HanderScripts DEF Fork!Op, Fork!Arg
  <2>4. Fork!Hands(p) /\ UNCHANGED <<parent, waited, buf>>
    BY <2>3 DEF Steps, Fork!Stdio, Fork!Forks, Fork!Execs, Fork!Waits, Fork!Exits, Fork!Hands
  <2>5. CASE shared' = text /\ Fork!Proceeds(p) /\ UNCHANGED out
    <3>1. stmt' = [stmt EXCEPT ![2] = 3] /\ UNCHANGED prog
      BY <1>9, <2>1, <2>5, HandersGo DEF Steps, Fork!Proceeds, Fork!Moves
    <3>2. Fork!OneChild' /\ stmt'[1] = 4 /\ stmt'[2] = 3
      BY <1>2, <1>9, <2>1, <2>4, <3>1, ChildGoes
    <3> QED
      BY <2>2, <2>4, <2>5, <3>2 DEF Fork!MemoryHands
  <2>6. CASE Fork!Op(p) = "store or not" /\ Fork!Fails(p) /\ UNCHANGED shared
    <3>1. stmt' = [stmt EXCEPT ![2] = 6] /\ UNCHANGED prog /\ prog = "shm"
      BY <2>1, <2>3, <2>6, HandersTyped DEF Fork!Fails, Fork!Moves
    <3>2. Fork!OneChild' /\ stmt'[1] = 4 /\ stmt'[2] = 6
      BY <1>2, <1>9, <2>1, <2>4, <3>1, ChildGoes
    <3>3. waited' = {} /\ shared' = Fork!NULL /\ prog # "sharememory"
      BY <2>2, <2>4, <2>6, <3>1
    <3> QED
      BY <3>2, <3>3 DEF Fork!MemoryHands
  <2> QED
    BY <2>3, <2>4, <2>5, <2>6 DEF Fork!Hands
<1> QED
  BY <1>4, <1>5, <1>6, <1>7, <1>8, <1>9

\* Every step of a program keeps what is known of the text handed over.
LEMMA HandedStep ==
  ASSUME Fork!TypeOK, Fork!HandedOver, Fork!Next
  PROVE  Fork!HandedOver'
<1>1. PICK p \in Fork!Pid : Steps(p)
  BY DEF Fork!Next, Steps
<1>2. UNCHANGED prog /\ prog \in DOMAIN Fork!Programs
  BY ProcsCounted DEF Fork!TypeOK
<1>3. CASE prog = "pipe"
  <2>1. Fork!OneChild' /\ Fork!PipeHands'
    BY <1>1, <1>3, PipeStep DEF Fork!HandedOver
  <2> QED
    BY <1>2, <1>3, <2>1 DEF Fork!HandedOver
<1>4. CASE prog = "shm"
  <2>1. Fork!OneChild' /\ Fork!MemoryHands("Hello!")'
    BY <1>1, <1>4, MemoryStep DEF Fork!HandedOver
  <2> QED
    BY <1>2, <1>4, <2>1 DEF Fork!HandedOver
<1>5. CASE prog = "sharememory"
  <2>1. Fork!OneChild' /\ Fork!MemoryHands("hello!")' /\ stmt'[2] # 6
    BY <1>1, <1>5, MemoryStep DEF Fork!HandedOver
  <2> QED
    BY <1>2, <1>5, <2>1 DEF Fork!HandedOver
<1>6. CASE prog \notin Handers
  <2>1. UNCHANGED shared
    BY <1>2, <1>6, NothingHanded
  <2> QED
    BY <1>2, <1>6, <2>1 DEF Fork!HandedOver, Handers
<1> QED
  BY <1>3, <1>4, <1>5, <1>6 DEF Handers

\* Every step of a program keeps the invariant, ...
LEMMA ProcsStep ==
  ASSUME Fork!IInv, Fork!Next
  PROVE  Fork!IInv'
<1>1. Fork!TypeOK' /\ (Counts /\ Once => Once') /\ UNCHANGED <<prog, tty>>
  BY ProcsCounted DEF Fork!IInv
<1>2. Fork!HandedOver'
  BY HandedStep DEF Fork!IInv
<1> QED
  BY <1>1, <1>2 DEF Fork!IInv, Counts, Once

\* ... and so does a step of the programs beside it.
LEMMA ProcsSame ==
  ASSUME Fork!IInv, UNCHANGED procVars
  PROVE  Fork!IInv'
<1> USE DEF procVars
<1>1. Fork!Script' = Fork!Script /\ Fork!Text' = Fork!Text
  BY ScriptStays
<1>2. Fork!TypeOK'
  BY <1>1 DEF Fork!IInv, Fork!TypeOK
<1>3. Fork!NothingToCopy => Fork!NothingToCopy'
  BY <1>1 DEF Fork!NothingToCopy, Fork!Copying, Fork!Runs, Fork!Op
<1>4. Fork!AllCounted => Fork!AllCounted'
  BY <1>1 DEF Fork!AllCounted, Fork!Held, Fork!Times
<1>5. Fork!HandedOver'
  BY DEF Fork!IInv, Fork!HandedOver, Fork!OneChild, Fork!PipeHands, Fork!MemoryHands
<1> QED
  BY <1>2, <1>3, <1>4, <1>5 DEF Fork!IInv

\* At the start nothing is printed, and nothing held back.
LEMMA ProcsInit ==
  ASSUME Fork!Init
  PROVE  Fork!IInv
<1>1. /\ prog \in DOMAIN Fork!Programs /\ tty \in BOOLEAN
      /\ stmt = [p \in Fork!Pid |-> IF p = 1 THEN 1 ELSE 0]
      /\ parent = [p \in Fork!Pid |-> 0] /\ waited = {}
      /\ buf = [p \in Fork!Pid |-> <<>>]
      /\ shared = Fork!NULL /\ out = <<>> /\ printed = <<>>
      /\ 1 \in Fork!Pid /\ 2 \in Fork!Pid /\ 3 \in Fork!Pid /\ 4 \in Fork!Pid
  BY DEF Fork!Init, Fork!Pid
<1>2. Fork!TypeOK
  <2>1. Len(Fork!Script) \in Nat
    BY <1>1, ScriptWritten
  <2>2. Fork!NULL \in Fork!Text /\ <<>> \in Seq(Fork!Text)
    BY EmptySeq DEF Fork!Text
  <2> QED
    BY <1>1, <2>1, <2>2 DEF Fork!TypeOK
<1>3. Fork!NothingToCopy
  BY <1>1 DEF Fork!NothingToCopy
<1>4. Fork!AllCounted
  <2>1. ASSUME NEW x PROVE Fork!Times(out, x) = 0 /\ Fork!Held(x) = 0 /\ Fork!Times(printed, x) = 0
    BY <1>1, TimesEmpty DEF Fork!Held
  <2> QED
    BY <2>1 DEF Fork!AllCounted
<1>5. Fork!OneChild
  BY <1>1 DEF Fork!OneChild
<1>6. Fork!PipeHands /\ Fork!MemoryHands("Hello!") /\ Fork!MemoryHands("hello!")
  BY <1>1 DEF Fork!PipeHands, Fork!MemoryHands
<1> QED
  BY <1>1, <1>2, <1>3, <1>4, <1>5, <1>6 DEF Fork!IInv, Fork!HandedOver

\* The invariant contains what is claimed of the programs.
LEMMA ProcsWritten ==
  ASSUME Fork!IInv
  PROVE  Fork!WrittenOnce
<1>1. Fork!TypeOK /\ Fork!HandedOver /\ (Counts => Fork!AllCounted)
  BY DEF Fork!IInv, Counts
<1>2. ASSUME NEW i \in DOMAIN printed, Counts
      PROVE  Fork!Times(out, printed[i]) + Fork!Held(printed[i]) = Fork!Times(printed, printed[i])
  <2>1. printed[i] \in Fork!Text
    BY <1>1 DEF Fork!TypeOK
  <2> QED
    BY <1>1, <1>2, <2>1 DEF Fork!AllCounted
<1>3. ASSUME NEW x PROVE Fork!Times(<<x>>, x) = 1
  <2>1. <<>> \in Seq({x}) /\ <<x>> = Append(<<>>, x)
    OBVIOUS
  <2>2. Fork!Times(Append(<<>>, x), x) = Fork!Times(<<>>, x) + 1
    BY <2>1, TimesAppended
  <2> QED
    BY <2>1, <2>2, TimesEmpty
<1>4. ASSUME Fork!Over(1), shared # Fork!NULL
      PROVE  Fork!Times(out, shared) = 1 \/ Fork!Times(out, "shmat()") = 1
  <2>1. prog \in Handers
    BY <1>1, <1>4 DEF Fork!HandedOver, Handers
  <2>2. stmt[1] = 7
    <3>1. Fork!OneChild
      BY <1>1, <2>1 DEF Fork!HandedOver, Handers
    <3>2. stmt[1] > 6 /\ stmt[1] \in {1, 4, 5, 6, 7}
      BY <1>1, <1>4, <2>1, <3>1, HandersTyped DEF Fork!Over, Fork!OneChild
    <3> QED
      BY <3>2
  <2>3. out = <<shared>> \/ out = <<"shmat()">>
    <3>1. CASE prog = "pipe"
      BY <1>1, <1>4, <2>2, <3>1 DEF Fork!HandedOver, Fork!PipeHands
    <3>2. CASE prog = "shm"
      BY <1>1, <1>4, <2>2, <3>2 DEF Fork!HandedOver, Fork!MemoryHands
    <3>3. CASE prog = "sharememory"
      BY <1>1, <1>4, <2>2, <3>3 DEF Fork!HandedOver, Fork!MemoryHands
    <3> QED
      BY <2>1, <3>1, <3>2, <3>3 DEF Handers
  <2> QED
    BY <1>3, <2>3
<1> QED
  BY <1>2, <1>4 DEF Fork!WrittenOnce, Counts
-----------------------------------------------------------------------------
(* Whichever program is started. *)

PoolIInv == IInv /\ (program = "busy" => NobodySleeps) /\ Plain!IInv /\ Fork!IInv

\* A step of any program is one of the pool with the condition variable, or
\* leaves that pool alone.
LEMMA PoolStep ==
  ASSUME PoolIInv, [PoolNext]_poolVars
  PROVE  [Next]_vars /\ PoolIInv'
<1>1. IInv /\ [Next]_vars => IInv'
  BY PutIInv, TakeIInv, OtherIInv DEF Next, MainStep, WorkerStep, Ended
<1>2. UNCHANGED vars => NobodySleeps' = NobodySleeps
  BY DEF vars, NobodySleeps, Waiting
<1>3. CASE Runs("cond", Next)
  BY <1>1, <1>3, PrimersSame, ProcsSame DEF Runs, PoolIInv
<1>4. CASE Runs("busy", Busy!Next)
  BY <1>1, <1>4, BusyStep, PrimersSame, ProcsSame DEF Runs, PoolIInv
<1>5. CASE PlainRuns
  BY <1>1, <1>2, <1>5, PrimersStep, ProcsSame DEF PlainRuns, PoolIInv
<1>6. CASE ProcRuns
  BY <1>1, <1>2, <1>6, PrimersSame, ProcsStep DEF ProcRuns, PoolIInv
<1>7. CASE UNCHANGED poolVars
  BY <1>1, <1>2, <1>7, PrimersSame, ProcsSame DEF poolVars, PoolIInv
<1> QED
  BY <1>3, <1>4, <1>5, <1>6, <1>7 DEF PoolNext

\* Whichever of the programs with or without a pool runs, its invariant holds.
THEOREM PoolInvariant == PoolSpec => []PoolIInv
<1>1. PoolInit => PoolIInv
  BY InitIInv, BusyInit, PrimersInit, ProcsInit DEF PoolInit, PoolIInv
<1> QED
  BY <1>1, PoolStep, PTL DEF PoolSpec

\* Waiting busily (008prime_pool_busy.c) is a way to run the pool of
\* 009prime_cond.c: what is true of every run of that pool is true of it.
THEOREM BusyIsAPool == PoolSpec => Spec
<1>1. PoolInit => Init
  BY DEF PoolInit
<1> QED
  BY <1>1, PoolInvariant, PoolStep, PTL DEF PoolSpec, Spec

\* In both pools a task goes to exactly one thread, no wake-up goes astray,
\* and both implement the slot.
THEOREM BothPools ==
  PoolSpec => [](ExactlyOnce /\ TaskHasTaker /\ EmptySlotWakesMain) /\ KeepsPromise
  BY BusyIsAPool, OneThreadPerTask, NoWakeupLost, Refinement, PTL

\* One process, a process or a thread for each number, or one for each
\* residue: when main has waited for them all, the processes have printed the
\* primes of LEFT..RIGHT, the threads every number (their loop never runs),
\* and no struct is left allocated or freed under its thread.
THEOREM PrimesFound == PoolSpec => []PrimesReported
<1>1. PoolIInv => PrimesReported
  BY DEF PoolIInv, Plain!IInv, PrimesReported
<1> QED
  BY <1>1, PoolInvariant, PTL

\* The fflush before a fork or an exec does what it is for: whatever the
\* programs around fork print is written once, however the processes
\* interleave and whichever calls fail; and when the first process of 001pipe,
\* shm or 006sharememory is over, the text handed over has been written once,
\* or the one that was to read it has said that it cannot.
THEOREM WrittenAndHanded == PoolSpec => []WrittenOnce
<1>1. PoolIInv => WrittenOnce
  BY ProcsWritten DEF PoolIInv, WrittenOnce
<1> QED
  BY <1>1, PoolInvariant, PTL
=============================================================================
