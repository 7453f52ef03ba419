----------------------------- MODULE SemsProofs -----------------------------
(***************************************************************************)
(* Proofs about the semaphore (MySem), its own program (SemPrimer) and the *)
(* counter files (Counters), for any number of threads, processes and      *)
(* units.                                                                  *)
(***************************************************************************)
EXTENDS MCSems, TLAPS, FiniteSetTheorems

(* The semaphore, for any callers. *)

\* Type correctness: in particular the value never goes below zero.
THEOREM TypeCorrect == Spec => []TypeOK
<1>1. Init => TypeOK
  BY UnitsAssumption DEF Init, TypeOK
<1>2. TypeOK /\ [Next]_vars => TypeOK'
  <2> SUFFICES ASSUME TypeOK, [Next]_vars PROVE TypeOK'
    OBVIOUS
  <2>1. ASSUME NEW t \in Thread, NEW n \in 1 .. MaxUnits, Add(t, n) PROVE TypeOK'
    BY <2>1, UnitsAssumption DEF TypeOK, Add, Broadcast
  <2>2. ASSUME NEW t \in Thread, NEW n \in 1 .. MaxUnits, SubCall(t, n) PROVE TypeOK'
    BY <2>2, UnitsAssumption DEF TypeOK, SubCall
  <2>3. ASSUME NEW t \in Thread, SubSleep(t) \/ SpuriousWakeup(t) PROVE TypeOK'
    BY <2>3 DEF TypeOK, SubSleep, SpuriousWakeup
  <2>4. ASSUME NEW t \in Thread, SubTake(t) PROVE TypeOK'
    BY <2>4, UnitsAssumption DEF TypeOK, SubTake
  <2>5. CASE UNCHANGED vars
    BY <2>5 DEF TypeOK, vars
  <2> QED
    BY <2>1, <2>2, <2>3, <2>4, <2>5 DEF Next
<1> QED
  BY <1>1, <1>2, PTL DEF Spec

\* No thread sleeps through an add that could have satisfied it.
THEOREM NoLostWakeup == Spec => []SleepersUnmet
<1>1. Init => SleepersUnmet
  BY DEF Init, SleepersUnmet
<1>2. TypeOK /\ SleepersUnmet /\ [Next]_vars => SleepersUnmet'
  <2> SUFFICES ASSUME TypeOK, SleepersUnmet, [Next]_vars PROVE SleepersUnmet'
    OBVIOUS
  <2>1. ASSUME NEW t \in Thread, NEW n \in 1 .. MaxUnits, Add(t, n) PROVE SleepersUnmet'
    BY <2>1 DEF TypeOK, SleepersUnmet, Add, Broadcast
  <2>2. ASSUME NEW t \in Thread, NEW n \in 1 .. MaxUnits, SubCall(t, n) PROVE SleepersUnmet'
    BY <2>2 DEF TypeOK, SleepersUnmet, SubCall
  <2>3. ASSUME NEW t \in Thread, SubSleep(t) \/ SpuriousWakeup(t) PROVE SleepersUnmet'
    BY <2>3 DEF TypeOK, SleepersUnmet, SubSleep, SpuriousWakeup
  <2>4. ASSUME NEW t \in Thread, SubTake(t) PROVE SleepersUnmet'
    <3>1. value' =< value
      BY <2>4, UnitsAssumption DEF SubTake, TypeOK
    <3> QED
      BY <2>4, <3>1, UnitsAssumption DEF TypeOK, SleepersUnmet, SubTake
  <2>5. CASE UNCHANGED vars
    BY <2>5 DEF SleepersUnmet, vars
  <2> QED
    BY <2>1, <2>2, <2>3, <2>4, <2>5 DEF Next
<1> QED
  BY <1>1, <1>2, TypeCorrect, PTL DEF Spec

\* A thread inside mysem_sub asks for a request the caller made.
RequestMade == \A t \in Thread : pc[t] = "sub" \/ pc[t] = "wait" => need[t] \in 1 .. MaxUnits

\* mysem implements the semaphore.
THEOREM Refinement == Spec => KeepsPromise
<1>1. Init => RequestMade /\ Sem!Init
  BY DEF Init, RequestMade, Sem!Init
<1>2. TypeOK /\ RequestMade /\ [Next]_vars => RequestMade'
  BY DEF TypeOK, RequestMade, Next, vars, Add, Broadcast, SubCall, SubSleep,
     SpuriousWakeup, SubTake
<1>3. TypeOK /\ RequestMade /\ [Next]_vars => [Sem!Next]_value
  BY DEF TypeOK, RequestMade, Next, vars, Add, SubCall, SubSleep, SpuriousWakeup,
     SubTake, Sem!Next, Sem!Take, Sem!GiveBack
<1> QED
  BY <1>1, <1>2, <1>3, TypeCorrect, PTL DEF Spec, KeepsPromise, Sem!Spec

-----------------------------------------------------------------------------
(* The counter files: who adds. *)

Adder == Thread \ {0}

\* Counters counts with the same Cardinality.
LEMMA CounterSizes == \A S : Counter!Cardinality(S) = Cardinality(S)
  BY DEF Counter!Cardinality, Cardinality

\* There are finitely many adders.
LEMMA AddersFinite == \A S \in SUBSET Adder : IsFiniteSet(S) /\ Cardinality(S) \in Nat
<1> SUFFICES ASSUME NEW S \in SUBSET Adder PROVE IsFiniteSet(S) /\ Cardinality(S) \in Nat
  OBVIOUS
<1>1. S \in SUBSET Thread /\ IsFiniteSet(Thread)
  BY ThreadAssumption DEF Adder
<1>2. IsFiniteSet(S)
  BY <1>1, FS_Subset
<1> QED
  BY <1>2, FS_CardinalityType

-----------------------------------------------------------------------------
(* The number in the file. *)

Wrote == {a \in Adder : adder[a] \in {"unlock", "done"}}

\* The adders that wrote, as a set ...
LEMMA WrittenIs == Counter!Written = Cardinality(Wrote)
  BY CounterSizes DEF Counter!Written, Wrote, Adder

\* ... after a step too.
LEMMA WrittenIsNext == Counter!Written' = Cardinality(Wrote')
  BY CounterSizes DEF Counter!Written, Wrote, Adder

\* They are finitely many.
LEMMA WroteFinite == IsFiniteSet(Wrote) /\ Cardinality(Wrote) \in Nat
  BY AddersFinite DEF Wrote

\* The file holds its first number, nobody wrote.
LEMMA CounterInit == Counter!Init => Counter!IInv
<1> SUFFICES ASSUME Counter!Init PROVE Counter!IInv
  OBVIOUS
<1>1. Wrote = {}
  BY DEF Counter!Init, Wrote, Adder
<1>2. Counter!Written = 0
  BY <1>1, WrittenIs, FS_EmptySet
<1>3. Counter!TypeOK
  BY DEF Counter!Init, Counter!TypeOK
<1>4. Counter!LockHeld
  BY DEF Counter!Init, Counter!LockHeld
<1>5. Counter!CountExact
  BY <1>2 DEF Counter!Init, Counter!CountExact
<1> QED
  BY <1>3, <1>4, <1>5 DEF Counter!IInv

\* A step of one adder that is no write leaves those that wrote as they are.
LEMMA SameWritten ==
  ASSUME Counter!TypeOK, NEW a \in Adder, NEW p, Counter!Goes(a, p),
         adder[a] \in {"unlock", "done"} <=> p \in {"unlock", "done"}
  PROVE  Counter!Written' = Counter!Written
<1>1. Wrote' = Wrote
  BY DEF Counter!TypeOK, Counter!Goes, Wrote, Adder
<1> QED
  BY <1>1, WrittenIs, WrittenIsNext

\* The one adder that writes is counted once.
LEMMA OneWritten ==
  ASSUME Counter!TypeOK, NEW a \in Adder, NEW p \in {"unlock", "done"}, Counter!Goes(a, p),
         adder[a] = "write"
  PROVE  Counter!Written' = Counter!Written + 1
<1>1. Wrote' = Wrote \cup {a} /\ a \notin Wrote
  BY DEF Counter!TypeOK, Counter!Goes, Wrote, Adder
<1>2. Cardinality(Wrote \cup {a}) = Cardinality(Wrote) + 1
  BY <1>1, WroteFinite, FS_AddElement
<1> QED
  BY <1>1, <1>2, WrittenIs, WrittenIsNext

\* The number of those that wrote is a number.
LEMMA WrittenNat == Counter!Written \in Nat
  BY WrittenIs, WroteFinite

\* fopen, or its failure, changes no number.
LEMMA CounterOpen ==
  ASSUME Counter!IInv, NEW a \in Adder, Counter!Open(a)
  PROVE  Counter!IInv'
<1>1. PICK p \in {"read", "lock", "failed"} :
        /\ Counter!Goes(a, p)
        /\ guard = "none" => p # "lock"
        /\ guard # "none" => p # "read"
  BY DEF Counter!Open
<1>2. Counter!Written' = Counter!Written
  BY <1>1, SameWritten DEF Counter!IInv, Counter!Open, Counter!At
<1>3. UNCHANGED <<guard, number, held, linebuf>> /\ adder[a] = "open"
  BY DEF Counter!Open, Counter!At
<1>4. Counter!TypeOK'
  BY <1>1, <1>3 DEF Counter!IInv, Counter!TypeOK, Counter!Goes, Adder
<1>5. Counter!LockHeld'
  BY <1>1, <1>2, <1>3 DEF Counter!IInv, Counter!TypeOK, Counter!LockHeld, Counter!Goes, Adder
<1>6. Counter!CountExact'
  BY <1>2, <1>3 DEF Counter!IInv, Counter!CountExact
<1> QED
  BY <1>4, <1>5, <1>6 DEF Counter!IInv

\* The lock goes to one adder when it is free.
LEMMA CounterAcquire ==
  ASSUME Counter!IInv, NEW a \in Adder, Counter!Acquire(a), guard # "none"
  PROVE  Counter!IInv'
<1>1. /\ Counter!Goes(a, "read") /\ adder[a] = "lock" /\ held = {} /\ held' = {a}
      /\ UNCHANGED <<guard, number, linebuf>>
  BY DEF Counter!Acquire, Counter!At
<1>2. Counter!Written' = Counter!Written
  BY <1>1, SameWritten DEF Counter!IInv
<1>3. Counter!TypeOK'
  BY <1>1 DEF Counter!IInv, Counter!TypeOK, Counter!Goes, Adder
<1>4. Counter!LockHeld'
  BY <1>1 DEF Counter!IInv, Counter!TypeOK, Counter!LockHeld, Counter!Goes, Adder
<1>5. Counter!CountExact'
  BY <1>1, <1>2 DEF Counter!IInv, Counter!CountExact
<1> QED
  BY <1>3, <1>4, <1>5 DEF Counter!IInv

\* P, interrupted: the adder holds nothing and fails.
LEMMA CounterRefused ==
  ASSUME Counter!IInv, NEW a \in Adder, Counter!Goes(a, "failed"), adder[a] = "lock",
         UNCHANGED <<guard, number, held, linebuf>>
  PROVE  Counter!IInv'
<1>1. Counter!Written' = Counter!Written
  BY SameWritten DEF Counter!IInv
<1>2. Counter!TypeOK'
  BY DEF Counter!IInv, Counter!TypeOK, Counter!Goes, Adder
<1>3. Counter!LockHeld'
  BY <1>1 DEF Counter!IInv, Counter!TypeOK, Counter!LockHeld, Counter!Goes, Adder
<1>4. Counter!CountExact'
  BY <1>1 DEF Counter!IInv, Counter!CountExact
<1> QED
  BY <1>2, <1>3, <1>4 DEF Counter!IInv

\* fgets under the lock reads what the file counts.
LEMMA CounterRead ==
  ASSUME Counter!IInv, NEW a \in Adder, Counter!Read(a)
  PROVE  Counter!IInv'
<1>1. /\ Counter!Goes(a, "write") /\ adder[a] = "read"
      /\ linebuf' = [linebuf EXCEPT ![a] = number]
      /\ UNCHANGED <<guard, number, held>>
  BY DEF Counter!Read, Counter!At
<1>2. Counter!Written' = Counter!Written
  BY <1>1, SameWritten DEF Counter!IInv
<1>3. Counter!TypeOK'
  BY <1>1 DEF Counter!IInv, Counter!TypeOK, Counter!Goes, Adder
<1>4. Counter!LockHeld'
  <2>1. guard = "none" => number \in 1 .. 1 + Counter!Written
    BY WrittenNat DEF Counter!IInv, Counter!TypeOK, Counter!CountExact
  <2> QED
    BY <1>1, <1>2, <2>1
    DEF Counter!IInv, Counter!TypeOK, Counter!LockHeld, Counter!Goes, Adder
<1>5. Counter!CountExact'
  BY <1>1, <1>2 DEF Counter!IInv, Counter!CountExact
<1> QED
  BY <1>3, <1>4, <1>5 DEF Counter!IInv

\* fprintf and its flush under the lock count one adder more.
LEMMA CounterWrite ==
  ASSUME Counter!IInv, NEW a \in Adder, Counter!Write(a)
  PROVE  Counter!IInv'
<1>1. PICK p \in {"done", "unlock"} :
        /\ Counter!Goes(a, p) /\ adder[a] = "write" /\ number' = linebuf[a] + 1
        /\ p = IF guard = "none" THEN "done" ELSE "unlock"
        /\ UNCHANGED <<guard, held, linebuf>>
  BY DEF Counter!Write, Counter!At
<1>2. Counter!Written' = Counter!Written + 1 /\ Counter!Written \in Nat
  BY <1>1, OneWritten, WrittenNat DEF Counter!IInv
<1>3. linebuf[a] \in Nat
  BY DEF Counter!IInv, Counter!TypeOK, Adder
<1>4. Counter!TypeOK'
  BY <1>1, <1>3 DEF Counter!IInv, Counter!TypeOK, Counter!Goes, Adder
<1>5. CASE guard = "none"
  <2>1. Counter!LockHeld'
    BY <1>1, <1>2, <1>5
    DEF Counter!IInv, Counter!TypeOK, Counter!LockHeld, Counter!Goes, Adder
  <2>2. linebuf[a] \in 1 .. 1 + Counter!Written
    BY <1>1, <1>5 DEF Counter!IInv, Counter!LockHeld, Adder
  <2>3. Counter!CountExact'
    BY <1>1, <1>2, <1>5, <2>2 DEF Counter!CountExact
  <2> QED
    BY <1>4, <2>1, <2>3 DEF Counter!IInv
<1>6. CASE guard # "none"
  <2>1. a \in held /\ linebuf[a] = number /\ \A b \in held : a = b
    BY <1>1, <1>6 DEF Counter!IInv, Counter!LockHeld, Adder
  <2>2. Counter!LockHeld'
    BY <1>1, <1>6, <2>1
    DEF Counter!IInv, Counter!TypeOK, Counter!LockHeld, Counter!Goes, Adder
  <2>3. Counter!CountExact'
    BY <1>1, <1>2, <1>6, <2>1 DEF Counter!IInv, Counter!CountExact
  <2> QED
    BY <1>4, <2>2, <2>3 DEF Counter!IInv
<1> QED
  BY <1>5, <1>6

\* The lock is given back after the write.
LEMMA CounterRelease ==
  ASSUME Counter!IInv, NEW a \in Adder, Counter!Release(a), guard # "none"
  PROVE  Counter!IInv'
<1>1. /\ Counter!Goes(a, "done") /\ adder[a] = "unlock" /\ held' = {}
      /\ UNCHANGED <<guard, number, linebuf>>
  BY DEF Counter!Release, Counter!At
<1>2. Counter!Written' = Counter!Written
  BY <1>1, SameWritten DEF Counter!IInv
<1>3. Counter!TypeOK'
  BY <1>1 DEF Counter!IInv, Counter!TypeOK, Counter!Goes, Adder
<1>4. Counter!LockHeld'
  BY <1>1 DEF Counter!IInv, Counter!TypeOK, Counter!LockHeld, Counter!Goes, Adder
<1>5. Counter!CountExact'
  BY <1>1, <1>2 DEF Counter!IInv, Counter!CountExact
<1> QED
  BY <1>3, <1>4, <1>5 DEF Counter!IInv

\* main creates and waits; what it finds is no adder that wrote.
LEMMA CounterCreate ==
  ASSUME Counter!IInv, Counter!Create
  PROVE  Counter!IInv'
<1>1. UNCHANGED <<guard, number, held, linebuf>>
  BY DEF Counter!Create
<1>2. CASE UNCHANGED adder
  <2>1. Counter!Written' = Counter!Written
    BY <1>2, WrittenIs, WrittenIsNext DEF Wrote
  <2> QED
    BY <1>1, <1>2, <2>1
    DEF Counter!IInv, Counter!TypeOK, Counter!LockHeld, Counter!CountExact
<1>3. ASSUME NEW a \in Adder, adder[a] = "new", Counter!Goes(a, "open") PROVE Counter!IInv'
  <2>1. Counter!Written' = Counter!Written
    BY <1>3, SameWritten DEF Counter!IInv
  <2>2. Counter!TypeOK'
    BY <1>1, <1>3 DEF Counter!IInv, Counter!TypeOK, Counter!Goes, Adder
  <2>3. Counter!LockHeld'
    BY <1>1, <1>3, <2>1 DEF Counter!IInv, Counter!TypeOK, Counter!LockHeld, Counter!Goes, Adder
  <2>4. Counter!CountExact'
    BY <1>1, <2>1 DEF Counter!IInv, Counter!CountExact
  <2> QED
    BY <2>2, <2>3, <2>4 DEF Counter!IInv
<1> QED
  BY <1>2, <1>3 DEF Counter!Create, Adder

\* The invariant speaks of the counter's variables only.
LEMMA CounterSame ==
  ASSUME Counter!IInv, UNCHANGED <<guard, number, held, adder, linebuf>>
  PROVE  Counter!IInv'
<1>1. Counter!Written' = Counter!Written
  BY WrittenIs, WrittenIsNext DEF Wrote
<1> QED
  BY <1>1 DEF Counter!IInv, Counter!TypeOK, Counter!LockHeld, Counter!CountExact

\* Each step of a counter program keeps its invariant.
LEMMA CounterStep ==
  ASSUME Counter!IInv, Counter!Next
  PROVE  Counter!IInv'
<1>1. ASSUME NEW a \in Adder, Counter!AdderStep(a) PROVE Counter!IInv'
  <2>1. CASE Counter!Open(a)
    BY <2>1, CounterOpen
  <2>2. CASE Counter!Acquire(a) /\ guard # "none"
    BY <2>2, CounterAcquire
  <2>3. CASE Counter!P(a)
    BY <2>3, CounterAcquire, CounterRefused DEF Counter!P, Counter!At
  <2>4. CASE Counter!Read(a)
    BY <2>4, CounterRead
  <2>5. CASE Counter!Write(a)
    BY <2>5, CounterWrite
  <2>6. CASE Counter!Release(a) /\ guard # "none"
    BY <2>6, CounterRelease
  <2> QED
    BY <1>1, <2>1, <2>2, <2>3, <2>4, <2>5, <2>6
    DEF Counter!AdderStep, Counter!thr_add, Counter!thr_add_mutex, Counter!func_add_lockf,
        Counter!func_add_sem, Counter!V
<1>2. CASE Counter!MainStep
  <2>1. CASE Counter!Create
    BY <2>1, CounterCreate
  <2>2. CASE Counter!Join
    BY <2>2, CounterSame DEF Counter!Join
  <2> QED
    BY <1>2, <2>1, <2>2
    DEF Counter!MainStep, Counter!add, Counter!add_mutex, Counter!add_lockf, Counter!add_sem
<1>3. CASE Counter!Over
  BY <1>3, CounterSame DEF Counter!Over, Counter!counterVars
<1> QED
  BY <1>1, <1>2, <1>3 DEF Counter!Next, Adder

-----------------------------------------------------------------------------
(* The semaphore's own program. *)

Last == Cardinality(Thread) - 1
Workers == 1 .. Last
Working == {w \in Workers : stage[w] = "work"}

\* There is a thread to create, and finitely many of them.
LEMMA LastNat == Last \in Nat \ {0} /\ IsFiniteSet(Workers)
<1>1. Cardinality(Thread) \in Nat
  BY ThreadAssumption, FS_CardinalityType
<1>2. Last \in Nat \ {0}
  BY <1>1, ThreadAssumption DEF Last
<1> QED
  BY <1>2, FS_Interval DEF Workers

\* SemPrimer counts with the same Cardinality.
LEMMA PrimerSizes == \A S : Primer!Cardinality(S) = Cardinality(S)
  BY DEF Primer!Cardinality, Cardinality

\* SemPrimer's threads are the free callers but thread 0, which is main.
LEMMA WorkersAre == Primer!Worker = Workers /\ Primer!Main = 0
  BY DEF Primer!Worker, Primer!Main, Workers, Last

\* The threads that have a unit are finitely many.
LEMMA WorkingFinite == IsFiniteSet(Working) /\ Cardinality(Working) \in Nat
<1>1. Working \in SUBSET Workers
  BY DEF Working
<1>2. IsFiniteSet(Working)
  BY <1>1, LastNat, FS_Subset
<1> QED
  BY <1>2, FS_CardinalityType

\* The unit main holds on its way to pthread_create.
OnItsWay == IF step \in {"create", "failed"} THEN 1 ELSE 0

\* The units are in the semaphore, in main's hands or a thread's ...
LEMMA UnitsAre ==
  Primer!UnitsAccounted <=> value + Cardinality(Working) + OnItsWay = InitVal
  BY PrimerSizes, WorkersAre DEF Primer!UnitsAccounted, Working, OnItsWay

\* ... after a step too.
LEMMA UnitsAreNext ==
  Primer!UnitsAccounted' <=> value' + Cardinality(Working') + OnItsWay' = InitVal
  BY PrimerSizes, WorkersAre DEF Primer!UnitsAccounted, Working, OnItsWay

\* Every unit is in the semaphore before main takes the first.
LEMMA PrimerInit == Primer!Init => Primer!IInv
<1> SUFFICES ASSUME Primer!Init PROVE Primer!IInv
  OBVIOUS
<1>1. Working = {} /\ OnItsWay = 0 /\ value = InitVal /\ InitVal \in Nat
  BY WorkersAre, UnitsAssumption DEF Primer!Init, Primer!Sem!Init, Working, OnItsWay
<1>2. Primer!UnitsAccounted
  BY <1>1, UnitsAre, FS_EmptySet
<1>3. Primer!TypeOK
  BY <1>1, LastNat DEF Primer!Init, Primer!Sem!Init, Primer!TypeOK, Last
<1>4. Primer!InOrder
  <2>1. /\ step \in {"sub", "none"} /\ created = 0 /\ joined = 0
        /\ stage = [w \in Workers |-> "none"]
        /\ pc = [t \in Workers \cup {0} |-> "idle"]
    BY WorkersAre DEF Primer!Init, Primer!Sem!Init
  <2>2. /\ \A w \in Workers : stage[w] = "none" /\ w > 0
        /\ pc[0] = "idle"
    BY <2>1, LastNat DEF Workers
  <2>3. \A w \in Workers : stage[w] = "none" <=> w > created
    <3> SUFFICES ASSUME NEW w \in Workers PROVE stage[w] = "none" /\ w > created
      OBVIOUS
    <3> QED
      BY <2>1, <2>2
  <2>5. \A w \in 1 .. joined : stage[w] = "gone"
    BY <2>1
  <2>4. created < Cardinality(Thread) - 1
    <3>1. created < Last
      BY <2>1, LastNat
    <3> QED
      BY <3>1 DEF Last
  <2> QED
    BY <2>1, <2>2, <2>3, <2>4, <2>5, WorkersAre DEF Primer!InOrder
<1> QED
  BY <1>2, <1>3, <1>4 DEF Primer!IInv

\* mysem_sub up to the take: no unit moves.
LEMMA PrimerSub ==
  ASSUME Primer!IInv, Primer!MainSub
  PROVE  Primer!IInv'
<1>1. UNCHANGED <<value, step, created, joined, stage>>
  BY DEF Primer!MainSub, Primer!Sem!SubCall, Primer!Sem!SubSleep, Primer!Sem!SpuriousWakeup
<1>2. Primer!UnitsAccounted'
  BY <1>1, UnitsAre, UnitsAreNext DEF Primer!IInv, Working, OnItsWay
<1>3. Primer!TypeOK'
  BY <1>1 DEF Primer!IInv, Primer!TypeOK, Primer!MainSub, Primer!Sem!SubCall,
     Primer!Sem!SubSleep, Primer!Sem!SpuriousWakeup
<1>4. Primer!InOrder'
  BY <1>1, WorkersAre DEF Primer!IInv, Primer!TypeOK, Primer!InOrder, Primer!MainSub,
     Primer!Sem!SubCall, Primer!Sem!SubSleep, Primer!Sem!SpuriousWakeup
<1> QED
  BY <1>2, <1>3, <1>4 DEF Primer!IInv

\* The unit taken is the one main holds.
LEMMA PrimerTake ==
  ASSUME Primer!IInv, Primer!MainTake
  PROVE  Primer!IInv'
<1>1. /\ step = "sub" /\ step' = "create" /\ pc[0] = "sub"
      /\ value' = value - need[0] /\ pc' = [pc EXCEPT ![0] = "idle"]
      /\ UNCHANGED <<need, created, joined, stage>>
  BY WorkersAre DEF Primer!MainTake, Primer!Sem!SubTake
<1>2. need[0] = 1 /\ value \in Int
  BY <1>1, WorkersAre DEF Primer!IInv, Primer!TypeOK, Primer!InOrder
<1>3. Primer!UnitsAccounted'
  <2>1. value + Cardinality(Working) + 0 = InitVal
    BY <1>1, UnitsAre DEF Primer!IInv, OnItsWay
  <2>2. Working' = Working /\ OnItsWay' = 1
    BY <1>1 DEF Working, OnItsWay
  <2> QED
    BY <1>1, <1>2, <2>1, <2>2, UnitsAreNext, WorkingFinite
<1>4. value' \in Int
  BY <1>1, <1>2
<1>5. Primer!TypeOK'
  BY <1>1, <1>4 DEF Primer!IInv, Primer!TypeOK
<1>6. Primer!InOrder'
  BY <1>1, WorkersAre DEF Primer!IInv, Primer!TypeOK, Primer!InOrder
<1> QED
  BY <1>3, <1>5, <1>6 DEF Primer!IInv

\* The thread created takes the unit over; without a thread main keeps it.
LEMMA PrimerCreate ==
  ASSUME Primer!IInv, Primer!MainCreate
  PROVE  Primer!IInv'
<1>1. step = "create" /\ UNCHANGED <<value, pc, need, joined>>
  BY DEF Primer!MainCreate, Primer!semVars
<1>2. value + Cardinality(Working) + 1 = InitVal /\ value \in Int
  BY <1>1, UnitsAre DEF Primer!IInv, Primer!TypeOK, OnItsWay
<1>3. CASE step' = "failed" /\ UNCHANGED <<created, stage>>
  <2>1. Working' = Working /\ OnItsWay' = 1
    BY <1>3 DEF Working, OnItsWay
  <2>2. Primer!UnitsAccounted'
    BY <1>1, <1>2, <2>1, UnitsAreNext
  <2>3. Primer!TypeOK'
    BY <1>1, <1>3 DEF Primer!IInv, Primer!TypeOK
  <2>4. Primer!InOrder'
    BY <1>1, <1>3, WorkersAre DEF Primer!IInv, Primer!InOrder
  <2> QED
    BY <2>2, <2>3, <2>4 DEF Primer!IInv
<1>4. CASE /\ created' = created + 1
           /\ stage' = [stage EXCEPT ![created + 1] = "work"]
           /\ step' = IF created + 1 = Last THEN "join" ELSE "sub"
  <2>1. /\ created \in 0 .. Last /\ created < Last /\ joined \in 0 .. Last
        /\ stage \in [Workers -> {"none", "work", "exit", "gone"}]
        /\ \A w \in Workers : stage[w] = "none" <=> w > created
        /\ \A w \in 1 .. joined : stage[w] = "gone"
    BY <1>1, WorkersAre DEF Primer!IInv, Primer!TypeOK, Primer!InOrder, Last
  <2>2. created + 1 \in Workers /\ stage[created + 1] = "none"
    BY <2>1, LastNat DEF Workers
  <2>3. joined < created + 1
    BY <2>1, <2>2
  <2>4. Working' = Working \cup {created + 1} /\ created + 1 \notin Working
    BY <1>4, <2>1, <2>2 DEF Working
  <2>5. Cardinality(Working') = Cardinality(Working) + 1
    BY <2>4, WorkingFinite, FS_AddElement
  <2>6. OnItsWay' = 0
    BY <1>4 DEF OnItsWay
  <2>7. Primer!UnitsAccounted'
    BY <1>1, <1>2, <2>5, <2>6, WorkingFinite, UnitsAreNext
  <2>8. created' \in 0 .. Last /\ step' \in {"join", "sub"}
    BY <1>4, <2>1, LastNat
  <2>9. stage' \in [Workers -> {"none", "work", "exit", "gone"}]
    BY <1>4, <2>1
  <2>10. Primer!TypeOK'
    BY <1>1, <2>8, <2>9, WorkersAre DEF Primer!IInv, Primer!TypeOK, Last
  <2>11. \A w \in Workers : stage'[w] = "none" <=> w > created'
    BY <1>4, <2>1, <2>2 DEF Workers
  <2>12. \A w \in 1 .. joined : stage'[w] = "gone"
    BY <1>4, <2>1, <2>2, <2>3 DEF Workers
  <2>13. step' = "sub" => created' < Last
    BY <1>4, <2>1, LastNat
  <2>14. Primer!InOrder'
    BY <1>1, <2>8, <2>11, <2>12, <2>13, WorkersAre DEF Primer!IInv, Primer!InOrder, Last
  <2> QED
    BY <2>7, <2>10, <2>14 DEF Primer!IInv
<1> QED
  BY <1>3, <1>4 DEF Primer!MainCreate, Last

\* pthread_join of a thread that has ended moves no unit.
LEMMA PrimerJoin ==
  ASSUME Primer!IInv, Primer!MainJoin
  PROVE  Primer!IInv'
<1>1. /\ step = "join" /\ joined < Last /\ stage[joined + 1] = "gone"
      /\ joined' = joined + 1
      /\ UNCHANGED <<value, pc, need, step, created, stage>>
  BY DEF Primer!MainJoin, Primer!semVars, Last
<1>2. joined \in 0 .. Last
  BY DEF Primer!IInv, Primer!TypeOK, Last
<1>3. Primer!UnitsAccounted'
  BY <1>1, UnitsAre, UnitsAreNext DEF Primer!IInv, Working, OnItsWay
<1>4. joined' \in 0 .. Last
  BY <1>1, <1>2, LastNat
<1>5. Primer!TypeOK'
  BY <1>1, <1>4 DEF Primer!IInv, Primer!TypeOK, Last
<1>6. \A w \in 1 .. joined' : stage[w] = "gone"
  BY <1>1, <1>2 DEF Primer!IInv, Primer!InOrder
<1>7. Primer!InOrder'
  BY <1>1, <1>6, WorkersAre DEF Primer!IInv, Primer!InOrder
<1> QED
  BY <1>3, <1>5, <1>7 DEF Primer!IInv

\* mysem_destroy comes when every thread was joined.
LEMMA PrimerDestroy ==
  ASSUME Primer!IInv, Primer!MainDestroy
  PROVE  Primer!IInv'
<1>1. /\ step = "join" /\ joined = Last /\ step' = "destroyed"
      /\ UNCHANGED <<value, pc, need, created, joined, stage>>
  BY DEF Primer!MainDestroy, Primer!semVars, Last
<1>2. Primer!UnitsAccounted'
  BY <1>1, UnitsAre, UnitsAreNext DEF Primer!IInv, Working, OnItsWay
<1>3. Primer!TypeOK'
  BY <1>1 DEF Primer!IInv, Primer!TypeOK
<1>4. Primer!InOrder'
  BY <1>1, WorkersAre DEF Primer!IInv, Primer!InOrder, Last
<1> QED
  BY <1>2, <1>3, <1>4 DEF Primer!IInv

\* The thread gives its unit back.
LEMMA PrimerAdd ==
  ASSUME Primer!IInv, NEW w \in Workers, Primer!WorkerAdd(w)
  PROVE  Primer!IInv'
<1>1. /\ stage[w] = "work" /\ stage' = [stage EXCEPT ![w] = "exit"]
      /\ value' = value + 1
      /\ pc' = [t \in Workers \cup {0} |-> IF pc[t] = "wait" THEN "sub" ELSE pc[t]]
      /\ UNCHANGED <<need, step, created, joined>>
  BY WorkersAre DEF Primer!WorkerAdd, Primer!Sem!Add, Primer!Sem!Broadcast
<1>2. /\ stage \in [Workers -> {"none", "work", "exit", "gone"}] /\ value \in Int
      /\ joined \in 0 .. Last
      /\ \A v \in Workers : stage[v] = "none" <=> v > created
      /\ \A v \in 1 .. joined : stage[v] = "gone"
  BY WorkersAre DEF Primer!IInv, Primer!TypeOK, Primer!InOrder, Last
<1>3. Primer!UnitsAccounted'
  <2>1. Working' = Working \ {w} /\ w \in Working
    BY <1>1, <1>2 DEF Working
  <2>2. Cardinality(Working') = Cardinality(Working) - 1
    BY <2>1, WorkingFinite, FS_RemoveElement
  <2>3. OnItsWay' = OnItsWay /\ OnItsWay \in {0, 1}
    BY <1>1 DEF OnItsWay
  <2>4. value + Cardinality(Working) + OnItsWay = InitVal
    BY UnitsAre DEF Primer!IInv
  <2> QED
    BY <1>1, <1>2, <2>2, <2>3, <2>4, WorkingFinite, UnitsAreNext
<1>4. Primer!TypeOK'
  BY <1>1, <1>2, WorkersAre DEF Primer!IInv, Primer!TypeOK
<1>5. \A v \in Workers : stage'[v] = "none" <=> v > created
  BY <1>1, <1>2
<1>6. \A v \in 1 .. joined : stage'[v] = "gone"
  BY <1>1, <1>2, LastNat DEF Workers
<1>7. pc'[0] # "idle" => pc[0] # "idle"
  BY <1>1
<1>8. Primer!InOrder'
  BY <1>1, <1>5, <1>6, <1>7, WorkersAre DEF Primer!IInv, Primer!InOrder
<1> QED
  BY <1>3, <1>4, <1>8 DEF Primer!IInv

\* pthread_exit of a thread that has given its unit back.
LEMMA PrimerExit ==
  ASSUME Primer!IInv, NEW w \in Workers, Primer!WorkerExit(w)
  PROVE  Primer!IInv'
<1>1. /\ stage[w] = "exit" /\ stage' = [stage EXCEPT ![w] = "gone"]
      /\ UNCHANGED <<value, pc, need, step, created, joined>>
  BY DEF Primer!WorkerExit, Primer!semVars
<1>2. /\ stage \in [Workers -> {"none", "work", "exit", "gone"}] /\ joined \in 0 .. Last
      /\ \A v \in Workers : stage[v] = "none" <=> v > created
      /\ \A v \in 1 .. joined : stage[v] = "gone"
  BY WorkersAre DEF Primer!IInv, Primer!TypeOK, Primer!InOrder, Last
<1>3. Primer!UnitsAccounted'
  <2>1. Working' = Working
    BY <1>1, <1>2 DEF Working
  <2> QED
    BY <1>1, <2>1, UnitsAre, UnitsAreNext DEF Primer!IInv, OnItsWay
<1>4. Primer!TypeOK'
  BY <1>1, <1>2, WorkersAre DEF Primer!IInv, Primer!TypeOK
<1>5. \A v \in Workers : stage'[v] = "none" <=> v > created
  BY <1>1, <1>2
<1>6. \A v \in 1 .. joined : stage'[v] = "gone"
  BY <1>1, <1>2, LastNat DEF Workers
<1>7. Primer!InOrder'
  BY <1>1, <1>5, <1>6, WorkersAre DEF Primer!IInv, Primer!InOrder
<1> QED
  BY <1>3, <1>4, <1>7 DEF Primer!IInv

\* The invariant speaks of the program's variables only.
LEMMA PrimerSame ==
  ASSUME Primer!IInv, UNCHANGED <<value, pc, need, step, created, joined, stage>>
  PROVE  Primer!IInv'
<1>1. Primer!UnitsAccounted'
  BY UnitsAre, UnitsAreNext DEF Primer!IInv, Working, OnItsWay
<1> QED
  BY <1>1 DEF Primer!IInv, Primer!TypeOK, Primer!InOrder

\* Each step of mysemaphore/main.c keeps its invariant.
LEMMA PrimerStep ==
  ASSUME Primer!IInv, Primer!Next
  PROVE  Primer!IInv'
<1>1. CASE Primer!MainStep
  BY <1>1, PrimerSub, PrimerTake, PrimerCreate, PrimerJoin, PrimerDestroy DEF Primer!MainStep
<1>2. CASE Primer!Ended
  BY <1>2, PrimerSame DEF Primer!Ended, Primer!vars
<1>3. ASSUME NEW w \in Workers, Primer!WorkerAdd(w) \/ Primer!WorkerExit(w) PROVE Primer!IInv'
  BY <1>3, PrimerAdd, PrimerExit
<1> QED
  BY <1>1, <1>2, <1>3, WorkersAre DEF Primer!Next

-----------------------------------------------------------------------------
(* The three together. *)

\* Whichever is started, each is where it may be; the program's own main
\* does not move unless it is the one.
AllIInv == /\ program = "primer" => Primer!IInv
           /\ program # "primer" => step = "sub"
           /\ Counter!IInv

\* Whichever program runs, its invariant holds (mysem's program, the counters).
THEOREM SemsInvariant == SemsSpec => []AllIInv
<1>1. SemsInit => AllIInv
  BY PrimerInit, CounterInit DEF SemsInit, AllIInv, Primer!Init
<1>2. AllIInv /\ [SemsNext]_semsVars => AllIInv'
  <2> SUFFICES ASSUME AllIInv, [SemsNext]_semsVars PROVE AllIInv'
    OBVIOUS
  <2>1. CASE program = "free" /\ Next /\ UNCHANGED <<program, primerVars, counterVars>>
    BY <2>1, CounterSame DEF AllIInv, primerVars, counterVars
  <2>2. CASE PrimerRuns(Primer!Next)
    BY <2>2, PrimerStep, CounterSame DEF AllIInv, PrimerRuns, counterVars
  <2>3. CASE CounterRuns(Counter!Next)
    BY <2>3, CounterStep DEF AllIInv, CounterRuns, primerVars
  <2>4. CASE UNCHANGED semsVars
    BY <2>4, PrimerSame, CounterSame DEF AllIInv, semsVars, vars, primerVars, counterVars
  <2> QED
    BY <2>1, <2>2, <2>3, <2>4 DEF SemsNext
<1> QED
  BY <1>1, <1>2, PTL DEF SemsSpec

\* /tmp/out counts those that wrote under the mutex, lockf or the System V
\* semaphore, for any number of threads or processes; without a lock it
\* never counts too many.
THEOREM NumberCounts == SemsSpec => []CountExact
<1>1. AllIInv => CountExact
  BY DEF AllIInv, Counter!IInv, CountExact
<1> QED
  BY <1>1, SemsInvariant, PTL

\* mysemaphore/main.c loses no unit and makes none.
THEOREM NoUnitLost == SemsSpec => []UnitsAccounted
<1>1. AllIInv => UnitsAccounted
  BY DEF AllIInv, Primer!IInv, UnitsAccounted
<1> QED
  BY <1>1, SemsInvariant, PTL

\* mysem_destroy comes after the last mysem_add.
THEOREM DestroyedLast == SemsSpec => []DestroyAfterLast
<1>1. AllIInv => DestroyAfterLast
  BY WorkersAre DEF AllIInv, Primer!IInv, Primer!InOrder, Workers, Last, DestroyAfterLast,
     Primer!DestroyAfterLast
<1> QED
  BY <1>1, SemsInvariant, PTL

-----------------------------------------------------------------------------
(* The program as a user of the semaphore. *)

\* The semaphore's users are main and the threads.
LEMMA UsersAre == Thread = Workers \cup {0}
  BY ThreadAssumption, LastNat DEF Workers, Last

\* What main and the threads of mysemaphore/main.c do to the semaphore are
\* calls that its users may make.
LEMMA PrimerCalls ==
  ASSUME Primer!Next
  PROVE  [Next]_vars
<1>1. Thread = Workers \cup {0} /\ 1 \in 1 .. MaxUnits
  BY UsersAre, UnitsAssumption, CallsAssumption
<1>2. CASE Primer!MainSub
  <2>1. SubCall(0, 1) \/ SubSleep(0) \/ SpuriousWakeup(0)
    BY <1>2 DEF Primer!MainSub, Primer!Main, Primer!Sem!SubCall, Primer!Sem!SubSleep,
       Primer!Sem!SpuriousWakeup, SubCall, SubSleep, SpuriousWakeup
  <2> QED
    BY <1>1, <2>1 DEF Next
<1>3. CASE Primer!MainTake
  <2>1. SubTake(0)
    BY <1>3 DEF Primer!MainTake, Primer!Main, Primer!Sem!SubTake, SubTake
  <2> QED
    BY <1>1, <2>1 DEF Next
<1>4. ASSUME NEW w \in Workers, Primer!WorkerAdd(w) PROVE [Next]_vars
  <2>1. Add(w, 1)
    BY <1>1, <1>4, WorkersAre
    DEF Primer!WorkerAdd, Primer!Sem!Add, Primer!Sem!Broadcast, Add, Broadcast
  <2> QED
    BY <1>1, <1>4, <2>1 DEF Next
<1>5. CASE \/ Primer!MainCreate \/ Primer!MainJoin \/ Primer!MainDestroy \/ Primer!Ended
           \/ \E w \in Workers : Primer!WorkerExit(w)
  BY <1>5 DEF Primer!MainCreate, Primer!MainJoin, Primer!MainDestroy, Primer!Ended,
     Primer!WorkerExit, Primer!semVars, Primer!vars, vars
<1> QED
  BY <1>2, <1>3, <1>4, <1>5, WorkersAre DEF Primer!Next, Primer!MainStep

\* mysemaphore/main.c uses the semaphore as its users may: what is true of
\* mysem under any callers is true of it there.
THEOREM PrimerIsAUser == SemsSpec => Spec
<1>1. SemsInit => Init
  BY UsersAre, WorkersAre DEF SemsInit, Primer!Init, Primer!Sem!Init, Init
<1>2. [SemsNext]_semsVars => [Next]_vars
  BY PrimerCalls DEF SemsNext, PrimerRuns, CounterRuns, semsVars
<1> QED
  BY <1>1, <1>2, PTL DEF SemsSpec, Spec

\* Under its own program too nobody sleeps in mysem_sub whose request can be
\* met, and mysem is a semaphore.
THEOREM SemaphoreInUse == SemsSpec => []SleepersUnmet /\ KeepsPromise
  BY PrimerIsAUser, NoLostWakeup, Refinement, PTL
=============================================================================
