----------------------------- MODULE SemPrimer -----------------------------
(***************************************************************************)
(* The program mysemaphore/main.c on top of mysem: main takes a unit and   *)
(* creates a thread, THRNUM times; a thread computes, gives the unit back  *)
(* and exits; main joins them all and destroys the semaphore.              *)
(***************************************************************************)
EXTENDS Integers, FiniteSets

CONSTANTS N,       \* threads that may exist together
          THRNUM   \* threads to create: one or more

Main == 0
Worker == 1 .. THRNUM

VARIABLES value, pc, need,  \* the semaphore (MySem)
          step,     \* main: sub, create, join, destroyed; exit(1): none or failed
          created,  \* threads created
          joined,   \* threads joined
          stage     \* each thread: none, work, exit (unit given back) or gone

semVars == <<value, pc, need>>
vars == <<value, pc, need, step, created, joined, stage>>

Sem == INSTANCE MySem WITH Thread <- Worker \cup {Main}, InitVal <- N, MaxUnits <- 1

\* mysem_init, without which main exits.
Init == /\ Sem!Init
        /\ step \in {"sub", "none"} /\ created = 0 /\ joined = 0
        /\ stage = [w \in Worker |-> "none"]

\* The process is still there: main has not called exit().
Running == step \notin {"destroyed", "failed", "none"}

\* mysem_sub(sem, 1) in main, up to the take.
MainSub ==
  /\ step = "sub"
  /\ Sem!SubCall(Main, 1) \/ Sem!SubSleep(Main) \/ Sem!SpuriousWakeup(Main)
  /\ UNCHANGED <<step, created, joined, stage>>

MainTake ==
  /\ step = "sub" /\ Sem!SubTake(Main)
  /\ step' = "create"
  /\ UNCHANGED <<created, joined, stage>>

\* pthread_create succeeds, or main reports it and exits.
MainCreate ==
  /\ step = "create"
  /\ \/ /\ created' = created + 1
        /\ stage' = [stage EXCEPT ![created + 1] = "work"]
        /\ step' = IF created + 1 = THRNUM THEN "join" ELSE "sub"
     \/ /\ step' = "failed"
        /\ UNCHANGED <<created, stage>>
  /\ UNCHANGED <<semVars, joined>>

\* Mutant: the join loop does not wait for the thread.
MainJoinBlind ==
  /\ step = "join" /\ joined < THRNUM
  /\ joined' = joined + 1
  /\ UNCHANGED <<semVars, step, created, stage>>

MainJoin ==
  /\ step = "join" /\ joined < THRNUM /\ stage[joined + 1] = "gone"
  /\ joined' = joined + 1
  /\ UNCHANGED <<semVars, step, created, stage>>

\* mysem_destroy(sem); exit(0).
MainDestroy ==
  /\ step = "join" /\ joined = THRNUM
  /\ step' = "destroyed"
  /\ UNCHANGED <<semVars, created, joined, stage>>

\* Mutant: the thread ends without giving its unit back.
WorkerKeeps(w) ==
  /\ Running /\ stage[w] = "work"
  /\ stage' = [stage EXCEPT ![w] = "exit"]
  /\ UNCHANGED <<semVars, step, created, joined>>

\* thr_primer: after the test and sleep(10), mysem_add(sem, 1) ...
WorkerAdd(w) ==
  /\ Running /\ stage[w] = "work"
  /\ Sem!Add(w, 1)
  /\ stage' = [stage EXCEPT ![w] = "exit"]
  /\ UNCHANGED <<step, created, joined>>

\* ... and pthread_exit.
WorkerExit(w) ==
  /\ Running /\ stage[w] = "exit"
  /\ stage' = [stage EXCEPT ![w] = "gone"]
  /\ UNCHANGED <<semVars, step, created, joined>>

Ended == ~Running /\ UNCHANGED vars

MainStep == MainSub \/ MainTake \/ MainCreate \/ MainJoin \/ MainDestroy
Next == MainStep \/ Ended \/ \E w \in Worker : WorkerAdd(w) \/ WorkerExit(w)

Spec == Init /\ [][Next]_vars
FairSpec == /\ Spec /\ WF_vars(MainStep) /\ WF_vars(MainTake)
            /\ \A w \in Worker : WF_vars(WorkerAdd(w) \/ WorkerExit(w))
-----------------------------------------------------------------------------
Alive == {w \in Worker : stage[w] \in {"work", "exit"}}

\* Every unit is free, held by main on its way to pthread_create, or held by
\* a thread that is computing: none is lost and none is made.
UnitsAccounted ==
  value + Cardinality({w \in Worker : stage[w] = "work"})
        + (IF step \in {"create", "failed"} THEN 1 ELSE 0) = N

\* mysem_destroy never frees the semaphore under a thread that can still be
\* inside mysem_add.
DestroyAfterLast ==
  step = "destroyed" => \A w \in Worker : stage[w] = "gone"

\* What the two rest on: threads exist up to created and are gone up to
\* joined, main goes on only when it has created, or joined, them all, and in
\* mysem_sub it asks for one unit.
TypeOK == /\ value \in Int
          /\ pc \in [Worker \cup {Main} -> {"idle", "sub", "wait"}]
          /\ need \in [Worker \cup {Main} -> 0 .. 1]
          /\ step \in {"sub", "create", "join", "destroyed", "failed", "none"}
          /\ created \in 0 .. THRNUM /\ joined \in 0 .. THRNUM
          /\ stage \in [Worker -> {"none", "work", "exit", "gone"}]

InOrder == /\ \A w \in Worker : stage[w] = "none" <=> w > created
           /\ \A w \in 1 .. joined : stage[w] = "gone"
           /\ step \in {"sub", "create"} => created < THRNUM
           /\ step = "destroyed" => joined = THRNUM
           /\ pc[Main] # "idle" => need[Main] = 1

IInv == TypeOK /\ InOrder /\ UnitsAccounted

\* main ends: no sequence of takes and wakeups leaves it waiting for a unit.
MainEnds == <>~Running

\* What main.c:12 and main.c:15 say: at most N threads exist at a time.
AtMostNThreads == Cardinality(Alive) =< N
=============================================================================
