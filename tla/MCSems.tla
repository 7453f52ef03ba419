------------------------------- MODULE MCSems -------------------------------
(***************************************************************************)
(* The semaphore under threads that take and give back as they like        *)
(* (MySem), under its own program, mysemaphore/main.c (SemPrimer), and the *)
(* counters (Counters): one of them is started.  Thread 0 is main.         *)
(***************************************************************************)
EXTENDS MySem, FiniteSets

\* THRNUM threads, one at least, and main.
ASSUME ThreadAssumption == /\ IsFiniteSet(Thread) /\ Cardinality(Thread) > 1
                           /\ Thread = 0 .. Cardinality(Thread) - 1

\* A call may ask for one unit, as main's does.
ASSUME CallsAssumption == MaxUnits > 0

VARIABLES program,  \* free, primer or counter
          step, created, joined, stage,  \* as in SemPrimer
          guard, number, held, adder, linebuf, boss  \* as in Counters

Primer == INSTANCE SemPrimer WITH N <- InitVal, THRNUM <- Cardinality(Thread) - 1

Counter == INSTANCE Counters WITH Adder <- Thread \ {0}

primerVars == <<step, created, joined, stage>>
counterVars == <<guard, number, held, adder, linebuf, boss>>
semsVars == <<program, vars, primerVars, counterVars>>

SemsInit == /\ program \in {"free", "primer", "counter"}
            /\ Primer!Init /\ Counter!Init
            /\ program # "primer" => step = "sub"

PrimerRuns(A) == program = "primer" /\ A /\ UNCHANGED <<program, counterVars>>
CounterRuns(A) == program = "counter" /\ A /\ UNCHANGED <<program, vars, primerVars>>

SemsNext == \/ program = "free" /\ Next /\ UNCHANGED <<program, primerVars, counterVars>>
            \/ PrimerRuns(Primer!Next) \/ CounterRuns(Counter!Next)

\* main and the threads of the program keep being scheduled, and main, awake
\* with a unit there, does not go back to waiting for ever.
SemsSpec == /\ SemsInit /\ [][SemsNext]_semsVars
            /\ WF_semsVars(PrimerRuns(Primer!MainStep))
            /\ WF_semsVars(PrimerRuns(Primer!MainTake))
            /\ \A w \in 1 .. Cardinality(Thread) - 1 :
                 WF_semsVars(PrimerRuns(Primer!WorkerAdd(w) \/ Primer!WorkerExit(w)))
            /\ WF_semsVars(CounterRuns(Counter!MainStep \/ \E a \in Thread \ {0} : Counter!AdderStep(a)))
-----------------------------------------------------------------------------
\* No unit of the program's is lost or made (SemPrimer).
UnitsAccounted == program = "primer" => Primer!UnitsAccounted

\* The semaphore is destroyed after its last user (SemPrimer).
DestroyAfterLast == Primer!DestroyAfterLast

\* The number in the file is the number of those who added (Counters).
CountExact == Counter!CountExact

\* The programs' main ends (SemPrimer, Counters).
MainEnds == /\ program = "primer" => Primer!MainEnds
            /\ program = "counter" => Counter!CountEnds
=============================================================================
