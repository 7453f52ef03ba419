------------------------------ MODULE MCPools ------------------------------
(***************************************************************************)
(* The two prime-number pools, 009prime_cond.c (PrimePool) and             *)
(* 008prime_pool_busy.c (PoolBusy), which have the same state and are      *)
(* asked for the properties of PrimePool; the programs without a pool      *)
(* (Primers); and the others around fork and wait (Procs).  One of them is *)
(* started.                                                                *)
(***************************************************************************)
EXTENDS PrimePool

\* The primes are looked for from 30000000 on, by 3 or more.
ASSUME PrimersAssumption == LEFT > 4 /\ IsFiniteSet(Worker)

VARIABLES program,  \* cond, busy, primers or procs
          style, boss, created, at, args, reported,  \* as in Primers
          prog, tty, stmt, parent, waited, buf, shared, out, printed  \* as in Procs

Busy == INSTANCE PoolBusy
Plain == INSTANCE Primers WITH N <- Cardinality(Worker)

Fork == INSTANCE Procs WITH pc <- stmt

procVars == <<prog, tty, stmt, parent, waited, buf, shared, out, printed>>
plainVars == <<style, boss, created, at, args, reported>>
poolVars == <<vars, program, plainVars, procVars>>

\* The choices of a program's Init count in that program only.
PoolInit == /\ program \in {"cond", "busy", "primers", "procs"}
            /\ Init /\ Plain!Init /\ Fork!Init
            /\ program # "primers" => style = "alone"
            /\ program # "procs" => prog = "fork" /\ tty

Runs(p, A) == program = p /\ A /\ UNCHANGED <<program, plainVars, procVars>>
PlainRuns == program = "primers" /\ Plain!Next /\ UNCHANGED <<program, vars, procVars>>
ProcRuns == program = "procs" /\ Fork!Next /\ UNCHANGED <<program, vars, plainVars>>

PoolNext == Runs("cond", Next) \/ Runs("busy", Busy!Next) \/ PlainRuns \/ ProcRuns

MainRuns == Runs("cond", MainStep) \/ Runs("busy", Busy!MainStep)
WorkerRuns(w) == Runs("cond", WorkerStep(w)) \/ Runs("busy", Busy!WorkerStep(w))

\* main and every worker keep being scheduled.
PoolSpec == /\ PoolInit /\ [][PoolNext]_poolVars
            /\ WF_poolVars(MainRuns) /\ WF_poolVars(PlainRuns \/ ProcRuns)
            /\ \A w \in Worker : WF_poolVars(WorkerRuns(w))
-----------------------------------------------------------------------------
\* What the programs without a pool report (Primers).
PrimesReported == Plain!PrimesReported

\* What the programs around fork print is written once (Procs).
WrittenOnce == Fork!WrittenOnce

\* Every task is taken (PrimePool), every helper (Primers) and child (Procs)
\* ends.
AllTaken == /\ program = "primers" => Plain!PrimersEnd
            /\ program = "procs" => Fork!ProcsEnd
            /\ program \in {"cond", "busy"} => TasksTaken

\* The last task is consumed and main ends ("the last task must be consumed",
\* 009prime_cond.c:57).
PoolLastConsumed == program \in {"cond", "busy"} => LastTaskConsumed
=============================================================================
