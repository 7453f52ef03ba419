------------------------------ MODULE MCTurns ------------------------------
(***************************************************************************)
(* The programs whose threads wait for each other's turn: the two that     *)
(* print abcd, 010printabcd_cond.c (PrintCond) and 007printabcd.c          *)
(* (PrintChain), and the callers of mypipe.c (MyPipe): any is started.     *)
(***************************************************************************)
EXTENDS PrintCond

CONSTANT Limit

ASSUME LimitAssumption == Limit \in Nat

VARIABLES program,                                    \* cond, chain or pipe
          locked, created, opened, chainPc, chainOut, \* 007printabcd.c
          me, count_rd, count_wd, opmap, at, asleep   \* mypipe.c

Chain == INSTANCE PrintChain WITH pc <- chainPc, out <- chainOut
Pipe == INSTANCE MyPipe WITH Peer <- Thread

chainVars == <<locked, created, opened, chainPc, chainOut>>
pipeVars == <<me, count_rd, count_wd, opmap, at, asleep>>
turnVars == <<program, vars, chainVars, pipeVars>>

CondRuns(A) == program = "cond" /\ A /\ UNCHANGED <<program, chainVars, pipeVars>>
ChainRuns == program = "chain" /\ Chain!Next /\ UNCHANGED <<program, vars, pipeVars>>
PipeRuns(A) == program = "pipe" /\ A /\ UNCHANGED <<program, vars, chainVars>>

TurnsInit == program \in {"cond", "chain", "pipe"} /\ Init /\ Chain!Init /\ Pipe!Init

TurnsNext == CondRuns(Next) \/ ChainRuns \/ PipeRuns(Pipe!Next)

\* A peer that got into the pipe is expected to leave it.
TurnsSpec == /\ TurnsInit /\ [][TurnsNext]_turnVars
             /\ \A t \in Thread :
                  /\ WF_turnVars(CondRuns(Wait(t) \/ Write(t)))
                  /\ WF_turnVars(PipeRuns(Pipe!Runs(t)))
                  /\ WF_turnVars(PipeRuns(Pipe!mypipe_unregister(t)))
             /\ WF_turnVars(ChainRuns)
-----------------------------------------------------------------------------
\* One permission goes round the chain of mutexes (PrintChain).
OnePermission == Chain!OnePermission

\* Nobody sleeps in the pipe through what it waits for (MyPipe).
PipeAwake == Pipe!PipeAwake

\* Both print abcdabcd...
BothInTurn == InTurn /\ Chain!InTurn

\* The first prints all its letters and ends; the second prints on; a reader
\* of the pipe comes to its end of file.
PrintsOn == /\ program = "cond" => AllPrinted
            /\ program = "chain" => Chain!KeepsPrinting
            /\ program = "pipe" => Pipe!ReadEnds
=============================================================================
