------------------------------ MODULE MCPaced ------------------------------
(***************************************************************************)
(* The copying programs, with the state and the properties of PacedCopy:   *)
(* paced by SIGALRM, paced by a thread, and not paced; and the exercises   *)
(* on signal masks (Stars).  Any of them is started.                       *)
(***************************************************************************)
EXTENDS PacedCopy

CONSTANTS STARS, ROWS, MaxSent

VARIABLES program,
          exercise, place, mask, pending, sent, bangs, stars, rows, torn  \* as in Stars

starVars == <<exercise, place, mask, pending, sent, bangs, stars, rows, torn>>

Slow   == INSTANCE Slowcats
Signal == INSTANCE SignalBuckets
Thread == INSTANCE ThreadBucket
Copy   == INSTANCE Copies
Mask   == INSTANCE Stars

Runs(p, A) == program = p /\ A /\ UNCHANGED <<program, starVars>>

PacedInit == /\ program \in {"leaky", "timer", "token", "signal", "sigaction", "mut", "mutcond",
                             "mycopy", "signalmycopy", "mycat", "fgetc", "fgets", "fread",
                             "download", "stars"}
             /\ Init /\ Mask!Init

CopyNext == \/ Runs("mycopy", Copy!mycopy) \/ Runs("signalmycopy", Copy!signalmycopy)
            \/ Runs("mycat", Copy!mycat) \/ Runs("fgetc", Copy!mycopy_fgetc)
            \/ Runs("fgets", Copy!mycopy_fgets) \/ Runs("fread", Copy!mycopy_fread)
            \/ Runs("download", Copy!download)

PacedNext == \/ Runs("leaky", Slow!NextLeaky)     \/ Runs("timer", Slow!NextTimer)
             \/ Runs("token", Slow!NextToken)     \/ Runs("signal", Signal!NextSignal)
             \/ Runs("sigaction", Signal!NextSigaction)
             \/ Runs("mut", Thread!NextMut) \/ Runs("mutcond", Thread!NextCond)
             \/ CopyNext
             \/ program = "stars" /\ Mask!Next /\ UNCHANGED <<program, vars>>

Process == \/ Runs("leaky", Slow!mainLeaky) \/ Runs("timer", Slow!mainTimer)
           \/ Runs("token", Slow!mainToken) \/ Runs("signal", Signal!Process)
           \/ Runs("sigaction", Signal!Process)
           \/ Runs("mut", Thread!Process) \/ Runs("mutcond", Thread!ProcessCond)
           \/ CopyNext

Tick == \/ Runs("leaky", Slow!alrm_handler_leaky) \/ Runs("timer", Slow!alrm_handler_timer)
        \/ Runs("token", Slow!alrm_handler_token) \/ Runs("signal", Signal!alarm_handler)
        \/ Runs("sigaction", Signal!alarm_action)
        \/ Runs("mut", Thread!thr_alarm) \/ Runs("mutcond", Thread!thr_alarm)

allVars == <<vars, program, starVars>>

\* The process keeps running; an armed timer expires, a thread that sleeps a
\* second wakes.  (A blocked process's fetch does not depend on how often.)
PacedSpec == /\ PacedInit /\ [][PacedNext]_allVars
             /\ WF_allVars(Process) /\ WF_allVars(Tick)
-----------------------------------------------------------------------------
\* The one bucket of a paced program, as TokenBucket sees it: a library's is
\* open while it is in job[], a slowcat's from its first statement on.
Slowcats == {"leaky", "timer", "token"}
Opened == IF (IF program \in Slowcats THEN pc # "start" ELSE job) THEN {1} ELSE {}
Rate == IF program \in Slowcats THEN 1 ELSE CPS
Cap == IF program \in {"leaky", "timer"} THEN 1 ELSE BURST

TB == INSTANCE TokenBucket WITH
        Bucket <- {1}, MaxCps <- CPS, MaxBurst <- BURST, MaxSize <- BUFSIZE,
        open <- Opened, level <- [b \in {1} |-> level],
        cps <- [b \in {1} |-> Rate], burst <- [b \in {1} |-> Cap]

\* The other buckets keep the promise of the server's (TokenBucket), ticks
\* that fall between two instructions of a fetch or a return included: a
\* fetch gets at least one token and none that was not added, no more than
\* the burst is ever kept, and the count of the code is never above the
\* level of the bucket it stands for (PacedCopy).
KeepsPromise == TB!Spec /\ []NotOverdrawn

\* A copy that ends well is whole (PacedCopy).  The copies on stdio, which
\* lose bytes in silence, write none twice.
AllCopied == IF program \in {"fgetc", "fgets", "fread", "download"} THEN out =< got ELSE CopiedAll

\* No handler meets a freed bucket (PacedCopy) or tears a blocked row (Stars).
HandlersSafe == HandlerSafe /\ Mask!RowsWhole

\* Every copy comes to its end (PacedCopy).
AllEnd == program # "stars" => CopyEnds
=============================================================================
