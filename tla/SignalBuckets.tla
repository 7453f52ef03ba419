--------------------------- MODULE SignalBuckets ---------------------------
(***************************************************************************)
(* signal/mytbf: the token bucket as a library whose handler is installed  *)
(* by signal() and asks for the next SIGALRM with alarm(1); and            *)
(* signal/sigactionmytbf: the same with sigaction and an interval timer,   *)
(* whose handler looks at where the signal comes from: a SIGALRM sent with *)
(* kill is worth no token, though it ends pause().  The fields of the      *)
(* struct are not volatile, so where the code uses token twice, the build  *)
(* may load it once or twice.                                              *)
(***************************************************************************)
EXTENDS PacedCopy

\* mytbf_init: module_load (signal and alarm(1), or sigaction and setitimer;
\* atexit), then the bucket, which
\* goes into job[] last; main exits with 1 when it gets none.
module_load ==
  /\ pc = "start"
  /\ handler' = "ours" /\ armed' = TRUE /\ pc' = "init"
  /\ UNCHANGED <<counts, n, bucket, copy, status>>

mytbf_init ==
  /\ pc = "init"
  /\ \/ job' = TRUE /\ alive' = TRUE /\ pc' = "open" /\ UNCHANGED status
     \/ Fail /\ UNCHANGED bucket
  /\ UNCHANGED <<counts, timer, n, copy>>

Woken == pc' = IF pc = "pause" THEN "test" ELSE pc

\* token += cps, not above burst, for the bucket in job[].
Refill == IF job THEN Credit(CPS, BURST) ELSE Woken /\ UNCHANGED <<token, level>>

\* signal/mytbf: alarm(1) comes before the refill.
alarm_handler ==
  /\ Rings
  /\ Refill
  /\ armed' = TRUE
  /\ UNCHANGED <<seen, handler, n, bucket, copy, status>>

\* signal/sigactionmytbf: the timer goes on by itself.
alarm_action ==
  /\ Rings
  /\ Refill
  /\ UNCHANGED <<seen, timer, n, bucket, copy, status>>

\* Its handler for a signal that is not the timer's: return.
alarm_action_kill ==
  /\ Rings
  /\ Woken
  /\ UNCHANGED <<counts, timer, n, bucket, copy, status>>

\* mytbf_fetchtoken: while (me->token <= 0) pause();
FetchTest ==
  /\ pc = "test"
  /\ seen' = token
  /\ pc' = IF token =< 0 THEN "idle" ELSE "min"
  /\ UNCHANGED <<token, level, timer, n, bucket, copy, status>>

\* n = min(me->token, size);
FetchMin ==
  /\ pc = "min"
  /\ \E v \in {seen, token} : seen' = v /\ n' = Lower(v, BUFSIZE)
  /\ pc' = "store"
  /\ UNCHANGED <<token, level, timer, bucket, copy, status>>

\* me->token -= n;
FetchStore ==
  /\ pc = "store"
  /\ \E v \in {seen, token} : token' = v - n
  /\ level' = level - n
  /\ pc' = "read"
  /\ UNCHANGED <<seen, timer, n, bucket, copy, status>>

\* main gives back what it read too little.
ReadFile == Read(n, "return", "destroy")

\* mytbf_returntoken: the load of me->token += size, unless size is 0 ...
ReturnLoad ==
  /\ pc = "return"
  /\ seen' = token /\ n' = n - len
  /\ pc' = IF n' > 0 THEN "add" ELSE "write"
  /\ UNCHANGED <<token, level, timer, bucket, copy, status>>

\* ... the store ...
ReturnAdd ==
  /\ pc = "add"
  /\ \E v \in {seen, token} : token' = v + n
  /\ level' = Lower(level + n, BURST)
  /\ pc' = "clamp"
  /\ UNCHANGED <<seen, timer, n, bucket, copy, status>>

\* ... and if (token > burst) token = burst.
ReturnClamp ==
  /\ pc = "clamp"
  /\ token' = Lower(token, BURST)
  /\ pc' = "write"
  /\ UNCHANGED <<level, seen, timer, n, bucket, copy, status>>

\* Mutant: the slot still points to the struct that is freed next.
DestroyKeepsSlot ==
  /\ pc = "destroy" /\ pc' = "free"
  /\ UNCHANGED <<counts, timer, n, bucket, copy, status>>

\* mytbf_destory: job[me->pos] = NULL, free(ptr); then exit(0).
DestroyClear ==
  /\ pc = "destroy"
  /\ job' = FALSE
  /\ pc' = "free"
  /\ UNCHANGED <<counts, timer, n, alive, copy, status>>

DestroyFree ==
  /\ pc = "free"
  /\ alive' = FALSE
  /\ pc' = "exit"
  /\ UNCHANGED <<counts, timer, n, job, copy, status>>

\* module_unload: the handler that was there before, ...
UnloadHandler ==
  /\ pc = "exit"
  /\ handler' = "default"
  /\ pc' = "unarm"
  /\ UNCHANGED <<counts, armed, n, bucket, copy, status>>

\* ... alarm(0), or the timer at zero, ...
UnloadAlarm ==
  /\ pc = "unarm"
  /\ armed' = FALSE
  /\ pc' = "unload"
  /\ UNCHANGED <<counts, handler, n, bucket, copy, status>>

\* ... and free(job[i]) for every slot.
UnloadFree ==
  /\ pc = "unload"
  /\ alive' = (alive /\ ~job)
  /\ pc' = "ended"
  /\ UNCHANGED <<counts, timer, n, job, copy, status>>

Fetch == FetchTest \/ Pause \/ FetchMin \/ FetchStore
Return == ReturnLoad \/ ReturnAdd \/ ReturnClamp
Unload == DestroyClear \/ DestroyFree \/ UnloadHandler \/ UnloadAlarm \/ UnloadFree

Process == module_load \/ mytbf_init \/ Open \/ Fetch \/ ReadFile \/ Return \/ Write \/ Unload

\* signal/mytbf and signal/sigactionmytbf
NextSignal == Process \/ alarm_handler \/ Killed
NextSigaction == Process \/ alarm_action \/ alarm_action_kill \/ Killed
=============================================================================
