---------------------------- MODULE ThreadBucket ----------------------------
(***************************************************************************)
(* The token bucket refilled by a thread, with the program that copies a   *)
(* file through it: mytbf_mut, whose fetch looks again and again, and      *)
(* mytbf_mutcond, whose fetch sleeps on a condition variable.  armed says  *)
(* that thr_alarm exists.  Each critical section is one step; all of the   *)
(* refill is one, for there is one bucket.  Both allocate the size of a    *)
(* pointer for the struct.                                                 *)
(***************************************************************************)
EXTENDS PacedCopy

\* pthread_once: module_load; without the thread it calls exit(1).
module_load ==
  /\ pc = "start"
  /\ \/ pc' = "init" /\ armed' = TRUE /\ handler' = "ours" /\ UNCHANGED status
     \/ pc' = "ended" /\ status' = 1 /\ UNCHANGED timer
  /\ UNCHANGED <<counts, n, bucket, copy>>

mytbf_init ==
  /\ pc = "init"
  /\ \/ job' = TRUE /\ alive' = TRUE /\ pc' = "open" /\ UNCHANGED status
     \/ Fail /\ UNCHANGED bucket
  /\ UNCHANGED <<counts, timer, n, copy>>

\* The refill of job[]; a broadcast brings a sleeper back to its test.
thr_alarm ==
  /\ Rings
  /\ IF job THEN Credit(CPS, BURST) ELSE UNCHANGED <<token, level, pc>>
  /\ UNCHANGED <<seen, timer, n, bucket, copy, status>>

\* n = min(token, size); token -= n, once there is one.
Take ==
  /\ pc = "test" /\ token > 0
  /\ n' = Lower(token, BUFSIZE)
  /\ token' = token - n' /\ level' = level - n'
  /\ pc' = "read"
  /\ UNCHANGED <<seen, timer, bucket, copy, status>>

\* Mutant: what is given back is not cut at the burst.
ReturnAll ==
  /\ pc = "return"
  /\ token' = token + n - len /\ level' = level + n - len
  /\ pc' = "write"
  /\ UNCHANGED <<seen, timer, n, bucket, copy, status>>

\* mytbf_returntoken of what main read too little.
Return ==
  /\ pc = "return"
  /\ token' = Lower(token + n - len, BURST) /\ level' = Lower(level + n - len, BURST)
  /\ pc' = "write"
  /\ UNCHANGED <<seen, timer, n, bucket, copy, status>>

\* mytbf_destory: the slot under mut_job ...
DestroyClear ==
  /\ pc = "destroy"
  /\ job' = FALSE /\ pc' = "free"
  /\ UNCHANGED <<counts, timer, n, alive, copy, status>>

\* ... then the memory.
DestroyFree ==
  /\ pc = "free"
  /\ alive' = FALSE /\ pc' = "exit"
  /\ UNCHANGED <<counts, timer, n, job, copy, status>>

\* exit runs module_unload: cancel (in sleep) and join thr_alarm ...
UnloadJoin ==
  /\ pc = "exit"
  /\ armed' = FALSE /\ pc' = "unload"
  /\ UNCHANGED <<counts, handler, n, bucket, copy, status>>

\* ... and destroy what is in job[].
UnloadDestroy ==
  /\ pc = "unload"
  /\ job' = FALSE /\ alive' = (alive /\ ~job) /\ pc' = "ended"
  /\ UNCHANGED <<counts, timer, n, copy, status>>

\* malloc(sizeof(struct mytbf_st*)): the struct runs over its memory, and the
\* allocator may abort when it is next called (free, pthread_cancel).
Overrun == /\ pc \in {"free", "exit"} /\ (job \/ alive \/ out > 0)
           /\ pc' = "killed"
           /\ UNCHANGED <<counts, timer, n, bucket, copy, status>>

\* main of both programs.
OpenFile == Open
CopyLoop == Read(n, "return", "destroy") \/ Return \/ Write

Process == \/ module_load \/ mytbf_init \/ OpenFile \/ Take \/ CopyLoop
           \/ DestroyClear \/ DestroyFree \/ UnloadJoin \/ UnloadDestroy \/ Overrun
-----------------------------------------------------------------------------
\* mytbf_mutcond: the same steps, and a fetch that sleeps.
thr_alarm_cond == thr_alarm
module_cond == module_load \/ UnloadJoin \/ UnloadDestroy
mytbf_init_cond == mytbf_init \/ Overrun
main_cond == Open \/ Read(n, "return", "destroy") \/ Write
returntoken_cond == Return
destory_cond == DestroyClear \/ DestroyFree

\* mytbf_fetchtoken: unlock and sleep in one; ...
FetchWait ==
  /\ pc = "test" /\ token =< 0
  /\ pc' = "pause"
  /\ UNCHANGED <<counts, timer, n, bucket, copy, status>>

\* (pthread_cond_wait may return without a broadcast)
SpuriousWakeup ==
  /\ pc = "pause" /\ pc' = "test"
  /\ UNCHANGED <<counts, timer, n, bucket, copy, status>>

\* ... and taken when there is a token.
fetchtoken_cond == FetchWait \/ Take

ProcessCond == \/ module_cond \/ mytbf_init_cond \/ main_cond \/ fetchtoken_cond
               \/ returntoken_cond \/ destory_cond
-----------------------------------------------------------------------------
NextMut == Process \/ thr_alarm
NextCond == ProcessCond \/ SpuriousWakeup \/ thr_alarm_cond
=============================================================================
