------------------------------- MODULE Mytbf -------------------------------
(***************************************************************************)
(* The token-bucket library of the multicast server (src/server/mytbf.c):  *)
(* a registry of at most MYTBF_MAX buckets, a thread thr_alarm that        *)
(* refills them once a second, and callers that fetch tokens (sleeping on  *)
(* a condition variable while there are none), give back the surplus, and  *)
(* destroy their bucket.  exit() runs module_unload.                       *)
(*                                                                         *)
(* A critical section under a bucket's own mutex makes no blocking call    *)
(* but pthread_cond_wait, which releases it, so it is one step.  mut_job   *)
(* is held by thr_alarm while it takes the buckets' mutexes one after the  *)
(* other, so its lock and unlock are steps of their own; the other holders *)
(* of mut_job make no blocking call and are one step that needs it free.   *)
(***************************************************************************)
EXTENDS Integers, FiniteSets

CONSTANTS Thread,    \* threads that call the library
          Bucket,    \* struct mytbf_st objects malloc can return
          MYTBF_MAX, \* size of job[]
          MaxCps,    \* bound on the rate a caller asks for
          MaxBurst,  \* bound on the burst a caller asks for
          MaxSize,   \* bound on the size of a fetch
          NULL

ASSUME SizesAssumption == /\ MYTBF_MAX \in Nat \ {0}
                          /\ MaxCps \in Nat \ {0}
                          /\ MaxBurst \in Nat \ {0}
                          /\ MaxSize \in Nat \ {0}
ASSUME NullAssumption == NULL \notin Bucket

Slot == 0 .. MYTBF_MAX - 1

VARIABLES
  job,      \* job[i]: the bucket registered in slot i, or NULL
  mut_job,  \* TRUE while thr_alarm holds mut_job
  alarm,    \* where thr_alarm is: none, ready, scan, sleep or gone
  scan,     \* the i of thr_alarm's loop
  heap,     \* the buckets malloc has given out and free has not taken back
  token, cps, burst, pos,  \* the fields of each struct mytbf_st
  pc,       \* where each calling thread is
  me,       \* the bucket that thread's call is about
  size      \* the size of its fetch, then what it was granted

alarmVars == <<mut_job, alarm, scan>>
fields == <<cps, burst, pos>>
callVars == <<pc, me, size>>
vars == <<job, mut_job, alarm, scan, heap, token, cps, burst, pos, pc, me, size>>

Registered == {job[i] : i \in Slot} \ {NULL}

\* exit() has begun: module_unload runs in the thread that called it.
Unloading == {"cancel", "unload", "unloadFree", "exited"}
Exiting == \E t \in Thread : pc[t] \in Unloading

Minimum(a, b) == IF a < b THEN a ELSE b
\* Mutant: the burst is not enforced.
Unclamped(n, limit) == n

Clamp(n, limit) == IF n > limit THEN limit ELSE n

Init ==
  /\ job = [i \in Slot |-> NULL]
  /\ mut_job = FALSE /\ alarm = "none" /\ scan = 0
  /\ heap = {}
  /\ token = [b \in Bucket |-> 0]
  /\ cps = [b \in Bucket |-> 1]
  /\ burst = [b \in Bucket |-> 1]
  /\ pos = [b \in Bucket |-> 0]
  /\ pc = [t \in Thread |-> "idle"]
  /\ me = [t \in Thread |-> NULL]
  /\ size = [t \in Thread |-> 0]
-----------------------------------------------------------------------------
\* Mutant: the tokens are added and nobody is told.
BroadcastForgotten(b) == pc' = pc

\* pthread_cond_broadcast(&b->cond): every thread asleep on b goes for b->mut.
Broadcast(b) ==
  pc' = [t \in Thread |-> IF pc[t] = "wait" /\ me[t] = b THEN "fetch" ELSE pc[t]]

\* pthread_once(&init_once, module_load): the first call creates thr_alarm.
StartAlarm == alarm' = IF alarm = "none" THEN "ready" ELSE alarm

\* ... or exits, with no module_unload registered yet; who else comes for his
\* first bucket waits in pthread_once.
StartAlarmFails(t) ==
  /\ pc[t] = "idle" /\ ~Exiting /\ alarm = "none"
  /\ pc' = [pc EXCEPT ![t] = "exited"]
  /\ UNCHANGED <<job, alarmVars, heap, token, fields, me, size>>

\* mytbf_init, up to its critical section: malloc may also fail.
InitAlloc(t) ==
  /\ pc[t] = "idle" /\ ~Exiting
  /\ StartAlarm
  /\ \/ UNCHANGED <<heap, token, cps, burst, callVars>>
     \/ \E b \in Bucket \ heap, c \in 1 .. MaxCps, u \in 1 .. MaxBurst :
          /\ heap' = heap \cup {b}
          /\ token' = [token EXCEPT ![b] = 0]
          /\ cps' = [cps EXCEPT ![b] = c]
          /\ burst' = [burst EXCEPT ![b] = u]
          /\ pc' = [pc EXCEPT ![t] = "register"]
          /\ me' = [me EXCEPT ![t] = b]
          /\ UNCHANGED size
  /\ UNCHANGED <<job, mut_job, scan, pos>>

\* Mutant: me->pos = pos is missing.
InitRegisterNoPos(t) ==
  /\ pc[t] = "register" /\ ~mut_job
  /\ \E i \in Slot : job[i] = NULL /\ job' = [job EXCEPT ![i] = me[t]]
  /\ pc' = [pc EXCEPT ![t] = "idle"]
  /\ UNCHANGED <<alarmVars, heap, token, fields, me, size>>

\* mytbf_init, under mut_job: the first free slot (get_free_pos_unlock) ...
InitRegister(t) ==
  /\ pc[t] = "register" /\ ~mut_job
  /\ \E i \in Slot :
       /\ job[i] = NULL /\ \A j \in 0 .. i - 1 : job[j] # NULL
       /\ job' = [job EXCEPT ![i] = me[t]]
       /\ pos' = [pos EXCEPT ![me[t]] = i]
  /\ pc' = [pc EXCEPT ![t] = "idle"]
  /\ UNCHANGED <<alarmVars, heap, token, cps, burst, me, size>>

\* Mutant: the struct is not freed when the table is full.
InitFullLeaks(t) ==
  /\ pc[t] = "register" /\ ~mut_job /\ \A i \in Slot : job[i] # NULL
  /\ pc' = [pc EXCEPT ![t] = "idle"]
  /\ UNCHANGED <<job, alarmVars, heap, token, fields, me, size>>

\* ... or NULL when every slot is taken, and the new struct is freed.
InitFull(t) ==
  /\ pc[t] = "register" /\ ~mut_job
  /\ \A i \in Slot : job[i] # NULL
  /\ heap' = heap \ {me[t]}
  /\ pc' = [pc EXCEPT ![t] = "idle"]
  /\ UNCHANGED <<job, alarmVars, token, fields, me, size>>

\* mytbf_fetchtoken is called on a registered bucket (-EINVAL for size <= 0
\* changes nothing).
FetchCall(t, b, n) ==
  /\ pc[t] = "idle" /\ ~Exiting
  /\ b \in Registered /\ n > 0
  /\ pc' = [pc EXCEPT ![t] = "fetch"]
  /\ me' = [me EXCEPT ![t] = b]
  /\ size' = [size EXCEPT ![t] = n]
  /\ UNCHANGED <<job, alarmVars, heap, token, fields>>

\* Under me->mut with no token: pthread_cond_wait.
FetchSleep(t) ==
  /\ pc[t] = "fetch" /\ token[me[t]] <= 0
  /\ pc' = [pc EXCEPT ![t] = "wait"]
  /\ UNCHANGED <<job, alarmVars, heap, token, fields, me, size>>

\* POSIX lets pthread_cond_wait return without a signal.
SpuriousWakeup(t) ==
  /\ pc[t] = "wait"
  /\ pc' = [pc EXCEPT ![t] = "fetch"]
  /\ UNCHANGED <<job, alarmVars, heap, token, fields, me, size>>

\* Under me->mut with tokens: take min(token, size).
FetchTake(t) ==
  /\ pc[t] = "fetch" /\ token[me[t]] > 0
  /\ LET n == Minimum(token[me[t]], size[t]) IN
       /\ token' = [token EXCEPT ![me[t]] = @ - n]
       /\ size' = [size EXCEPT ![t] = n]
  /\ pc' = [pc EXCEPT ![t] = "using"]
  /\ UNCHANGED <<job, alarmVars, heap, fields, me>>

\* The caller used all it was granted (slowcat, mlib_readchn: read len = size).
UseAll(t) ==
  /\ pc[t] = "using"
  /\ pc' = [pc EXCEPT ![t] = "idle"]
  /\ UNCHANGED <<job, alarmVars, heap, token, fields, me, size>>

\* mytbf_returntoken(me, n) with the surplus n = size - len > 0.
ReturnToken(t, n) ==
  /\ pc[t] = "using" /\ n \in 1 .. size[t]
  /\ token' = [token EXCEPT ![me[t]] = Clamp(@ + n, burst[me[t]])]
  /\ pc' = [u \in Thread |-> CASE u = t -> "idle"
                               [] u # t /\ pc[u] = "wait" /\ me[u] = me[t] -> "fetch"
                               [] OTHER -> pc[u]]
  /\ UNCHANGED <<job, alarmVars, heap, fields, me, size>>

\* The caller's side of mytbf_destory: no other call on the bucket is under way.
Unused(b) == \A t \in Thread : pc[t] = "idle" \/ me[t] # b

\* Mutant: job[me->pos] = NULL is missing.
DestroyKeepsSlot(t, b) ==
  /\ pc[t] = "idle" /\ ~Exiting /\ ~mut_job /\ b \in Registered /\ Unused(b)
  /\ pc' = [pc EXCEPT ![t] = "free"] /\ me' = [me EXCEPT ![t] = b]
  /\ UNCHANGED <<job, alarmVars, heap, token, fields, size>>

\* mytbf_destory, under mut_job.
DestroyUnregister(t, b) ==
  /\ pc[t] = "idle" /\ ~Exiting /\ ~mut_job
  /\ b \in Registered /\ Unused(b)
  /\ job' = [job EXCEPT ![pos[b]] = NULL]
  /\ pc' = [pc EXCEPT ![t] = "free"]
  /\ me' = [me EXCEPT ![t] = b]
  /\ UNCHANGED <<alarmVars, heap, token, fields, size>>

\* mytbf_destory, after mut_job: destroy the mutex and condition, free.
DestroyFree(t) ==
  /\ pc[t] = "free"
  /\ heap' = heap \ {me[t]}
  /\ pc' = [pc EXCEPT ![t] = "idle"]
  /\ UNCHANGED <<job, alarmVars, token, fields, me, size>>
-----------------------------------------------------------------------------
\* thr_alarm: lock mut_job, visit every slot, unlock, sleep(1).
AlarmLock ==
  /\ alarm = "ready" /\ ~mut_job
  /\ mut_job' = TRUE /\ alarm' = "scan" /\ scan' = 0
  /\ UNCHANGED <<job, heap, token, fields, callVars>>

AlarmJob ==
  /\ alarm = "scan" /\ scan < MYTBF_MAX /\ job[scan] # NULL
  /\ LET b == job[scan] IN
       /\ token' = [token EXCEPT ![b] = Clamp(@ + cps[b], burst[b])]
       /\ Broadcast(b)
  /\ scan' = scan + 1
  /\ UNCHANGED <<job, mut_job, alarm, heap, fields, me, size>>

AlarmSkip ==
  /\ alarm = "scan" /\ scan < MYTBF_MAX /\ job[scan] = NULL
  /\ scan' = scan + 1
  /\ UNCHANGED <<job, mut_job, alarm, heap, token, fields, callVars>>

AlarmUnlock ==
  /\ alarm = "scan" /\ scan = MYTBF_MAX
  /\ mut_job' = FALSE /\ alarm' = "sleep"
  /\ UNCHANGED <<job, scan, heap, token, fields, callVars>>

AlarmWake ==
  /\ alarm = "sleep" /\ ~Exiting
  /\ alarm' = "ready"
  /\ UNCHANGED <<job, mut_job, scan, heap, token, fields, callVars>>

\* Mutant: asynchronous cancellation, also inside the critical section.
AlarmCancelledAnywhere ==
  /\ alarm \in {"scan", "sleep"} /\ Exiting
  /\ alarm' = "gone"
  /\ UNCHANGED <<job, mut_job, scan, heap, token, fields, callVars>>

\* A deferred cancellation takes effect in sleep(), the only cancellation
\* point of the loop, so never while mut_job is held.
AlarmCancelled ==
  /\ alarm = "sleep" /\ Exiting
  /\ alarm' = "gone"
  /\ UNCHANGED <<job, mut_job, scan, heap, token, fields, callVars>>
-----------------------------------------------------------------------------
\* exit() once the other threads are out of the library: the atexit handler
\* module_unload cancels thr_alarm ...
Exit(t) ==
  /\ \A u \in Thread : pc[u] = "idle"
  /\ alarm # "none"
  /\ pc' = [pc EXCEPT ![t] = "cancel"]
  /\ UNCHANGED <<job, alarmVars, heap, token, fields, me, size>>

\* ... joins it ...
UnloadJoin(t) ==
  /\ pc[t] = "cancel" /\ alarm = "gone"
  /\ pc' = [pc EXCEPT ![t] = "unload"]
  /\ UNCHANGED <<job, alarmVars, heap, token, fields, me, size>>

\* ... and destroys every registered bucket, lowest slot first.
UnloadDestroy(t) ==
  /\ pc[t] = "unload" /\ ~mut_job
  /\ \E i \in Slot :
       /\ job[i] # NULL /\ \A j \in 0 .. i - 1 : job[j] = NULL
       /\ me' = [me EXCEPT ![t] = job[i]]
       /\ job' = [job EXCEPT ![pos[job[i]]] = NULL]
  /\ pc' = [pc EXCEPT ![t] = "unloadFree"]
  /\ UNCHANGED <<alarmVars, heap, token, fields, size>>

UnloadFree(t) ==
  /\ pc[t] = "unloadFree"
  /\ heap' = heap \ {me[t]}
  /\ pc' = [pc EXCEPT ![t] = "unload"]
  /\ UNCHANGED <<job, alarmVars, token, fields, me, size>>

\* Mutant: the loop over job[] ends early.
UnloadDoneEarly(t) ==
  /\ pc[t] = "unload"
  /\ pc' = [pc EXCEPT ![t] = "exited"]
  /\ UNCHANGED <<job, alarmVars, heap, token, fields, me, size>>

UnloadDone(t) ==
  /\ pc[t] = "unload" /\ \A i \in Slot : job[i] = NULL
  /\ pc' = [pc EXCEPT ![t] = "exited"]
  /\ UNCHANGED <<job, alarmVars, heap, token, fields, me, size>>

Exited == (\E t \in Thread : pc[t] = "exited") /\ UNCHANGED vars
-----------------------------------------------------------------------------
Alarm == AlarmLock \/ AlarmJob \/ AlarmSkip \/ AlarmUnlock \/ AlarmWake
         \/ AlarmCancelled

\* A call that has begun goes on; a thread may stay idle for ever.
Proceed(t) == \/ InitRegister(t) \/ InitFull(t)
              \/ FetchSleep(t) \/ FetchTake(t) \/ DestroyFree(t)
              \/ UnloadJoin(t) \/ UnloadDestroy(t) \/ UnloadFree(t)
              \/ UnloadDone(t)

Call(t) == \/ StartAlarmFails(t) \/ InitAlloc(t) \/ Exit(t) \/ SpuriousWakeup(t) \/ UseAll(t)
           \/ \E b \in Bucket, n \in 1 .. MaxSize : FetchCall(t, b, n)
           \/ \E n \in 1 .. MaxSize : ReturnToken(t, n)
           \/ \E b \in Bucket : DestroyUnregister(t, b)

Next == Alarm \/ (\E t \in Thread : Proceed(t) \/ Call(t)) \/ Exited

Spec == Init /\ [][Next]_vars

\* thr_alarm and a thread inside a call keep being scheduled.
FairSpec == /\ Spec
            /\ WF_vars(Alarm)
            /\ \A t \in Thread : WF_vars(Proceed(t))
-----------------------------------------------------------------------------
AlarmState == {"none", "ready", "scan", "sleep", "gone"}
CallState == {"idle", "register", "fetch", "wait", "using", "free"} \cup Unloading

\* The values the variables range over.
TypeOK ==
  /\ job \in [Slot -> Bucket \cup {NULL}]
  /\ mut_job \in BOOLEAN /\ alarm \in AlarmState /\ scan \in 0 .. MYTBF_MAX
  /\ heap \subseteq Bucket
  /\ token \in [Bucket -> 0 .. MaxBurst]
  /\ cps \in [Bucket -> 1 .. MaxCps]
  /\ burst \in [Bucket -> 1 .. MaxBurst]
  /\ pos \in [Bucket -> Slot]
  /\ pc \in [Thread -> CallState]
  /\ me \in [Thread -> Bucket \cup {NULL}]
  /\ size \in [Thread -> 0 .. MaxSize]

\* No bucket ever holds more than its own burst or less than nothing, though
\* thr_alarm, fetchers that wake together and returns all change the count.
TokenWithinBurst == \A b \in heap : token[b] \in 0 .. burst[b]

\* No lost wakeup: a thread asleep in mytbf_fetchtoken means its bucket is
\* empty; whoever adds a token has woken every sleeper.
NoLostWakeup == \A t \in Thread : pc[t] = "wait" => token[me[t]] = 0

\* thr_alarm dereferences job[i] while it scans and callers use the bucket
\* they hold: neither is ever a bucket that has been freed.
NoUseAfterFree ==
  /\ Registered \subseteq heap
  /\ \A t \in Thread : pc[t] \in {"register", "fetch", "wait", "using", "free"}
                         => me[t] \in heap

\* Two mytbf_init that race never get the same slot, and me->pos is the slot
\* mytbf_destory must clear.
SlotOwned == \A i \in Slot : job[i] # NULL => pos[job[i]] = i

\* Every allocated bucket can still be reached: it is registered, or a thread
\* is about to register or to free it.
NoLeak == \A b \in heap :
            \/ b \in Registered
            \/ \E t \in Thread : /\ me[t] = b
                                 /\ pc[t] \in {"register", "free", "unloadFree"}

\* Everything is released when module_unload has run.
ExitReleasesAll ==
  (\E t \in Thread : pc[t] = "exited") => heap = {} /\ Registered = {}

\* The parts of the inductive invariant behind these: a call that uses a
\* bucket keeps it registered; a call about to publish or to free a bucket is
\* its only owner; a bucket is published empty; exit() runs alone.
Owning == {"register", "free", "unloadFree"}
Holding == {"fetch", "wait", "using"}
UsersRegistered == \A t \in Thread : pc[t] \in Holding => me[t] \in Registered
OwnersUnregistered ==
  \A t \in Thread : pc[t] \in Owning => me[t] \in heap \ Registered
SoleOwner == \A t, u \in Thread :
  t # u /\ pc[t] \in Owning /\ pc[u] \in Owning => me[t] # me[u]
PublishedEmpty == \A t \in Thread : pc[t] = "register" => token[me[t]] = 0
ExitAlone == \A t, u \in Thread : t # u /\ pc[t] \in Unloading => pc[u] = "idle"

Sound ==
  /\ TypeOK
  /\ SlotOwned /\ Registered \subseteq heap
  /\ UsersRegistered /\ OwnersUnregistered /\ SoleOwner /\ NoLeak
  /\ TokenWithinBurst /\ NoLostWakeup /\ PublishedEmpty
  /\ ExitAlone /\ ExitReleasesAll

\* Nothing comes before thr_alarm but its failure.
AlarmFirst == alarm = "none" => heap = {} /\ \A t \in Thread : pc[t] \in {"idle", "exited"}

IInv == Sound /\ AlarmFirst

\* A thread asleep for tokens is woken again and again until some thread has
\* been granted tokens from that bucket.
SleeperServed ==
  \A b \in Bucket : (\E t \in Thread : pc[t] = "wait" /\ me[t] = b)
                      ~> (\E t \in Thread : pc[t] = "using" /\ me[t] = b)

\* exit() ends: joining thr_alarm and destroying the buckets never block.
ExitEnds == \A t \in Thread : pc[t] = "cancel" ~> pc[t] = "exited"

\* The library keeps the promise of TokenBucket.
TB == INSTANCE TokenBucket WITH open <- Registered, level <- token
KeepsPromise == TB!Spec
=============================================================================
