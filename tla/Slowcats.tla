------------------------------ MODULE Slowcats ------------------------------
(***************************************************************************)
(* The slowcats.  008slowcat.c is a leaky bucket: the handler of alarm()   *)
(* sets loop (here token), main clears it and copies one buffer.           *)
(* 010setitimerslowcat.c is the same with setitimer.  009slowcat2.c is a   *)
(* token bucket: each second is worth one token, each token one buffer;    *)
(* token is volatile, but token-- is a load and a store with room for the  *)
(* handler between them.                                                   *)
(***************************************************************************)
EXTENDS PacedCopy

\* signal, alarm(1) (008slowcat.c, 009slowcat2.c)
StartAlarm ==
  /\ pc = "start"
  /\ handler' = "ours" /\ armed' = TRUE /\ pc' = "open"
  /\ UNCHANGED <<counts, n, bucket, copy, status>>

\* signal, then setitimer, which may fail.
StartTimer ==
  /\ pc = "start"
  /\ handler' = "ours"
  /\ \/ armed' = TRUE /\ pc' = "open" /\ UNCHANGED status
     \/ armed' = FALSE /\ Fail
  /\ UNCHANGED <<counts, n, bucket, copy>>

\* Mutant: the handler does not ask for the next signal.
alrm_handler_once ==
  /\ Rings /\ Credit(1, 1)
  /\ armed' = FALSE
  /\ UNCHANGED <<seen, handler, n, bucket, copy, status>>

\* 008slowcat.c: alarm(1); loop = 1;
alrm_handler_leaky ==
  /\ Rings
  /\ Credit(1, 1)
  /\ armed' = TRUE
  /\ UNCHANGED <<seen, handler, n, bucket, copy, status>>

\* 010setitimerslowcat.c: loop = 1; the interval timer goes on by itself.
alrm_handler_timer ==
  /\ Rings
  /\ Credit(1, 1)
  /\ UNCHANGED <<seen, timer, n, bucket, copy, status>>

\* 009slowcat2.c: alarm(1); token++, not above BURST
alrm_handler_token ==
  /\ Rings
  /\ Credit(1, BURST)
  /\ armed' = TRUE
  /\ UNCHANGED <<seen, handler, n, bucket, copy, status>>

\* while (!loop) pause();
TestLoop ==
  /\ pc = "test"
  /\ pc' = IF token = 0 THEN "idle" ELSE "take"
  /\ UNCHANGED <<counts, timer, n, bucket, copy, status>>

\* loop = 0;
Take ==
  /\ pc = "take"
  /\ token' = 0 /\ level' = level - 1
  /\ pc' = "read"
  /\ UNCHANGED <<seen, timer, n, bucket, copy, status>>

\* while (token <= 0) pause();
TestToken ==
  /\ pc = "test"
  /\ pc' = IF token =< 0 THEN "idle" ELSE "load"
  /\ UNCHANGED <<counts, timer, n, bucket, copy, status>>

\* token--: the load ...
Load ==
  /\ pc = "load"
  /\ seen' = token
  /\ pc' = "store"
  /\ UNCHANGED <<token, level, timer, n, bucket, copy, status>>

\* ... and the store, or both in one instruction.
Store ==
  /\ pc = "store"
  /\ \E v \in {seen, token} : token' = v - 1
  /\ level' = level - 1
  /\ pc' = "read"
  /\ UNCHANGED <<seen, timer, n, bucket, copy, status>>

ReadFile == Read(BUFSIZE, "write", "exit")
Common == Open \/ Pause \/ ReadFile \/ Write \/ Exit

\* main of each program, and its handler.
mainLeaky == StartAlarm \/ TestLoop \/ Take \/ Common
mainTimer == StartTimer \/ TestLoop \/ Take \/ Common
mainToken == StartAlarm \/ TestToken \/ Load \/ Store \/ Common

NextLeaky == mainLeaky \/ alrm_handler_leaky
NextTimer == mainTimer \/ alrm_handler_timer
NextToken == mainToken \/ alrm_handler_token
=============================================================================
