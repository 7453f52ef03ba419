----------------------------- MODULE PacedCopy -----------------------------
(***************************************************************************)
(* What the five programs paced by SIGALRM share: they wait for a token,   *)
(* read a piece of the source and write all of it.  The steps are those of *)
(* main in signal/mytbf/main.c; the other programs name them again at      *)
(* their own lines.  The handler runs to its end between any two           *)
(* instructions of the process, and brings it out of pause().  A call that *)
(* a signal interrupts is made again, which changes nothing here.          *)
(***************************************************************************)
EXTENDS Integers

CONSTANTS CPS,     \* tokens a second
          BURST,   \* the most tokens kept
          BUFSIZE, \* size of buf
          MaxBytes \* bytes of the source

\* The source may be empty.
ASSUME SizesAssumption == {CPS, BURST, BUFSIZE} \subseteq Nat \ {0} /\ MaxBytes \in Nat

VARIABLES token,   \* the count (loop in the leaky buckets: 0 or 1)
          level,   \* history: the tokens that were added and not yet taken
          armed,   \* a SIGALRM will come
          handler, \* ours or default
          pc,      \* where the process is
          seen,    \* token as last loaded into a register
          n,       \* tokens in the hands of main
          job,     \* the bucket is in job[]
          alive,   \* the bucket is allocated
          got,     \* bytes read
          len,     \* bytes in buf still to be written
          out,     \* bytes written
          status   \* what the process exits with

vars == <<token, level, armed, handler, pc, seen, n, job, alive, got, len, out, status>>
counts == <<token, level, seen>>
timer == <<armed, handler>>
bucket == <<job, alive>>
copy == <<got, len, out>>

Init == /\ token = 0 /\ level = 0 /\ seen = 0 /\ n = 0
        /\ armed = FALSE /\ handler = "default"
        /\ job = FALSE /\ alive = FALSE
        /\ got = 0 /\ len = 0 /\ out = 0
        /\ pc = "start" /\ status = 0

Lower(a, b) == IF a < b THEN a ELSE b

\* cps more tokens, burst at most; a handler returns, so does pause().
Credit(cps, burst) ==
  /\ token' = Lower(token + cps, burst)
  /\ level' = Lower(level + cps, burst)
  /\ pc' = IF pc = "pause" THEN "test" ELSE pc

\* A SIGALRM comes and the handler is in place.
Rings == armed /\ handler = "ours" /\ pc \notin {"ended", "killed"}

\* A SIGALRM comes when the default action is: the process is killed.
Killed ==
  /\ armed /\ handler = "default" /\ pc \notin {"ended", "killed"}
  /\ pc' = "killed"
  /\ UNCHANGED <<counts, timer, n, bucket, copy, status>>

\* exit(1) after perror().
Fail == pc' = "exit" /\ status' = 1

\* The call of pause(): a signal that came before it does not end it.
Pause ==
  /\ pc = "idle"
  /\ pc' = "pause"
  /\ UNCHANGED <<counts, timer, n, bucket, copy, status>>

Open ==
  /\ pc = "open"
  /\ \/ pc' = "test" /\ UNCHANGED status
     \/ Fail
  /\ UNCHANGED <<counts, timer, n, bucket, copy>>

\* At most size bytes; then next, or last at the end of the source.
Read(size, next, last) ==
  /\ pc = "read"
  /\ \/ /\ \E k \in 1 .. Lower(size, MaxBytes - got) :
             got' = got + k /\ len' = k
        /\ pc' = next /\ UNCHANGED status
     \/ got = MaxBytes /\ pc' = last /\ UNCHANGED <<got, len, status>>
     \/ Fail /\ UNCHANGED <<got, len>>
  /\ UNCHANGED <<counts, timer, n, bucket, out>>

\* Mutant: what one write() leaves in the buffer is forgotten.
WriteOnce ==
  /\ pc = "write" /\ \E k \in 1 .. len : out' = out + k
  /\ len' = 0 /\ pc' = "test"
  /\ UNCHANGED <<counts, timer, n, bucket, got, status>>

\* One write() of the loop that empties the buffer.
Write ==
  /\ pc = "write"
  /\ \/ /\ \E k \in 1 .. len : out' = out + k /\ len' = len - k
        /\ pc' = IF len' = 0 THEN "test" ELSE "write"
        /\ UNCHANGED status
     \/ Fail /\ UNCHANGED <<len, out>>
  /\ UNCHANGED <<counts, timer, n, bucket, got>>

\* exit() of a program without an atexit function.
Exit ==
  /\ pc = "exit"
  /\ pc' = "ended"
  /\ UNCHANGED <<counts, timer, n, bucket, copy, status>>
-----------------------------------------------------------------------------
\* Every token taken was added by a tick first, whatever the handler does
\* between the instructions of a fetch or a return; a tick may be lost, no
\* token is made.
NotOverdrawn == /\ level >= 0 /\ token >= 0
                /\ pc # "clamp" => token =< level

\* A program that exits with 0 has written the whole source, and no byte is
\* written twice or left in the buffer when the next is read.
CopiedAll == /\ out + len = got
             /\ pc = "ended" /\ status = 0 => out = MaxBytes

\* The handler, which may run at any time, never meets a freed bucket in
\* job[], and exit() leaves none allocated.
HandlerSafe == /\ Rings /\ job => alive
               /\ pc = "ended" => ~alive

\* A tick that comes between the test of token and pause() is made up for by
\* the next one: the copy always comes to its end.
CopyEnds == <>(pc \in {"ended", "killed"})
=============================================================================
