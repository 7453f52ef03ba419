---------------------------- MODULE PacedProofs ----------------------------
(***************************************************************************)
(* Proofs about the copying programs, for any rate, burst, buffer and      *)
(* source, and about the exercises on signal masks, for any rows and any   *)
(* signals.                                                                *)
(***************************************************************************)
EXTENDS MCPaced, TLAPS

Stdio == {"fgetc", "fgets", "fread", "download"}
Libraries == {"signal", "sigaction", "mut", "mutcond"}

BeforeRead == {"start", "init", "open", "test", "idle", "pause", "min", "store", "load", "take", "read"}
AfterRead == {"return", "add", "clamp", "write"}
AtEnd == {"destroy", "free", "exit", "unarm", "unload", "ended"}

PacedTypeOK ==
  /\ {token, level, seen, n, got, len, out} \subseteq Nat /\ status \in {0, 1}
  /\ pc \in BeforeRead \cup AfterRead \cup AtEnd \cup {"killed"}

\* What is in a register was in the bucket and still is, for the handler only
\* adds; n of it is in main's hands.
TokensThere ==
  /\ level =< Cap
  /\ IF pc = "clamp" THEN token =< level \/ Cap =< level ELSE token =< level
  /\ pc \in {"min", "store"} => 1 =< seen
  /\ pc \in {"min", "store", "add"} => seen =< token
  /\ pc = "store" => n =< seen
  /\ program = "token" => n = 0
  /\ pc \in {"load", "take"} => 1 =< token
  /\ pc = "return" => len =< n

\* The buffer is empty when the next piece is read.
BytesThere ==
  IF program \in Stdio THEN out =< got
  ELSE /\ out + len = got
       /\ pc \in BeforeRead => len = 0
       /\ pc \in AtEnd => status = 1 \/ (len = 0 /\ got = MaxBytes)

\* The slot has the bucket as long as it is allocated, but while it is freed.
BucketThere ==
  /\ program \notin Libraries \/ pc = "start" => ~job /\ ~alive
  /\ pc = "free" => ~job
  /\ pc = "ended" => ~alive
  /\ pc \notin {"free", "ended", "killed"} => (job <=> alive)

\* The default action is met at the end only.
TimerThere == armed /\ handler = "default" => pc \in {"unarm", "killed"}

PacedIInv == PacedTypeOK /\ TokensThere /\ BytesThere /\ BucketThere /\ TimerThere

\* The exercises: where a ! can come no row is begun, and sigsuspend is left
\* with each !.
StarsTypeOK == /\ {pending, sent, bangs, stars, rows} \subseteq Nat
               /\ place \in {"start", "row", "suspend", "ended", "killed"}

Unbroken ==
  /\ exercise \in {"star", "block", "susp", "rt"}
  /\ place = "start" => ~mask /\ stars = 0 /\ bangs = 0 /\ rows = 0 /\ sent = 0 /\ pending = 0
  /\ place = "suspend" => stars = 0
  /\ exercise = "block" /\ stars > 0 => mask
  /\ stars > 0 => rows < ROWS
  /\ exercise \in {"susp", "rt"} =>
       /\ place \in {"row", "suspend"} => mask
       /\ place \in {"row", "ended"} => bangs = rows
       /\ place = "suspend" => rows = bangs + 1

StarsIInv == StarsTypeOK /\ Unbroken /\ Mask!RowsWhole

-----------------------------------------------------------------------------
(* The steps the programs share. *)

\* There is room for a token.
LEMMA CapNat == Cap \in Nat \ {0}
  BY SizesAssumption DEF Cap

\* At the start of main there is nothing: no token, no bucket, no byte.
LEMMA PacedStart == Init => PacedIInv
  BY CapNat, SizesAssumption DEF Init, PacedIInv, PacedTypeOK, TokensThere, BytesThere, BucketThere,
     TimerThere, BeforeRead, AfterRead, AtEnd

\* The invariant speaks of these variables only.
LEMMA PacedSame ==
  ASSUME PacedIInv,
         UNCHANGED <<program, token, level, armed, handler, pc, seen, n, job, alive, got, len, out, status>>
  PROVE  PacedIInv'
  BY DEF PacedIInv, PacedTypeOK, TokensThere, BytesThere, BucketThere, TimerThere, Cap

\* A tick: what was there is there.
LEMMA Ticks ==
  ASSUME PacedIInv, NEW c \in Nat, Credit(c, Cap), pc \notin {"ended", "killed"},
         UNCHANGED <<program, seen, handler, n, bucket, copy, status>>,
         handler = "ours"
  PROVE  PacedIInv'
<1> USE DEF bucket, copy, TimerThere
<1>1. /\ token \in Nat /\ level \in Nat /\ seen \in Nat /\ n \in Nat /\ level =< Cap
      /\ token' = Lower(token + c, Cap) /\ level' = Lower(level + c, Cap)
      /\ pc' = IF pc = "pause" THEN "test" ELSE pc
      /\ Cap' = Cap /\ Cap \in Nat
  BY CapNat DEF PacedIInv, PacedTypeOK, TokensThere, Credit, Cap
<1>2. token' \in Nat /\ level' \in Nat
  BY <1>1 DEF Lower
<1>3. PacedTypeOK'
  BY <1>1, <1>2 DEF PacedIInv, PacedTypeOK, BeforeRead, AfterRead, AtEnd
<1>4. TokensThere'
  <2>1. pc' = pc \/ pc' = "test"
    BY <1>1
  <2>2. level' =< Cap
    BY <1>1 DEF Lower
  <2>3. IF pc = "clamp" THEN token' =< level' \/ Cap =< level' ELSE token' =< level'
    BY <1>1 DEF PacedIInv, TokensThere, Lower
  <2>4. pc # "clamp" => token =< token'
    BY <1>1 DEF PacedIInv, TokensThere, Lower
  <2> QED
    BY <1>1, <1>2, <2>1, <2>2, <2>3, <2>4 DEF PacedIInv, PacedTypeOK, TokensThere
<1>5. BytesThere'
  BY <1>1 DEF PacedIInv, BytesThere, BeforeRead, AtEnd
<1>6. BucketThere'
  BY <1>1 DEF PacedIInv, BucketThere
<1>7. TimerThere'
  BY <1>1 DEF PacedIInv, TimerThere
<1> QED
  BY <1>3, <1>4, <1>5, <1>6, <1>7 DEF PacedIInv

\* A signal that is worth no token ends pause() all the same.
LEMMA Woken ==
  ASSUME PacedIInv, pc' = IF pc = "pause" THEN "test" ELSE pc, handler' = handler, handler = "ours",
         UNCHANGED <<program, counts, n, bucket, copy, status>>
  PROVE  PacedIInv'
<1> USE DEF counts, bucket, copy
<1>1. PacedTypeOK'
  BY DEF PacedIInv, PacedTypeOK, BeforeRead
<1>2. TokensThere'
  BY DEF PacedIInv, PacedTypeOK, TokensThere, Cap
<1>3. BytesThere'
  BY DEF PacedIInv, BytesThere, BeforeRead, AtEnd
<1>4. BucketThere' /\ TimerThere'
  BY DEF PacedIInv, BucketThere, TimerThere
<1> QED
  BY <1>1, <1>2, <1>3, <1>4 DEF PacedIInv

\* The program goes on, and nothing else happens.
LEMMA GoesOn ==
  ASSUME PacedIInv, UNCHANGED <<program, token, level, seen, n, bucket, copy>>,
         handler' = "ours" \/ UNCHANGED timer,
         \/ pc # "clamp" /\ pc' = "killed" /\ status' = status
         \/ pc \in BeforeRead /\ pc' = "exit" /\ status' = 1
         \/ pc \in BeforeRead /\ pc' \in {"open", "test", "idle", "pause", "init", "read"} /\ status' = status
         \/ pc = "start" /\ pc' = "ended" /\ status' = 1
  PROVE  PacedIInv'
<1> USE DEF timer, bucket, copy, TimerThere
<1>1. PacedTypeOK'
  BY DEF PacedIInv, PacedTypeOK, BeforeRead, AfterRead, AtEnd
<1>2. TokensThere'
  BY DEF PacedIInv, PacedTypeOK, TokensThere, BeforeRead, Cap
<1>3. BytesThere'
  BY DEF PacedIInv, BytesThere, BeforeRead, AtEnd
<1>4. BucketThere'
  BY DEF PacedIInv, BucketThere, BeforeRead
<1>5. TimerThere'
  BY DEF PacedIInv, TimerThere, BeforeRead
<1> QED
  BY <1>1, <1>2, <1>3, <1>4, <1>5 DEF PacedIInv

\* A piece comes in, at most as many bytes as main has tokens for.
LEMMA Reads ==
  ASSUME PacedIInv, NEW size \in Nat, NEW next, NEW last, Read(size, next, last),
         UNCHANGED program, program \notin Stdio,
         \/ next = "return" /\ size = n /\ last = "destroy"
         \/ next = "write" /\ last = "exit"
  PROVE  PacedIInv'
<1> USE DEF counts, timer, bucket, TimerThere
<1>1. pc = "read" /\ len = 0 /\ out + len = got /\ {got, out, n} \subseteq Nat
  BY DEF Read, PacedIInv, PacedTypeOK, BytesThere, BeforeRead
<1>2. ASSUME NEW k \in 1 .. Lower(size, MaxBytes - got), got' = got + k, len' = k, pc' = next, status' = status,
             UNCHANGED <<counts, timer, n, bucket, out>>
      PROVE  PacedIInv'
  <2>1. k \in Nat /\ k =< size
    BY <1>1, SizesAssumption DEF Lower
  <2>2. PacedTypeOK'
    BY <1>1, <1>2, <2>1 DEF PacedIInv, PacedTypeOK, AfterRead, AtEnd
  <2>3. TokensThere'
    BY <1>1, <1>2, <2>1 DEF PacedIInv, PacedTypeOK, TokensThere, Cap
  <2>4. BytesThere'
    BY <1>1, <1>2, <2>1 DEF BytesThere, BeforeRead, AtEnd
  <2>5. BucketThere'
    BY <1>1, <1>2 DEF PacedIInv, BucketThere
  <2>6. TimerThere'
    BY <1>1, <1>2 DEF PacedIInv, TimerThere
  <2> QED
    BY <2>2, <2>3, <2>4, <2>5, <2>6 DEF PacedIInv
<1>3. ASSUME pc' \in {"destroy", "exit"}, got = MaxBytes \/ status' = 1, status' \in {status, 1},
             UNCHANGED <<counts, timer, n, bucket, got, len, out>>
      PROVE  PacedIInv'
  <2>1. PacedTypeOK'
    BY <1>3 DEF PacedIInv, PacedTypeOK, AtEnd
  <2>2. TokensThere'
    BY <1>1, <1>3 DEF PacedIInv, PacedTypeOK, TokensThere, Cap
  <2>3. BytesThere'
    BY <1>1, <1>3 DEF BytesThere, BeforeRead, AtEnd
  <2>4. BucketThere'
    BY <1>1, <1>3 DEF PacedIInv, BucketThere
  <2>5. TimerThere'
    BY <1>1, <1>3 DEF PacedIInv, TimerThere
  <2> QED
    BY <2>1, <2>2, <2>3, <2>4, <2>5 DEF PacedIInv
<1> QED
  BY <1>2, <1>3 DEF Read, Fail

\* write() in the loop that empties the buffer, or its error.
LEMMA Writes ==
  ASSUME PacedIInv, Write, UNCHANGED program, program \notin Stdio
  PROVE  PacedIInv'
<1> USE DEF counts, timer, bucket, TimerThere
<1>1. pc = "write" /\ {len, got, out} \subseteq Nat /\ UNCHANGED <<counts, timer, n, bucket, got>>
  BY DEF Write, PacedIInv, PacedTypeOK
<1>2. ASSUME NEW k \in 1 .. len, out' = out + k, len' = len - k,
             pc' = IF len' = 0 THEN "test" ELSE "write", status' = status
      PROVE  PacedIInv'
  <2>1. PacedTypeOK'
    BY <1>1, <1>2 DEF PacedIInv, PacedTypeOK, BeforeRead, AfterRead
  <2>2. TokensThere'
    BY <1>1, <1>2 DEF PacedIInv, PacedTypeOK, TokensThere, Cap
  <2>3. BytesThere'
    BY <1>1, <1>2 DEF PacedIInv, BytesThere, BeforeRead, AtEnd
  <2>4. BucketThere'
    BY <1>1, <1>2 DEF PacedIInv, BucketThere
  <2>5. TimerThere'
    BY <1>1, <1>2 DEF PacedIInv, TimerThere
  <2> QED
    BY <2>1, <2>2, <2>3, <2>4, <2>5 DEF PacedIInv
<1>3. ASSUME pc' = "exit", status' = 1, UNCHANGED <<len, out>>
      PROVE  PacedIInv'
  <2>1. PacedTypeOK'
    BY <1>1, <1>3 DEF PacedIInv, PacedTypeOK, AtEnd
  <2>2. TokensThere'
    BY <1>1, <1>3 DEF PacedIInv, PacedTypeOK, TokensThere, Cap
  <2>3. BytesThere'
    BY <1>1, <1>3 DEF PacedIInv, BytesThere, BeforeRead, AtEnd
  <2>4. BucketThere'
    BY <1>1, <1>3 DEF PacedIInv, BucketThere
  <2>5. TimerThere'
    BY <1>1, <1>3 DEF PacedIInv, TimerThere
  <2> QED
    BY <2>1, <2>2, <2>3, <2>4, <2>5 DEF PacedIInv
<1> QED
  BY <1>1, <1>2, <1>3 DEF Write, Fail

\* exit of a program without a bucket.
LEMMA Exits ==
  ASSUME PacedIInv, Exit, UNCHANGED program, program \notin Libraries
  PROVE  PacedIInv'
<1> USE DEF counts, timer, bucket, copy, TimerThere
<1>1. PacedTypeOK'
  BY DEF Exit, PacedIInv, PacedTypeOK, AtEnd
<1>2. TokensThere'
  BY DEF Exit, PacedIInv, PacedTypeOK, TokensThere, Cap
<1>3. BytesThere'
  BY DEF Exit, PacedIInv, BytesThere, BeforeRead, AtEnd
<1>4. BucketThere'
  BY DEF Exit, PacedIInv, BucketThere
<1>5. TimerThere'
  BY DEF Exit, PacedIInv, TimerThere
<1> QED
  BY <1>1, <1>2, <1>3, <1>4, <1>5 DEF PacedIInv

\* Steps that touch the tokens and leave the bytes and the bucket alone.
LEMMA TokensMove ==
  ASSUME PacedIInv, UNCHANGED <<program, timer, bucket, copy, status>>,
         \/ pc \in BeforeRead /\ pc' \in BeforeRead \ {"start"}
         \/ pc \in {"return", "add", "clamp"} /\ pc' \in AfterRead,
         {token', level', seen', n'} \subseteq Nat, TokensThere'
  PROVE  PacedIInv'
<1> USE DEF timer, bucket, copy
<1>1. PacedTypeOK'
  BY DEF PacedIInv, PacedTypeOK, BeforeRead, AfterRead
<1>2. BytesThere'
  BY DEF PacedIInv, BytesThere, BeforeRead, AfterRead, AtEnd
<1>3. BucketThere'
  BY DEF PacedIInv, BucketThere, BeforeRead, AfterRead
<1>4. TimerThere'
  BY DEF PacedIInv, TimerThere, BeforeRead
<1> QED
  BY <1>1, <1>2, <1>3, <1>4 DEF PacedIInv

\* Steps that touch the bucket's memory, or the timer, and nothing else.
LEMMA BucketMoves ==
  ASSUME PacedIInv, UNCHANGED <<program, counts, n, copy, status>>,
         \/ pc \in BeforeRead /\ pc' \in BeforeRead /\ pc' \notin {"min", "store", "load", "take"}
         \/ pc \in AtEnd /\ pc' \in AtEnd,
         BucketThere', TimerThere'
  PROVE  PacedIInv'
<1> USE DEF counts, copy
<1>1. PacedTypeOK'
  BY DEF PacedIInv, PacedTypeOK, BeforeRead, AtEnd
<1>2. BytesThere'
  BY DEF PacedIInv, BytesThere, BeforeRead, AtEnd
<1>3. TokensThere'
  BY DEF PacedIInv, PacedTypeOK, TokensThere, BeforeRead, AtEnd, Cap
<1> QED
  BY <1>1, <1>2, <1>3 DEF PacedIInv

-----------------------------------------------------------------------------
(* The leaky buckets and the token bucket in one file. *)

\* 008slowcat.c keeps the invariant.
LEMMA LeakyStep ==
  ASSUME PacedIInv, program = "leaky", UNCHANGED program, Slow!NextLeaky
  PROVE  PacedIInv'
<1> USE DEF Slow!counts, Slow!timer, Slow!bucket, Slow!copy, counts, timer, bucket, copy
<1>1. Cap = 1 /\ Cap' = 1 /\ program \notin Stdio /\ program \notin Libraries
  BY DEF Cap, Stdio, Libraries
<1>2. CASE Slow!StartAlarm \/ Slow!Open \/ Slow!Pause
  BY <1>2, GoesOn DEF Slow!StartAlarm, Slow!Open, Slow!Pause, Slow!Fail, BeforeRead
<1>3. CASE Slow!TestLoop
  <2>1. CASE token = 0
    BY <1>3, <2>1, GoesOn DEF Slow!TestLoop, BeforeRead
  <2>2. CASE token # 0
    <3>1. TokensThere'
      BY <1>1, <1>3, <2>2 DEF Slow!TestLoop, PacedIInv, PacedTypeOK, TokensThere
    <3> QED
      BY <1>3, <2>2, <3>1, TokensMove DEF Slow!TestLoop, PacedIInv, PacedTypeOK, BeforeRead
  <2> QED
    BY <2>1, <2>2
<1>4. CASE Slow!Take
  <2>1. token >= 1 /\ token =< level /\ token \in Nat /\ level \in Nat
    BY <1>4 DEF Slow!Take, PacedIInv, PacedTypeOK, TokensThere
  <2>2. TokensThere'
    BY <1>1, <1>4, <2>1 DEF Slow!Take, PacedIInv, TokensThere
  <2> QED
    BY <1>4, <2>1, <2>2, TokensMove DEF Slow!Take, PacedIInv, PacedTypeOK, BeforeRead
<1>5. CASE Slow!ReadFile
  <2>1. Read(BUFSIZE, "write", "exit")
    BY <1>5 DEF Slow!ReadFile, Slow!Read, Slow!Fail, Slow!Lower, Read, Fail, Lower
  <2> QED
    BY <1>1, <2>1, SizesAssumption, Reads
<1>6. CASE Slow!Write
  <2>1. Write
    BY <1>6 DEF Slow!Write, Slow!Fail, Write, Fail
  <2> QED
    BY <1>1, <2>1, Writes
<1>7. CASE Slow!Exit
  <2>1. Exit
    BY <1>7 DEF Slow!Exit, Exit
  <2> QED
    BY <1>1, <2>1, Exits
<1>8. CASE Slow!alrm_handler_leaky
  <2>1. Credit(1, Cap)
    BY <1>1, <1>8 DEF Slow!alrm_handler_leaky, Slow!Credit, Slow!Lower, Credit, Lower
  <2> QED
    BY <1>8, <2>1, Ticks DEF Slow!alrm_handler_leaky, Slow!Rings
<1> QED
  BY <1>2, <1>3, <1>4, <1>5, <1>6, <1>7, <1>8 DEF Slow!NextLeaky, Slow!mainLeaky, Slow!Common

\* 010setitimerslowcat.c keeps the invariant.
LEMMA TimerStep ==
  ASSUME PacedIInv, program = "timer", UNCHANGED program, Slow!NextTimer
  PROVE  PacedIInv'
<1> USE DEF Slow!counts, Slow!timer, Slow!bucket, Slow!copy, counts, timer, bucket, copy
<1>1. Cap = 1 /\ Cap' = 1 /\ program \notin Stdio /\ program \notin Libraries
  BY DEF Cap, Stdio, Libraries
<1>2. CASE Slow!StartTimer \/ Slow!Open \/ Slow!Pause
  BY <1>2, GoesOn DEF Slow!StartTimer, Slow!Open, Slow!Pause, Slow!Fail, BeforeRead
<1>3. CASE Slow!TestLoop
  <2>1. CASE token = 0
    BY <1>3, <2>1, GoesOn DEF Slow!TestLoop, BeforeRead
  <2>2. CASE token # 0
    <3>1. TokensThere'
      BY <1>1, <1>3, <2>2 DEF Slow!TestLoop, PacedIInv, PacedTypeOK, TokensThere
    <3> QED
      BY <1>3, <2>2, <3>1, TokensMove DEF Slow!TestLoop, PacedIInv, PacedTypeOK, BeforeRead
  <2> QED
    BY <2>1, <2>2
<1>4. CASE Slow!Take
  <2>1. token >= 1 /\ token =< level /\ token \in Nat /\ level \in Nat
    BY <1>4 DEF Slow!Take, PacedIInv, PacedTypeOK, TokensThere
  <2>2. TokensThere'
    BY <1>1, <1>4, <2>1 DEF Slow!Take, PacedIInv, TokensThere
  <2> QED
    BY <1>4, <2>1, <2>2, TokensMove DEF Slow!Take, PacedIInv, PacedTypeOK, BeforeRead
<1>5. CASE Slow!ReadFile
  <2>1. Read(BUFSIZE, "write", "exit")
    BY <1>5 DEF Slow!ReadFile, Slow!Read, Slow!Fail, Slow!Lower, Read, Fail, Lower
  <2> QED
    BY <1>1, <2>1, SizesAssumption, Reads
<1>6. CASE Slow!Write
  <2>1. Write
    BY <1>6 DEF Slow!Write, Slow!Fail, Write, Fail
  <2> QED
    BY <1>1, <2>1, Writes
<1>7. CASE Slow!Exit
  <2>1. Exit
    BY <1>7 DEF Slow!Exit, Exit
  <2> QED
    BY <1>1, <2>1, Exits
<1>8. CASE Slow!alrm_handler_timer
  <2>1. Credit(1, Cap)
    BY <1>1, <1>8 DEF Slow!alrm_handler_timer, Slow!Credit, Slow!Lower, Credit, Lower
  <2> QED
    BY <1>8, <2>1, Ticks DEF Slow!alrm_handler_timer, Slow!Rings
<1> QED
  BY <1>2, <1>3, <1>4, <1>5, <1>6, <1>7, <1>8 DEF Slow!NextTimer, Slow!mainTimer, Slow!Common

\* 009slowcat2.c keeps the invariant.
LEMMA TokenStep ==
  ASSUME PacedIInv, program = "token", UNCHANGED program, Slow!NextToken
  PROVE  PacedIInv'
<1> USE DEF Slow!counts, Slow!timer, Slow!bucket, Slow!copy, counts, timer, bucket, copy
<1>1. Cap = BURST /\ Cap' = BURST /\ program \notin Stdio /\ program \notin Libraries
  BY DEF Cap, Stdio, Libraries
<1>2. CASE Slow!StartAlarm \/ Slow!Open \/ Slow!Pause
  BY <1>2, GoesOn DEF Slow!StartAlarm, Slow!Open, Slow!Pause, Slow!Fail, BeforeRead
<1>3. CASE Slow!TestToken
  <2>1. CASE token =< 0
    BY <1>3, <2>1, GoesOn DEF Slow!TestToken, BeforeRead
  <2>2. CASE ~(token =< 0)
    <3>1. TokensThere'
      BY <1>1, <1>3, <2>2 DEF Slow!TestToken, PacedIInv, PacedTypeOK, TokensThere
    <3> QED
      BY <1>3, <2>2, <3>1, TokensMove DEF Slow!TestToken, PacedIInv, PacedTypeOK, BeforeRead
  <2> QED
    BY <2>1, <2>2
<1>4. CASE Slow!Load
  <2>1. token >= 1
    BY <1>4 DEF Slow!Load, PacedIInv, PacedTypeOK, TokensThere
  <2>2. TokensThere'
    BY <1>1, <1>4, <2>1 DEF Slow!Load, PacedIInv, PacedTypeOK, TokensThere
  <2> QED
    BY <1>4, <2>2, TokensMove DEF Slow!Load, PacedIInv, PacedTypeOK, BeforeRead
<1>5. CASE Slow!Store
  <2>1. PICK v \in {seen, token} : token' = v - 1 /\ level' = level - 1
    BY <1>5 DEF Slow!Store
  <2>2. 1 =< v /\ v =< level /\ v \in Nat /\ level \in Nat
    BY <1>5, <2>1 DEF Slow!Store, PacedIInv, PacedTypeOK, TokensThere
  <2>3. TokensThere'
    BY <1>1, <1>5, <2>1, <2>2, SizesAssumption DEF Slow!Store, PacedIInv, TokensThere
  <2> QED
    BY <1>5, <2>1, <2>2, <2>3, TokensMove DEF Slow!Store, PacedIInv, PacedTypeOK, BeforeRead
<1>6. CASE Slow!ReadFile
  <2>1. Read(BUFSIZE, "write", "exit")
    BY <1>6 DEF Slow!ReadFile, Slow!Read, Slow!Fail, Slow!Lower, Read, Fail, Lower
  <2> QED
    BY <1>1, <2>1, SizesAssumption, Reads
<1>7. CASE Slow!Write
  <2>1. Write
    BY <1>7 DEF Slow!Write, Slow!Fail, Write, Fail
  <2> QED
    BY <1>1, <2>1, Writes
<1>8. CASE Slow!Exit
  <2>1. Exit
    BY <1>8 DEF Slow!Exit, Exit
  <2> QED
    BY <1>1, <2>1, Exits
<1>9. CASE Slow!alrm_handler_token
  <2>1. Credit(1, Cap)
    BY <1>1, <1>9 DEF Slow!alrm_handler_token, Slow!Credit, Slow!Lower, Credit, Lower
  <2> QED
    BY <1>9, <2>1, Ticks DEF Slow!alrm_handler_token, Slow!Rings
<1> QED
  BY <1>2, <1>3, <1>4, <1>5, <1>6, <1>7, <1>8, <1>9 DEF Slow!NextToken, Slow!mainToken, Slow!Common

-----------------------------------------------------------------------------
(* The libraries on SIGALRM. *)

\* A step that the two signal libraries share keeps the invariant: their main,
\* fetchtoken and returntoken instruction by instruction, destory, module_unload.
LEMMA LibraryStep ==
  ASSUME PacedIInv, program \in {"signal", "sigaction"}, UNCHANGED program,
         Signal!Process \/ Signal!Killed
  PROVE  PacedIInv'
<1> USE DEF Signal!counts, Signal!timer, Signal!bucket, Signal!copy, counts, timer, bucket, copy,
            Signal!Lower
<1>1. Cap = BURST /\ Cap' = BURST /\ program \notin Stdio /\ program # "token"
  BY DEF Cap, Stdio
<1>2. /\ {token, level, seen, n, got, len, out} \subseteq Nat
      /\ level =< BURST /\ BURST \in Nat /\ BUFSIZE \in Nat \ {0}
      /\ pc # "clamp" => token =< level
  BY <1>1, SizesAssumption DEF PacedIInv, PacedTypeOK, TokensThere
<1>3. CASE Signal!module_load \/ Signal!Open \/ Signal!Pause
  BY <1>3, GoesOn DEF Signal!module_load, Signal!Open, Signal!Pause, Signal!Fail, BeforeRead
<1>4. CASE Signal!mytbf_init
  <2>1. CASE Signal!Fail /\ UNCHANGED bucket
    BY <1>4, <2>1, GoesOn DEF Signal!mytbf_init, Signal!Fail, BeforeRead
  <2>2. CASE job' = TRUE /\ alive' = TRUE /\ pc' = "open" /\ UNCHANGED status
    <3>1. BucketThere' /\ TimerThere'
      BY <1>4, <2>2 DEF Signal!mytbf_init, PacedIInv, BucketThere, TimerThere, Libraries
    <3> QED
      BY <1>4, <2>2, <3>1, BucketMoves DEF Signal!mytbf_init, BeforeRead
  <2> QED
    BY <1>4, <2>1, <2>2 DEF Signal!mytbf_init
<1>5. CASE Signal!FetchTest
  <2>1. TokensThere'
    BY <1>1, <1>2, <1>5 DEF Signal!FetchTest, TokensThere
  <2> QED
    BY <1>2, <1>5, <2>1, TokensMove DEF Signal!FetchTest, BeforeRead
<1>6. CASE Signal!FetchMin
  <2>1. PICK v \in {seen, token} : seen' = v /\ n' = Lower(v, BUFSIZE)
    BY <1>6 DEF Signal!FetchMin, Lower
  <2>2. 1 =< v /\ v =< token /\ v \in Nat /\ n' \in Nat /\ n' =< v
    BY <1>2, <1>6, <2>1 DEF Signal!FetchMin, PacedIInv, TokensThere, Lower
  <2>3. TokensThere'
    BY <1>1, <1>2, <1>6, <2>1, <2>2 DEF Signal!FetchMin, TokensThere
  <2> QED
    BY <1>2, <1>6, <2>1, <2>2, <2>3, TokensMove DEF Signal!FetchMin, BeforeRead
<1>7. CASE Signal!FetchStore
  <2>1. PICK v \in {seen, token} : token' = v - n /\ level' = level - n
    BY <1>7 DEF Signal!FetchStore
  <2>2. n =< v /\ v =< level /\ v \in Nat
    BY <1>2, <1>7, <2>1 DEF Signal!FetchStore, PacedIInv, TokensThere
  <2>3. TokensThere'
    BY <1>1, <1>2, <1>7, <2>1, <2>2 DEF Signal!FetchStore, TokensThere
  <2> QED
    BY <1>2, <1>7, <2>1, <2>2, <2>3, TokensMove DEF Signal!FetchStore, BeforeRead
<1>8. CASE Signal!ReadFile
  <2>1. Read(n, "return", "destroy")
    BY <1>8 DEF Signal!ReadFile, Signal!Read, Signal!Fail, Read, Fail, Lower
  <2> QED
    BY <1>1, <1>2, <2>1, Reads
<1>9. CASE Signal!ReturnLoad
  <2>1. len =< n
    BY <1>9 DEF Signal!ReturnLoad, PacedIInv, TokensThere
  <2>2. TokensThere'
    BY <1>1, <1>2, <1>9, <2>1 DEF Signal!ReturnLoad, TokensThere
  <2> QED
    BY <1>2, <1>9, <2>1, <2>2, TokensMove DEF Signal!ReturnLoad, AfterRead
<1>10. CASE Signal!ReturnAdd
  <2>1. PICK v \in {seen, token} : token' = v + n /\ level' = Lower(level + n, BURST)
    BY <1>10 DEF Signal!ReturnAdd, Lower
  <2>2. v =< level /\ v \in Nat
    BY <1>2, <1>10, <2>1 DEF Signal!ReturnAdd, PacedIInv, TokensThere
  <2>3. level' \in Nat /\ level' =< BURST /\ (token' =< level' \/ BURST =< level')
    BY <1>2, <2>1, <2>2 DEF Lower
  <2>4. TokensThere'
    BY <1>1, <1>2, <1>10, <2>1, <2>2, <2>3 DEF Signal!ReturnAdd, TokensThere
  <2> QED
    BY <1>2, <1>10, <2>1, <2>2, <2>3, <2>4, TokensMove DEF Signal!ReturnAdd, AfterRead
<1>11. CASE Signal!ReturnClamp
  <2>1. token' = Lower(token, BURST) /\ (token =< level \/ BURST =< level)
    BY <1>1, <1>11 DEF Signal!ReturnClamp, Lower, PacedIInv, TokensThere
  <2>2. token' \in Nat /\ token' =< level
    BY <1>2, <2>1 DEF Lower
  <2>3. TokensThere'
    BY <1>1, <1>2, <1>11, <2>2 DEF Signal!ReturnClamp, TokensThere
  <2> QED
    BY <1>2, <1>11, <2>2, <2>3, TokensMove DEF Signal!ReturnClamp, AfterRead
<1>12. CASE Signal!Write
  <2>1. Write
    BY <1>12 DEF Signal!Write, Signal!Fail, Write, Fail
  <2> QED
    BY <1>1, <2>1, Writes
<1>13. CASE Signal!Unload
  <2> USE DEF Signal!DestroyClear, Signal!DestroyFree, Signal!UnloadHandler, Signal!UnloadAlarm,
              Signal!UnloadFree
  <2>1. BucketThere'
    <3>1. CASE Signal!UnloadFree
      <4>1. ~alive'
        BY <3>1 DEF PacedIInv, BucketThere
      <4> QED
        BY <3>1, <4>1 DEF PacedIInv, BucketThere, Libraries
    <3>2. CASE Signal!DestroyClear \/ Signal!DestroyFree
      BY <3>2 DEF PacedIInv, BucketThere, Libraries
    <3>3. CASE Signal!UnloadHandler \/ Signal!UnloadAlarm
      BY <3>3 DEF PacedIInv, BucketThere, Libraries
    <3> QED
      BY <1>13, <3>1, <3>2, <3>3 DEF Signal!Unload
  <2>2. TimerThere'
    BY <1>13 DEF Signal!Unload, PacedIInv, TimerThere
  <2> QED
    BY <1>13, <2>1, <2>2, BucketMoves DEF Signal!Unload, AtEnd
<1>14. CASE Signal!Killed
  BY <1>14, GoesOn DEF Signal!Killed, PacedIInv, TimerThere
<1> QED
  BY <1>3, <1>4, <1>5, <1>6, <1>7, <1>8, <1>9, <1>10, <1>11, <1>12, <1>13, <1>14
  DEF Signal!Process, Signal!Fetch, Signal!Return

\* signal/mytbf keeps the invariant, its handler between any two instructions.
LEMMA SignalStep ==
  ASSUME PacedIInv, program = "signal", UNCHANGED program, Signal!NextSignal
  PROVE  PacedIInv'
<1> USE DEF Signal!counts, Signal!timer, Signal!bucket, Signal!copy, counts, timer, bucket, copy
<1>1. CASE Signal!alarm_handler /\ job
  <2>1. Credit(CPS, Cap)
    BY <1>1 DEF Signal!alarm_handler, Signal!Refill, Signal!Credit, Signal!Lower, Credit, Lower, Cap
  <2> QED
    BY <1>1, <2>1, SizesAssumption, Ticks DEF Signal!alarm_handler, Signal!Refill, Signal!Woken, Signal!Rings
<1>2. CASE Signal!alarm_handler /\ ~job
  BY <1>2, Woken DEF Signal!alarm_handler, Signal!Refill, Signal!Woken, Signal!Rings
<1> QED
  BY <1>1, <1>2, LibraryStep DEF Signal!NextSignal

\* signal/sigactionmytbf keeps the invariant.
LEMMA SigactionStep ==
  ASSUME PacedIInv, program = "sigaction", UNCHANGED program, Signal!NextSigaction
  PROVE  PacedIInv'
<1> USE DEF Signal!counts, Signal!timer, Signal!bucket, Signal!copy,
            counts, timer, bucket, copy
<1>1. CASE Signal!Process \/ Signal!Killed
  BY <1>1, LibraryStep
<1>2. CASE Signal!alarm_action /\ job
  <2>1. Credit(CPS, Cap)
    BY <1>2 DEF Signal!alarm_action, Signal!Refill, Signal!Credit, Signal!Lower, Credit, Lower, Cap
  <2> QED
    BY <1>2, <2>1, SizesAssumption, Ticks DEF Signal!alarm_action, Signal!Rings
<1>3. CASE (Signal!alarm_action /\ ~job) \/ Signal!alarm_action_kill
  BY <1>3, Woken
  DEF Signal!alarm_action, Signal!alarm_action_kill, Signal!Woken, Signal!Refill, Signal!Rings
<1> QED
  BY <1>1, <1>2, <1>3 DEF Signal!NextSigaction

-----------------------------------------------------------------------------
(* The libraries on a thread. *)

\* The two libraries with a thread that refills keep the invariant.
LEMMA ThreadStep ==
  ASSUME PacedIInv, program \in {"mut", "mutcond"}, UNCHANGED program,
         Thread!NextMut \/ Thread!NextCond
  PROVE  PacedIInv'
<1> USE DEF Thread!counts, Thread!timer, Thread!bucket, Thread!copy, counts, timer, bucket, copy,
            Thread!Lower
<1>1. Cap = BURST /\ Cap' = BURST /\ program \notin Stdio /\ program # "token"
  BY DEF Cap, Stdio
<1>2. /\ {token, level, seen, n, got, len, out} \subseteq Nat
      /\ level =< BURST /\ BURST \in Nat /\ BUFSIZE \in Nat \ {0}
      /\ pc # "clamp" => token =< level
  BY <1>1, SizesAssumption DEF PacedIInv, PacedTypeOK, TokensThere
<1>3. CASE Thread!module_load \/ Thread!Open
  BY <1>3, GoesOn DEF Thread!module_load, Thread!Open, Thread!Fail, BeforeRead
<1>4. CASE Thread!mytbf_init
  <2>1. CASE Thread!Fail /\ UNCHANGED bucket
    BY <1>4, <2>1, GoesOn DEF Thread!mytbf_init, Thread!Fail, BeforeRead
  <2>2. CASE job' = TRUE /\ alive' = TRUE /\ pc' = "open" /\ UNCHANGED status
    <3>1. BucketThere' /\ TimerThere'
      BY <1>4, <2>2 DEF Thread!mytbf_init, PacedIInv, BucketThere, TimerThere, Libraries
    <3> QED
      BY <1>4, <2>2, <3>1, BucketMoves DEF Thread!mytbf_init, BeforeRead
  <2> QED
    BY <1>4, <2>1, <2>2 DEF Thread!mytbf_init
<1>5. CASE Thread!thr_alarm
  <2>1. CASE job
    <3>1. Credit(CPS, Cap)
      BY <1>1, <1>5, <2>1 DEF Thread!thr_alarm, Thread!Credit, Credit, Lower
    <3> QED
      BY <1>5, <2>1, <3>1, SizesAssumption, Ticks DEF Thread!thr_alarm, Thread!Rings
  <2>2. CASE ~job
    BY <1>5, <2>2, PacedSame DEF Thread!thr_alarm
  <2> QED
    BY <2>1, <2>2
<1>6. CASE Thread!Take
  <2>1. /\ pc = "test" /\ token > 0 /\ n' = Lower(token, BUFSIZE)
        /\ token' = token - n' /\ level' = level - n' /\ pc' = "read" /\ UNCHANGED <<seen, len>>
    BY <1>6 DEF Thread!Take, Lower
  <2>2. n' \in Nat /\ n' =< token
    BY <1>2, <2>1 DEF Lower
  <2>3. TokensThere'
    BY <1>1, <1>2, <2>1, <2>2 DEF TokensThere
  <2> QED
    BY <1>2, <1>6, <2>1, <2>2, <2>3, TokensMove DEF Thread!Take, BeforeRead
<1>7. CASE Thread!Read(n, "return", "destroy")
  <2>1. Read(n, "return", "destroy")
    BY <1>7 DEF Thread!Read, Thread!Fail, Read, Fail, Lower
  <2> QED
    BY <1>1, <1>2, <2>1, Reads
<1>8. CASE Thread!Return
  <2>1. /\ pc = "return" /\ pc' = "write" /\ len =< n /\ UNCHANGED <<seen, n, len>>
        /\ token' = Lower(token + n - len, BURST) /\ level' = Lower(level + n - len, BURST)
    BY <1>8 DEF Thread!Return, Lower, PacedIInv, TokensThere
  <2>2. level' \in Nat /\ token' \in Nat /\ level' =< BURST /\ token' =< level'
    BY <1>2, <2>1 DEF Lower
  <2>3. TokensThere'
    BY <1>1, <1>2, <2>1, <2>2 DEF TokensThere
  <2> QED
    BY <1>2, <1>8, <2>1, <2>2, <2>3, TokensMove DEF Thread!Return, AfterRead
<1>9. CASE Thread!Write
  <2>1. Write
    BY <1>9 DEF Thread!Write, Thread!Fail, Write, Fail
  <2> QED
    BY <1>1, <2>1, Writes
<1>10. CASE Thread!DestroyClear \/ Thread!DestroyFree \/ Thread!UnloadJoin \/ Thread!UnloadDestroy
  <2>1. BucketThere'
    <3>1. CASE Thread!UnloadDestroy
      <4>1. ~alive' /\ ~job'
        BY <3>1 DEF Thread!UnloadDestroy, PacedIInv, BucketThere
      <4> QED
        BY <3>1, <4>1 DEF Thread!UnloadDestroy, PacedIInv, BucketThere, Libraries
    <3>2. CASE Thread!DestroyClear \/ Thread!DestroyFree
      BY <3>2 DEF Thread!DestroyClear, Thread!DestroyFree, PacedIInv, BucketThere, Libraries
    <3>3. CASE Thread!UnloadJoin
      BY <3>3 DEF Thread!UnloadJoin, PacedIInv, BucketThere, Libraries
    <3> QED
      BY <1>10, <3>1, <3>2, <3>3
  <2>2. TimerThere'
    BY <1>10 DEF Thread!DestroyClear, Thread!DestroyFree, Thread!UnloadJoin, Thread!UnloadDestroy,
       PacedIInv, TimerThere
  <2> QED
    BY <1>10, <2>1, <2>2, BucketMoves
    DEF Thread!DestroyClear, Thread!DestroyFree, Thread!UnloadJoin, Thread!UnloadDestroy, AtEnd
<1>11. CASE Thread!Overrun
  BY <1>11, GoesOn DEF Thread!Overrun
<1>12. CASE Thread!FetchWait \/ Thread!SpuriousWakeup
  BY <1>12, GoesOn DEF Thread!FetchWait, Thread!SpuriousWakeup, BeforeRead
<1> QED
  BY <1>3, <1>4, <1>5, <1>6, <1>7, <1>8, <1>9, <1>10, <1>11, <1>12
  DEF Thread!NextMut, Thread!NextCond, Thread!Process, Thread!ProcessCond, Thread!OpenFile,
      Thread!CopyLoop, Thread!thr_alarm_cond, Thread!module_cond, Thread!mytbf_init_cond,
      Thread!main_cond, Thread!returntoken_cond, Thread!destory_cond, Thread!fetchtoken_cond

-----------------------------------------------------------------------------
(* The copies without a timer. *)

\* The arguments, the source, the target, and the end.
LEMMA CopyOpens ==
  ASSUME PacedIInv, program \notin Libraries, UNCHANGED program,
         Copy!OpenSource("open") \/ Copy!OpenSource("test") \/ Copy!Open \/ Copy!Exit
  PROVE  PacedIInv'
<1> USE DEF Copy!counts, Copy!timer, Copy!bucket, Copy!copy, Copy!others,
            counts, timer, bucket, copy
<1>1. CASE Copy!OpenSource("open") \/ Copy!OpenSource("test") \/ Copy!Open
  BY <1>1, GoesOn DEF Copy!OpenSource, Copy!Open, Copy!Fail, BeforeRead
<1>2. CASE Copy!Exit
  <2>1. Exit
    BY <1>2 DEF Copy!Exit, Exit
  <2> QED
    BY <2>1, Exits
<1> QED
  BY <1>1, <1>2

\* mycopy.c, its copy under signal/ and mycat.c keep the invariant.
LEMMA CopyStep ==
  ASSUME PacedIInv, program \in {"mycopy", "signalmycopy", "mycat"}, UNCHANGED program,
         Copy!mycopy \/ Copy!signalmycopy \/ Copy!mycat
  PROVE  PacedIInv'
<1> USE DEF Copy!counts, Copy!timer, Copy!bucket, Copy!copy, Copy!others,
            counts, timer, bucket, copy
<1>1. program \notin Stdio /\ program \notin Libraries
  BY DEF Stdio, Libraries
<1>2. CASE Copy!OpenSource("open") \/ Copy!OpenSource("test") \/ Copy!Open \/ Copy!Exit
  BY <1>1, <1>2, CopyOpens
<1>3. CASE Copy!Again
  BY <1>3, GoesOn DEF Copy!Again, BeforeRead
<1>4. CASE Copy!Read(BUFSIZE, "write", "exit")
  <2>1. Read(BUFSIZE, "write", "exit")
    BY <1>4 DEF Copy!Read, Copy!Fail, Copy!Lower, Read, Fail, Lower
  <2> QED
    BY <1>1, <2>1, SizesAssumption, Reads
<1>5. CASE Copy!Write
  <2>1. Write
    BY <1>5 DEF Copy!Write, Copy!Fail, Write, Fail
  <2> QED
    BY <1>1, <2>1, Writes
<1> QED
  BY <1>2, <1>3, <1>4, <1>5 DEF Copy!mycopy, Copy!signalmycopy, Copy!mycat, Copy!CopyLoop

\* A piece on stdio: as many bytes go out as came in, or fewer.
LEMMA CopyPiece ==
  ASSUME PacedIInv, program \in Stdio, UNCHANGED program, NEW kept, Copy!Piece(kept),
         DOMAIN kept \subseteq Nat, \A k \in DOMAIN kept : kept[k] \subseteq 0 .. k
  PROVE  PacedIInv'
<1> USE DEF Copy!counts, Copy!timer, Copy!bucket, Copy!copy, Copy!others,
            counts, timer, bucket, copy
<1>1. program \notin Libraries /\ pc = "test" /\ {got, out} \subseteq Nat /\ out =< got
  BY DEF Stdio, Libraries, Copy!Piece, PacedIInv, PacedTypeOK, BytesThere
<1>2. CASE pc' = "exit" /\ UNCHANGED <<got, out>>
  <2>1. PacedTypeOK'
    BY <1>2 DEF Copy!Piece, PacedIInv, PacedTypeOK, AtEnd
  <2>2. TokensThere' /\ BytesThere' /\ TimerThere'
    BY <1>1, <1>2 DEF Copy!Piece, PacedIInv, PacedTypeOK, TokensThere, BytesThere, TimerThere, Cap
  <2>3. BucketThere'
    BY <1>1, <1>2 DEF Copy!Piece, PacedIInv, BucketThere
  <2> QED
    BY <2>1, <2>2, <2>3 DEF PacedIInv
<1>3. ASSUME NEW k \in DOMAIN kept, got' = got + k, UNCHANGED pc,
             out' \in {out} \cup {out + j : j \in kept[k]}
      PROVE  PacedIInv'
  <2>1. k \in Nat /\ got' \in Nat /\ got =< got'
    BY <1>1, <1>3
  <2>2. out' \in Nat /\ out' =< got'
    <3>1. CASE out' = out
      BY <1>1, <2>1, <3>1
    <3>2. ASSUME NEW j \in kept[k], out' = out + j PROVE out' \in Nat /\ out' =< got'
      <4>1. j \in 0 .. k
        OBVIOUS
      <4> QED
        BY <1>1, <1>3, <2>1, <3>2, <4>1
    <3> QED
      BY <1>3, <3>1, <3>2
  <2>3. PacedTypeOK'
    BY <1>3, <2>1, <2>2 DEF Copy!Piece, PacedIInv, PacedTypeOK
  <2>4. TokensThere' /\ BytesThere' /\ TimerThere'
    BY <1>1, <1>3, <2>2
    DEF Copy!Piece, PacedIInv, PacedTypeOK, TokensThere, BytesThere, TimerThere, Cap
  <2>5. BucketThere'
    BY <1>1, <1>3 DEF Copy!Piece, PacedIInv, BucketThere
  <2> QED
    BY <2>3, <2>4, <2>5 DEF PacedIInv
<1> QED
  BY <1>2, <1>3 DEF Copy!Piece

\* The copies on stdio and the download keep the invariant.
LEMMA StdioStep ==
  ASSUME PacedIInv, program \in Stdio, UNCHANGED program,
         Copy!mycopy_fgetc \/ Copy!mycopy_fgets \/ Copy!mycopy_fread \/ Copy!download
  PROVE  PacedIInv'
<1>1. program \notin Libraries /\ BUFSIZE \in Nat
  BY SizesAssumption DEF Stdio, Libraries
<1>2. CASE Copy!OpenSource("open") \/ Copy!OpenSource("test") \/ Copy!Open \/ Copy!Exit
  BY <1>1, <1>2, CopyOpens
<1>3. CASE Copy!Piece(<<{1}>>)
  <2> DEFINE kept == <<{1}>>
  <2>1. DOMAIN kept = {1} /\ kept[1] = {1}
    OBVIOUS
  <2> HIDE DEF kept
  <2>2. DOMAIN kept \subseteq Nat /\ \A k \in DOMAIN kept : kept[k] \subseteq 0 .. k
    BY <2>1
  <2>3. Copy!Piece(kept)
    BY <1>3 DEF kept
  <2> QED
    BY <2>2, <2>3, CopyPiece
<1>4. ASSUME NEW size \in Int, Copy!Piece([k \in 1 .. size |-> 0 .. k]) PROVE PacedIInv'
  <2> DEFINE kept == [k \in 1 .. size |-> 0 .. k]
  <2>1. DOMAIN kept \subseteq Nat /\ \A k \in DOMAIN kept : kept[k] \subseteq 0 .. k
    OBVIOUS
  <2> HIDE DEF kept
  <2>2. Copy!Piece(kept)
    BY <1>4 DEF kept
  <2> QED
    BY <2>1, <2>2, CopyPiece
<1>5. CASE Copy!Piece([k \in 1 .. BUFSIZE |-> {1}])
  <2> DEFINE kept == [k \in 1 .. BUFSIZE |-> {1}]
  <2>1. DOMAIN kept \subseteq Nat /\ \A k \in DOMAIN kept : kept[k] \subseteq 0 .. k
    BY <1>1
  <2> HIDE DEF kept
  <2>2. Copy!Piece(kept)
    BY <1>5 DEF kept
  <2> QED
    BY <2>1, <2>2, CopyPiece
<1>6. CASE Copy!Piece([k \in 1 .. BUFSIZE - 1 |-> 0 .. k]) \/ Copy!Piece([k \in 1 .. BUFSIZE |-> 0 .. k])
  <2>1. BUFSIZE \in Int /\ BUFSIZE - 1 \in Int
    BY <1>1
  <2> QED
    BY <1>4, <1>6, <2>1
<1> QED
  BY <1>2, <1>3, <1>5, <1>6
  DEF Copy!mycopy_fgetc, Copy!mycopy_fgets, Copy!mycopy_fread, Copy!download

-----------------------------------------------------------------------------
(* The exercises on signal masks. *)

\* The exercises start with no row, no signal and no mask.
LEMMA StarsInit == Mask!Init => StarsIInv
  BY DEF Mask!Init, StarsIInv, StarsTypeOK, Unbroken, Mask!RowsWhole

\* A step of an exercise, or a signal that is sent or handled, keeps what is
\* said of rows and signals.
LEMMA StarsStep ==
  ASSUME StarsIInv, Mask!Next
  PROVE  StarsIInv'
<1> USE DEF Mask!printed, Mask!Alive, Mask!Due
<1>1. /\ {pending, sent, bangs, stars, rows} \subseteq Nat
      /\ place \in {"start", "row", "suspend", "ended", "killed"}
  BY DEF StarsIInv, StarsTypeOK
<1>2. CASE Mask!Send
  BY <1>1, <1>2 DEF Mask!Send, StarsIInv, StarsTypeOK, Unbroken, Mask!RowsWhole
<1>3. CASE Mask!handler
  <2>1. StarsTypeOK'
    BY <1>1, <1>3 DEF Mask!handler, StarsTypeOK
  <2>2. Unbroken'
    BY <1>1, <1>3 DEF Mask!handler, StarsIInv, Unbroken
  <2>3. ASSUME place' # "killed", exercise' # "star" PROVE ~torn'
    <3>1. exercise # "star" /\ place # "killed" /\ (torn' <=> (torn \/ stars > 0))
      BY <1>3, <2>3 DEF Mask!handler
    <3>2. ~torn
      BY <3>1 DEF StarsIInv, Mask!RowsWhole
    <3>3. ~(stars > 0)
      BY <1>1, <1>3, <3>1 DEF Mask!handler, StarsIInv, Unbroken
    <3> QED
      BY <3>1, <3>2, <3>3, Zenon
  <2>4. place' # "killed" =>
          /\ exercise' \in {"susp", "rt"} => bangs' =< rows' /\ rows' =< bangs' + 1
          /\ exercise' = "rt" => bangs' + pending' = sent'
          /\ sent' > 0 => bangs' + pending' > 0
    <3>1. /\ exercise' = exercise /\ rows' = rows /\ sent' = sent /\ bangs' = bangs + 1
          /\ place # "killed" /\ pending > 0
          /\ pending' = IF exercise = "rt" THEN pending - 1 ELSE 0
      BY <1>3 DEF Mask!handler
    <3>2. ASSUME exercise \in {"susp", "rt"} PROVE bangs + 1 =< rows /\ rows =< bangs + 1
      BY <1>1, <1>3, <3>2 DEF Mask!handler, StarsIInv, Unbroken, Mask!RowsWhole
    <3>3. exercise = "rt" => bangs + pending = sent
      BY <3>1 DEF StarsIInv, Mask!RowsWhole
    <3> QED
      BY <1>1, <3>1, <3>2, <3>3
  <2> QED
    BY <2>1, <2>2, <2>3, <2>4 DEF StarsIInv, Mask!RowsWhole
<1>4. ASSUME NEW e \in {"star", "block", "susp", "rt"}, Mask!Install(e) PROVE StarsIInv'
  <2>1. /\ exercise = e /\ place = "start" /\ place' = "row"
        /\ UNCHANGED <<exercise, pending, sent, bangs, stars, rows, torn>>
    BY <1>4 DEF Mask!Install
  <2>2. StarsTypeOK'
    BY <2>1 DEF StarsIInv, StarsTypeOK
  <2>3. stars = 0 /\ bangs = 0 /\ rows = 0
    BY <2>1 DEF StarsIInv, Unbroken
  <2>4. e \in {"susp", "rt"} => mask'
    BY <1>4, Zenon DEF Mask!Install
  <2>5. Unbroken'
    BY <2>1, <2>3, <2>4 DEF StarsIInv, Unbroken
  <2>6. Mask!RowsWhole'
    BY <2>1 DEF StarsIInv, Mask!RowsWhole
  <2> QED
    BY <2>2, <2>5, <2>6 DEF StarsIInv
<1>5. ASSUME NEW e \in {"star", "block", "susp", "rt"}, NEW b \in BOOLEAN, Mask!Star(e, b),
             e = "block" => b
      PROVE  StarsIInv'
  BY <1>1, <1>5 DEF Mask!Star, StarsIInv, StarsTypeOK, Unbroken, Mask!RowsWhole
<1>6. CASE Mask!Block
  BY <1>1, <1>6 DEF Mask!Block, StarsIInv, StarsTypeOK, Unbroken, Mask!RowsWhole
<1>7. CASE Mask!Newline("star", FALSE, "ended") \/ Mask!Newline("block", FALSE, "row")
  BY <1>1, <1>7 DEF Mask!Newline, StarsIInv, StarsTypeOK, Unbroken, Mask!RowsWhole
<1>8. CASE Mask!Newline("susp", TRUE, "suspend") \/ Mask!Newline("rt", TRUE, "suspend")
  <2>1. /\ exercise \in {"susp", "rt"} /\ place = "row" /\ place' = "suspend"
        /\ mask' = TRUE /\ stars' = 0 /\ rows' = rows + 1
        /\ UNCHANGED <<exercise, pending, sent, bangs, torn>>
    BY <1>8 DEF Mask!Newline
  <2>2. bangs = rows /\ exercise # "star"
    BY <2>1 DEF StarsIInv, Unbroken
  <2>3. StarsTypeOK'
    BY <1>1, <2>1 DEF StarsTypeOK
  <2>4. Unbroken'
    BY <1>1, <2>1, <2>2 DEF StarsIInv, Unbroken
  <2>5. Mask!RowsWhole'
    BY <1>1, <2>1, <2>2 DEF StarsIInv, Mask!RowsWhole
  <2> QED
    BY <2>3, <2>4, <2>5 DEF StarsIInv
<1>9. ASSUME NEW e \in {"block", "susp", "rt"}, Mask!Leave(e) PROVE StarsIInv'
  <2>1. /\ place = "row" /\ place' = "ended" /\ exercise # "star"
        /\ mask' = FALSE /\ UNCHANGED <<exercise, pending, sent, bangs, stars, rows, torn>>
    BY <1>9 DEF Mask!Leave
  <2>2. StarsTypeOK'
    BY <1>1, <2>1 DEF StarsTypeOK
  <2>3. stars = 0 \/ exercise # "block"
    BY <1>1, <1>9 DEF StarsIInv, Unbroken, Mask!Leave
  <2>4. Unbroken'
    BY <1>1, <2>1, <2>3 DEF StarsIInv, Unbroken
  <2>5. Mask!RowsWhole'
    BY <1>1, <2>1 DEF StarsIInv, Mask!RowsWhole
  <2> QED
    BY <2>2, <2>4, <2>5 DEF StarsIInv
<1>10. CASE Mask!Star("star", FALSE)
  BY <1>5, <1>10
<1>11. CASE Mask!Star("block", TRUE)
  BY <1>5, <1>11
<1>12. CASE Mask!Star("susp", TRUE) \/ Mask!Star("rt", TRUE)
  BY <1>5, <1>12
<1>13. CASE Mask!star
  BY <1>4, <1>7, <1>10, <1>13 DEF Mask!star
<1>14. CASE Mask!block
  BY <1>4, <1>6, <1>7, <1>9, <1>11, <1>14 DEF Mask!block
<1>15. CASE Mask!susp
  BY <1>4, <1>8, <1>9, <1>12, <1>15 DEF Mask!susp
<1>16. CASE Mask!susp_rt
  BY <1>4, <1>8, <1>9, <1>12, <1>16 DEF Mask!susp_rt
<1> QED
  BY <1>2, <1>3, <1>13, <1>14, <1>15, <1>16 DEF Mask!Next

\* That invariant speaks of these variables only.
LEMMA StarsSame ==
  ASSUME StarsIInv, UNCHANGED starVars
  PROVE  StarsIInv'
  BY DEF starVars, StarsIInv, StarsTypeOK, Unbroken, Mask!RowsWhole

-----------------------------------------------------------------------------
(* Any of the programs. *)

\* A step of whichever program runs keeps both invariants.
LEMMA PacedStep ==
  ASSUME PacedIInv, StarsIInv, PacedNext
  PROVE  PacedIInv' /\ StarsIInv'
<1> USE DEF Runs
<1>1. CASE program = "stars" /\ Mask!Next /\ UNCHANGED <<program, vars>>
  BY <1>1, PacedSame, StarsStep DEF vars
<1>2. CASE Runs("leaky", Slow!NextLeaky)
  BY <1>2, LeakyStep, StarsSame
<1>3. CASE Runs("timer", Slow!NextTimer)
  BY <1>3, TimerStep, StarsSame
<1>4. CASE Runs("token", Slow!NextToken)
  BY <1>4, TokenStep, StarsSame
<1>5. CASE Runs("signal", Signal!NextSignal)
  BY <1>5, SignalStep, StarsSame
<1>6. CASE Runs("sigaction", Signal!NextSigaction)
  BY <1>6, SigactionStep, StarsSame
<1>7. CASE Runs("mut", Thread!NextMut) \/ Runs("mutcond", Thread!NextCond)
  BY <1>7, ThreadStep, StarsSame
<1>8. CASE CopyNext
  <2>1. CASE program \in {"mycopy", "signalmycopy", "mycat"}
    BY <1>8, <2>1, CopyStep, StarsSame DEF CopyNext
  <2>2. CASE program \in Stdio
    BY <1>8, <2>2, StdioStep, StarsSame DEF CopyNext, Stdio
  <2> QED
    BY <1>8, <2>1, <2>2 DEF CopyNext, Stdio
<1> QED
  BY <1>1, <1>2, <1>3, <1>4, <1>5, <1>6, <1>7, <1>8 DEF PacedNext

\* Every copying program and every exercise keeps its invariant.
THEOREM PacedInvariant == PacedSpec => [](PacedIInv /\ StarsIInv)
<1>1. PacedInit => PacedIInv /\ StarsIInv
  BY PacedStart, StarsInit DEF PacedInit
<1>2. PacedIInv /\ StarsIInv /\ [PacedNext]_allVars => (PacedIInv /\ StarsIInv)'
  BY PacedStep, PacedSame, StarsSame DEF allVars, vars
<1> QED
  BY <1>1, <1>2, PTL DEF PacedSpec

\* No fetch takes a token that no tick has added, wherever a SIGALRM falls
\* between the instructions of fetchtoken and returntoken, for any CPS and BURST.
THEOREM NoTokenMade == PacedSpec => []NotOverdrawn
<1>1. PacedIInv => NotOverdrawn
  BY DEF PacedIInv, PacedTypeOK, TokensThere, NotOverdrawn
<1> QED
  BY <1>1, PacedInvariant, PTL

\* A copy that exits with 0 has written every byte once, through any sequence
\* of short reads and short writes; the copies on stdio write none twice.
THEOREM CopiedWhole == PacedSpec => []AllCopied
<1>1. PacedIInv => AllCopied
  BY SizesAssumption
  DEF PacedIInv, PacedTypeOK, BytesThere, AllCopied, CopiedAll, Stdio, BeforeRead, AtEnd
<1> QED
  BY <1>1, PacedInvariant, PTL

\* The handler never finds a freed bucket in job[], exit() leaves none
\* allocated, and no ! comes inside a row printed with the signal blocked.
THEOREM HandlersCorrect == PacedSpec => []HandlersSafe
<1>1. PacedIInv => HandlerSafe
  BY DEF PacedIInv, PacedTypeOK, BucketThere, TimerThere, HandlerSafe, Rings, BeforeRead, AfterRead, AtEnd
<1>2. StarsIInv => Mask!RowsWhole
  BY DEF StarsIInv
<1> QED
  BY <1>1, <1>2, PacedInvariant, PTL DEF HandlersSafe

-----------------------------------------------------------------------------
(* The buckets keep the promise of TokenBucket. *)

\* Where a library's program has its bucket.
Copying == (BeforeRead \ {"start", "init"}) \cup AfterRead \cup {"destroy"}

\* A bucket opens empty, with no tick before; while main copies it is open,
\* and a fetch has one token at least and what one call may ask for at most.
InUse ==
  /\ pc = "start" => handler = "default"
  /\ pc = "init" => program \in Libraries
  /\ pc \in {"start", "init"} => level = 0 /\ ~job
  /\ program \in Libraries /\ pc \in Copying => job
  /\ program \in Libraries /\ pc \in {"store", "add"} => 1 =< n
  /\ n =< BUFSIZE

\* The sizes TokenBucket is instantiated with.
LEMMA Sizes == /\ Rate \in 1 .. CPS /\ Cap \in 1 .. BURST
               /\ {CPS, BURST, BUFSIZE} \subseteq Nat \ {0}
               /\ UNCHANGED program => Rate' = Rate /\ Cap' = Cap
  BY SizesAssumption DEF Rate, Cap

\* A step that opens the empty bucket.
LEMMA Opens ==
  ASSUME Opened = {}, Opened' = {1}, level = 0, UNCHANGED <<program, level>>
  PROVE  TB!Next
<1>1. TB!Open(1)
  BY Sizes DEF TB!Open
<1> QED
  BY <1>1 DEF TB!Next

\* A step that closes the bucket.
LEMMA Closes ==
  ASSUME Opened = {1}, Opened' = {}, UNCHANGED <<program, level>>
  PROVE  TB!Next
<1>1. TB!Close(1)
  BY Sizes DEF TB!Close
<1> QED
  BY <1>1 DEF TB!Next

\* A tick.
LEMMA Credits ==
  ASSUME level \in Nat, Opened = {1}, Opened' = {1}, UNCHANGED program, level' = Lower(level + Rate, Cap)
  PROVE  TB!Next
<1>1. level' = TB!Clamp(level + Rate, Cap)
  BY Sizes DEF TB!Clamp, Lower
<1>2. TB!Credit(1)
  BY <1>1, Sizes DEF TB!Credit
<1> QED
  BY <1>2 DEF TB!Next

\* A fetch.
LEMMA Takes ==
  ASSUME level \in Nat, Opened = {1}, Opened' = {1}, UNCHANGED program,
         NEW k \in 1 .. BUFSIZE, k =< level, level' = level - k
  PROVE  TB!Next
<1>1. TB!Take(1, k)
  BY Sizes DEF TB!Take
<1> QED
  BY <1>1 DEF TB!Next

\* A return.
LEMMA GivesBack ==
  ASSUME level \in Nat, Opened = {1}, Opened' = {1}, UNCHANGED program,
         NEW k \in 1 .. BUFSIZE, level' = Lower(level + k, Cap)
  PROVE  TB!Next
<1>1. level' = TB!Clamp(level + k, Cap)
  BY Sizes DEF TB!Clamp, Lower
<1>2. TB!GiveBack(1, k)
  BY <1>1, Sizes DEF TB!GiveBack
<1> QED
  BY <1>2 DEF TB!Next

\* A step that leaves the bucket alone.
LEMMA LeftAlone ==
  ASSUME Opened' = Opened, UNCHANGED <<program, level>>
  PROVE  UNCHANGED TB!bucketVars
  BY Sizes DEF TB!bucketVars

\* A slowcat's bucket is open from its first statement on.
LEMMA SlowcatUse ==
  ASSUME PacedIInv, InUse, program \in Slowcats, UNCHANGED <<program, n>>, pc' \notin {"start", "init"}
  PROVE  /\ InUse' /\ Opened' = {1}
         /\ Opened = IF pc = "start" THEN {} ELSE {1}
         /\ program \notin Libraries /\ pc # "init" /\ level \in Nat
  BY DEF PacedIInv, PacedTypeOK, InUse, Opened, Slowcats, Libraries

\* A step of a slowcat's main that leaves its tokens alone, its first apart.
LEMMA SlowcatMain ==
  ASSUME PacedIInv, InUse, program \in Slowcats, UNCHANGED <<program, n, level>>,
         pc # "start", pc' \notin {"start", "init"}
  PROVE  InUse' /\ [TB!Next]_(TB!bucketVars)
  BY SlowcatUse, LeftAlone

\* A tick of a slowcat.
LEMMA SlowcatTick ==
  ASSUME PacedIInv, InUse, program \in Slowcats, UNCHANGED <<program, n>>, handler = "ours",
         Credit(1, Cap)
  PROVE  InUse' /\ [TB!Next]_(TB!bucketVars)
<1>1. pc \notin {"start", "init"} /\ pc' \notin {"start", "init"}
  BY DEF InUse, Credit, Slowcats, Libraries
<1>2. Rate = 1
  BY DEF Rate
<1> QED
  BY <1>1, <1>2, SlowcatUse, Credits DEF Credit

\* A slowcat spends one token.
LEMMA SlowcatTake ==
  ASSUME PacedIInv, InUse, program \in Slowcats, UNCHANGED <<program, n>>,
         pc \in {"take", "store"}, pc' = "read", level' = level - 1
  PROVE  InUse' /\ [TB!Next]_(TB!bucketVars)
<1>1. /\ {token, level, seen} \subseteq Nat
      /\ token =< level /\ (pc = "take" => 1 =< token)
      /\ pc = "store" => 1 =< seen /\ seen =< token
  BY DEF PacedIInv, PacedTypeOK, TokensThere
<1>2. 1 =< level /\ 1 \in 1 .. BUFSIZE
  BY <1>1, Sizes
<1> QED
  BY <1>1, <1>2, SlowcatUse, Takes

\* 008slowcat.c keeps the promise.
LEMMA LeakyPromise ==
  ASSUME PacedIInv, InUse, program = "leaky", UNCHANGED program, Slow!NextLeaky
  PROVE  InUse' /\ [TB!Next]_(TB!bucketVars)
<1> USE DEF Slow!counts, Slow!timer, Slow!bucket, Slow!copy
<1>1. program \in Slowcats /\ Cap = 1
  BY DEF Slowcats, Cap
<1>2. CASE Slow!StartAlarm
  <2>1. pc = "start" /\ pc' = "open" /\ UNCHANGED <<n, level>> /\ level = 0
    BY <1>2 DEF Slow!StartAlarm, InUse
  <2> QED
    BY <1>1, <2>1, SlowcatUse, Opens
<1>3. CASE Slow!Take
  BY <1>1, <1>3, SlowcatTake DEF Slow!Take
<1>4. CASE Slow!alrm_handler_leaky
  <2>1. Credit(1, Cap)
    BY <1>1, <1>4 DEF Slow!alrm_handler_leaky, Slow!Credit, Slow!Lower, Credit, Lower
  <2> QED
    BY <1>1, <1>4, <2>1, SlowcatTick DEF Slow!alrm_handler_leaky, Slow!Rings
<1>5. CASE \/ Slow!Open \/ Slow!TestLoop \/ Slow!Pause \/ Slow!ReadFile
           \/ Slow!Write \/ Slow!Exit
  <2>1. UNCHANGED <<n, level>> /\ pc # "start" /\ pc' \notin {"start", "init"}
    BY <1>5 DEF Slow!Open, Slow!TestLoop, Slow!Pause, Slow!ReadFile, Slow!Read,
       Slow!Write, Slow!Exit, Slow!Fail
  <2> QED
    BY <1>1, <2>1, SlowcatMain
<1> QED
  BY <1>2, <1>3, <1>4, <1>5 DEF Slow!NextLeaky, Slow!mainLeaky, Slow!Common

\* 010setitimerslowcat.c keeps the promise.
LEMMA TimerPromise ==
  ASSUME PacedIInv, InUse, program = "timer", UNCHANGED program, Slow!NextTimer
  PROVE  InUse' /\ [TB!Next]_(TB!bucketVars)
<1> USE DEF Slow!counts, Slow!timer, Slow!bucket, Slow!copy
<1>1. program \in Slowcats /\ Cap = 1
  BY DEF Slowcats, Cap
<1>2. CASE Slow!StartTimer
  <2>1. pc = "start" /\ pc' \in {"open", "exit"} /\ UNCHANGED <<n, level>> /\ level = 0
    BY <1>2 DEF Slow!StartTimer, Slow!Fail, InUse
  <2> QED
    BY <1>1, <2>1, SlowcatUse, Opens
<1>3. CASE Slow!Take
  BY <1>1, <1>3, SlowcatTake DEF Slow!Take
<1>4. CASE Slow!alrm_handler_timer
  <2>1. Credit(1, Cap)
    BY <1>1, <1>4 DEF Slow!alrm_handler_timer, Slow!Credit, Slow!Lower, Credit, Lower
  <2> QED
    BY <1>1, <1>4, <2>1, SlowcatTick DEF Slow!alrm_handler_timer, Slow!Rings
<1>5. CASE \/ Slow!Open \/ Slow!TestLoop \/ Slow!Pause \/ Slow!ReadFile
           \/ Slow!Write \/ Slow!Exit
  <2>1. UNCHANGED <<n, level>> /\ pc # "start" /\ pc' \notin {"start", "init"}
    BY <1>5 DEF Slow!Open, Slow!TestLoop, Slow!Pause, Slow!ReadFile, Slow!Read,
       Slow!Write, Slow!Exit, Slow!Fail
  <2> QED
    BY <1>1, <2>1, SlowcatMain
<1> QED
  BY <1>2, <1>3, <1>4, <1>5 DEF Slow!NextTimer, Slow!mainTimer, Slow!Common

\* 009slowcat2.c keeps the promise, the tick between the load and the store
\* of token-- included.
LEMMA TokenPromise ==
  ASSUME PacedIInv, InUse, program = "token", UNCHANGED program, Slow!NextToken
  PROVE  InUse' /\ [TB!Next]_(TB!bucketVars)
<1> USE DEF Slow!counts, Slow!timer, Slow!bucket, Slow!copy
<1>1. program \in Slowcats /\ Cap = BURST
  BY DEF Slowcats, Cap
<1>2. CASE Slow!StartAlarm
  <2>1. pc = "start" /\ pc' = "open" /\ UNCHANGED <<n, level>> /\ level = 0
    BY <1>2 DEF Slow!StartAlarm, InUse
  <2> QED
    BY <1>1, <2>1, SlowcatUse, Opens
<1>3. CASE Slow!Store
  BY <1>1, <1>3, SlowcatTake DEF Slow!Store
<1>4. CASE Slow!alrm_handler_token
  <2>1. Credit(1, Cap)
    BY <1>1, <1>4 DEF Slow!alrm_handler_token, Slow!Credit, Slow!Lower, Credit, Lower
  <2> QED
    BY <1>1, <1>4, <2>1, SlowcatTick DEF Slow!alrm_handler_token, Slow!Rings
<1>5. CASE \/ Slow!Open \/ Slow!TestToken \/ Slow!Pause \/ Slow!Load \/ Slow!ReadFile
           \/ Slow!Write \/ Slow!Exit
  <2>1. UNCHANGED <<n, level>> /\ pc # "start" /\ pc' \notin {"start", "init"}
    BY <1>5 DEF Slow!Open, Slow!TestToken, Slow!Pause, Slow!Load, Slow!ReadFile,
       Slow!Read, Slow!Write, Slow!Exit, Slow!Fail
  <2> QED
    BY <1>1, <2>1, SlowcatMain
<1> QED
  BY <1>2, <1>3, <1>4, <1>5 DEF Slow!NextToken, Slow!mainToken, Slow!Common

\* A library's bucket is open while it is in job[].
LEMMA LibraryUse ==
  ASSUME PacedIInv, InUse, program \in Libraries, UNCHANGED program
  PROVE  /\ Opened = (IF job THEN {1} ELSE {}) /\ Opened' = (IF job' THEN {1} ELSE {})
         /\ Rate = CPS /\ Cap = BURST
         /\ {token, level, seen, n, len} \subseteq Nat
  BY DEF PacedIInv, PacedTypeOK, Opened, Rate, Cap, Slowcats, Libraries

\* Where main goes on with job[] and what is in its hands.
LEMMA LibraryGoes ==
  ASSUME PacedIInv, InUse, program \in Libraries, UNCHANGED <<program, job>>,
         pc' # "start" /\ (pc' = "init" => pc = "start" /\ UNCHANGED level),
         pc \in Copying \/ pc' \notin Copying,
         n' =< BUFSIZE, pc' \in {"store", "add"} => 1 =< n'
  PROVE  InUse'
  BY DEF InUse

\* A step that leaves the tokens alone, and job[].
LEMMA LibraryMain ==
  ASSUME PacedIInv, InUse, program \in Libraries, UNCHANGED <<program, job, level>>,
         pc' # "start", pc' = "init" => pc = "start", pc \in Copying \/ pc' \notin Copying,
         n' =< BUFSIZE, pc' \in {"store", "add"} => 1 =< n'
  PROVE  InUse' /\ [TB!Next]_(TB!bucketVars)
<1>1. InUse'
  BY LibraryGoes
<1>2. Opened' = Opened
  BY LibraryUse
<1> QED
  BY <1>1, <1>2, LeftAlone

\* mytbf_init puts the bucket into job[].
LEMMA LibraryOpens ==
  ASSUME PacedIInv, InUse, program \in Libraries, UNCHANGED <<program, n, level>>,
         pc = "init", pc' = "open", job' = TRUE
  PROVE  InUse' /\ [TB!Next]_(TB!bucketVars)
<1>1. level = 0 /\ ~job /\ InUse'
  BY DEF InUse
<1>2. Opened = {} /\ Opened' = {1}
  BY <1>1, LibraryUse
<1> QED
  BY <1>1, <1>2, Opens

\* It is taken out at the end, or was not there.
LEMMA LibraryCloses ==
  ASSUME PacedIInv, InUse, program \in Libraries, UNCHANGED <<program, n, level>>,
         pc' \in {"free", "ended"}, job' = FALSE
  PROVE  InUse' /\ [TB!Next]_(TB!bucketVars)
<1>1. InUse'
  BY DEF InUse, Copying, BeforeRead, AfterRead
<1>2. CASE job
  BY <1>1, <1>2, LibraryUse, Closes
<1>3. CASE ~job
  BY <1>1, <1>3, LibraryUse, LeftAlone
<1> QED
  BY <1>2, <1>3

\* A tick reaches the bucket in job[].
LEMMA LibraryTick ==
  ASSUME PacedIInv, InUse, program \in Libraries, UNCHANGED <<program, n, job>>, job, Credit(CPS, BURST)
  PROVE  InUse' /\ [TB!Next]_(TB!bucketVars)
<1>1. pc \notin {"start", "init"} /\ pc' = IF pc = "pause" THEN "test" ELSE pc
  BY DEF InUse, Credit
<1>2. InUse'
  BY <1>1 DEF InUse, Copying, BeforeRead
<1> QED
  BY <1>2, LibraryUse, Credits DEF Credit

\* No bucket is in job[]: a signal ends pause() and nothing else.
LEMMA LibraryWoken ==
  ASSUME PacedIInv, InUse, program \in Libraries, UNCHANGED <<program, n, job, level>>,
         pc' = IF pc = "pause" THEN "test" ELSE pc, handler = "ours"
  PROVE  InUse' /\ [TB!Next]_(TB!bucketVars)
<1>1. InUse'
  BY DEF InUse, Copying, BeforeRead
<1> QED
  BY <1>1, LibraryUse, LeftAlone

\* fetchtoken takes k tokens.
LEMMA LibraryTakes ==
  ASSUME PacedIInv, InUse, program \in Libraries, UNCHANGED <<program, job>>, pc \in Copying, pc' = "read",
         NEW k \in 1 .. BUFSIZE, k =< level, level' = level - k, n' = k
  PROVE  InUse' /\ [TB!Next]_(TB!bucketVars)
<1>1. InUse' /\ job
  BY DEF InUse, Copying, BeforeRead
<1> QED
  BY <1>1, LibraryUse, Takes

\* returntoken gives k back.
LEMMA LibraryReturns ==
  ASSUME PacedIInv, InUse, program \in Libraries, UNCHANGED <<program, job, n>>,
         pc \in Copying, pc' \in {"clamp", "write"},
         NEW k \in 1 .. BUFSIZE, level' = Lower(level + k, BURST)
  PROVE  InUse' /\ [TB!Next]_(TB!bucketVars)
<1>1. InUse' /\ job
  BY DEF InUse, Copying, AfterRead
<1> QED
  BY <1>1, LibraryUse, GivesBack

\* The two libraries on SIGALRM keep the promise, instruction by instruction.
LEMMA LibraryPromise ==
  ASSUME PacedIInv, InUse, program \in {"signal", "sigaction"}, UNCHANGED program,
         Signal!Process \/ Signal!Killed
  PROVE  InUse' /\ [TB!Next]_(TB!bucketVars)
<1> USE DEF Signal!counts, Signal!timer, Signal!bucket, Signal!copy, Signal!Lower
<1>1. /\ program \in Libraries
      /\ {token, level, seen, n, len} \subseteq Nat /\ BUFSIZE \in Nat \ {0}
      /\ n =< BUFSIZE
      /\ pc \in Copying \cup {"start", "init", "free", "exit", "unarm", "unload", "ended", "killed"}
  BY Sizes DEF Libraries, PacedIInv, PacedTypeOK, InUse, Copying, AtEnd
<1>2. CASE Signal!module_load \/ Signal!Open \/ Signal!Pause \/ Signal!FetchTest \/ Signal!ReadFile
  <2>1. /\ UNCHANGED <<job, level, n>> /\ pc' # "start" /\ (pc' = "init" => pc = "start")
        /\ pc \in Copying \/ pc' \notin Copying
        /\ pc' \notin {"store", "add"}
    BY <1>2 DEF Signal!module_load, Signal!Open, Signal!Pause, Signal!FetchTest, Signal!ReadFile,
       Signal!Read, Signal!Fail, Copying, BeforeRead, AfterRead
  <2> QED
    BY <1>1, <2>1, LibraryMain
<1>3. CASE Signal!mytbf_init
  <2>1. CASE Signal!Fail /\ UNCHANGED bucket
    <3>1. UNCHANGED <<job, level, n>> /\ pc' = "exit" /\ pc' \notin Copying
      BY <1>3, <2>1 DEF Signal!mytbf_init, Signal!Fail, bucket, Copying, BeforeRead, AfterRead
    <3> QED
      BY <1>1, <3>1, LibraryMain
  <2>2. CASE job' = TRUE /\ pc' = "open"
    BY <1>1, <1>3, <2>2, LibraryOpens DEF Signal!mytbf_init
  <2> QED
    BY <1>3, <2>1, <2>2 DEF Signal!mytbf_init, bucket
<1>4. CASE Signal!FetchMin
  <2>1. PICK v \in {seen, token} : n' = Lower(v, BUFSIZE)
    BY <1>4 DEF Signal!FetchMin, Lower
  <2>2. v \in Nat /\ 1 =< v
    BY <1>1, <1>4, <2>1 DEF Signal!FetchMin, PacedIInv, TokensThere
  <2>3. 1 =< n' /\ n' =< BUFSIZE
    BY <1>1, <2>1, <2>2 DEF Lower
  <2>4. UNCHANGED <<job, level>> /\ pc \in Copying /\ pc' = "store"
    BY <1>4 DEF Signal!FetchMin, Copying, BeforeRead
  <2> QED
    BY <1>1, <2>3, <2>4, LibraryMain
<1>5. CASE Signal!FetchStore
  <2>1. 1 =< n /\ n =< level /\ n \in 1 .. BUFSIZE
    BY <1>1, <1>5 DEF Signal!FetchStore, InUse, PacedIInv, TokensThere
  <2>2. UNCHANGED <<job, n>> /\ pc \in Copying /\ pc' = "read" /\ level' = level - n
    BY <1>5 DEF Signal!FetchStore, Copying, BeforeRead
  <2> QED
    BY <1>1, <2>1, <2>2, LibraryTakes
<1>6. CASE Signal!ReturnLoad
  <2>1. n' = n - len /\ n' =< BUFSIZE /\ (pc' = "add" => 1 =< n')
    BY <1>1, <1>6 DEF Signal!ReturnLoad
  <2>2. UNCHANGED <<job, level>> /\ pc \in Copying /\ pc' \in {"add", "write"}
    BY <1>6 DEF Signal!ReturnLoad, Copying, AfterRead
  <2> QED
    BY <1>1, <2>1, <2>2, LibraryMain
<1>7. CASE Signal!ReturnAdd
  <2>1. n \in 1 .. BUFSIZE
    BY <1>1, <1>7 DEF Signal!ReturnAdd, InUse
  <2>2. UNCHANGED <<job, n>> /\ pc \in Copying /\ pc' = "clamp" /\ level' = Lower(level + n, BURST)
    BY <1>7 DEF Signal!ReturnAdd, Copying, AfterRead, Lower
  <2> QED
    BY <1>1, <2>1, <2>2, LibraryReturns
<1>8. CASE Signal!ReturnClamp \/ Signal!Write
  <2>1. UNCHANGED <<job, level, n>> /\ pc \in Copying /\ pc' \in {"write", "test", "exit"}
    BY <1>8 DEF Signal!ReturnClamp, Signal!Write, Signal!Fail, Copying, AfterRead
  <2> QED
    BY <1>1, <2>1, LibraryMain
<1>9. CASE Signal!DestroyClear
  BY <1>1, <1>9, LibraryCloses DEF Signal!DestroyClear
<1>10. CASE \/ Signal!DestroyFree \/ Signal!UnloadHandler \/ Signal!UnloadAlarm
            \/ Signal!UnloadFree \/ Signal!Killed
  <2>1. /\ UNCHANGED <<job, level, n>>
        /\ pc' \in {"exit", "unarm", "unload", "ended", "killed"}
    BY <1>10 DEF Signal!DestroyFree, Signal!UnloadHandler, Signal!UnloadAlarm, Signal!UnloadFree,
       Signal!Killed
  <2>2. pc' \notin Copying
    BY <2>1 DEF Copying, BeforeRead, AfterRead
  <2> QED
    BY <1>1, <2>1, <2>2, LibraryMain
<1> QED
  BY <1>2, <1>3, <1>4, <1>5, <1>6, <1>7, <1>8, <1>9, <1>10
  DEF Signal!Process, Signal!Fetch, Signal!Return, Signal!Unload

\* signal/mytbf keeps the promise, its handler between any two instructions.
LEMMA SignalPromise ==
  ASSUME PacedIInv, InUse, program = "signal", UNCHANGED program, Signal!NextSignal
  PROVE  InUse' /\ [TB!Next]_(TB!bucketVars)
<1> USE DEF Signal!counts, Signal!timer, Signal!bucket, Signal!copy
<1>1. program \in Libraries
  BY DEF Libraries
<1>2. CASE Signal!alarm_handler /\ job
  <2>1. Credit(CPS, BURST)
    BY <1>2 DEF Signal!alarm_handler, Signal!Refill, Signal!Credit, Signal!Lower, Credit, Lower
  <2> QED
    BY <1>1, <1>2, <2>1, LibraryTick DEF Signal!alarm_handler
<1>3. CASE Signal!alarm_handler /\ ~job
  BY <1>1, <1>3, LibraryWoken DEF Signal!alarm_handler, Signal!Refill, Signal!Woken, Signal!Rings
<1> QED
  BY <1>2, <1>3, LibraryPromise DEF Signal!NextSignal

\* signal/sigactionmytbf keeps the promise, signals from kill included.
LEMMA SigactionPromise ==
  ASSUME PacedIInv, InUse, program = "sigaction", UNCHANGED program, Signal!NextSigaction
  PROVE  InUse' /\ [TB!Next]_(TB!bucketVars)
<1> USE DEF Signal!counts, Signal!timer, Signal!bucket, Signal!copy
<1>1. program \in Libraries
  BY DEF Libraries
<1>2. CASE Signal!Process \/ Signal!Killed
  BY <1>2, LibraryPromise
<1>3. CASE Signal!alarm_action /\ job
  <2>1. Credit(CPS, BURST)
    BY <1>3 DEF Signal!alarm_action, Signal!Refill, Signal!Credit, Signal!Lower, Credit, Lower
  <2> QED
    BY <1>1, <1>3, <2>1, LibraryTick DEF Signal!alarm_action
<1>4. CASE (Signal!alarm_action /\ ~job) \/ Signal!alarm_action_kill
  BY <1>1, <1>4, LibraryWoken
  DEF Signal!alarm_action, Signal!alarm_action_kill, Signal!Woken, Signal!Refill, Signal!Rings
<1> QED
  BY <1>2, <1>3, <1>4 DEF Signal!NextSigaction

\* The libraries with a thread that refills keep the promise: what is given
\* back is cut at the burst under the mutex, and a read that got all it had
\* tokens for gives nothing back.
LEMMA ThreadPromise ==
  ASSUME PacedIInv, InUse, program \in {"mut", "mutcond"}, UNCHANGED program,
         Thread!NextMut \/ Thread!NextCond
  PROVE  InUse' /\ [TB!Next]_(TB!bucketVars)
<1> USE DEF Thread!counts, Thread!timer, Thread!bucket, Thread!copy, Thread!Lower
<1>1. /\ program \in Libraries
      /\ {token, level, seen, n, len} \subseteq Nat /\ BUFSIZE \in Nat \ {0} /\ BURST \in Nat
      /\ n =< BUFSIZE /\ level =< BURST
      /\ pc # "clamp" => token =< level
  BY Sizes DEF Libraries, PacedIInv, PacedTypeOK, TokensThere, InUse, Cap
<1>2. CASE \/ Thread!module_load \/ Thread!Open \/ Thread!Read(n, "return", "destroy")
           \/ Thread!Write \/ Thread!FetchWait \/ Thread!SpuriousWakeup
  <2>1. /\ UNCHANGED <<job, level, n>> /\ pc' # "start" /\ (pc' = "init" => pc = "start")
        /\ pc \in Copying \/ pc' \notin Copying
        /\ pc' \notin {"store", "add"}
    BY <1>2 DEF Thread!module_load, Thread!Open, Thread!Read, Thread!Write, Thread!FetchWait,
       Thread!SpuriousWakeup, Thread!Fail, Copying, BeforeRead, AfterRead
  <2> QED
    BY <1>1, <2>1, LibraryMain
<1>3. CASE Thread!mytbf_init
  <2>1. CASE Thread!Fail /\ UNCHANGED bucket
    <3>1. UNCHANGED <<job, level, n>> /\ pc' = "exit" /\ pc' \notin Copying
      BY <1>3, <2>1 DEF Thread!mytbf_init, Thread!Fail, bucket, Copying, BeforeRead, AfterRead
    <3> QED
      BY <1>1, <3>1, LibraryMain
  <2>2. CASE job' = TRUE /\ pc' = "open"
    BY <1>1, <1>3, <2>2, LibraryOpens DEF Thread!mytbf_init
  <2> QED
    BY <1>3, <2>1, <2>2 DEF Thread!mytbf_init, bucket
<1>4. CASE Thread!thr_alarm
  <2>1. CASE job
    <3>1. Credit(CPS, BURST)
      BY <1>4, <2>1 DEF Thread!thr_alarm, Thread!Credit, Credit, Lower
    <3> QED
      BY <1>1, <1>4, <2>1, <3>1, LibraryTick DEF Thread!thr_alarm
  <2>2. CASE ~job
    <3>1. UNCHANGED <<job, level, n, pc, handler>>
      BY <1>4, <2>2 DEF Thread!thr_alarm
    <3>2. InUse'
      BY <3>1 DEF InUse
    <3> QED
      BY <1>1, <3>1, <3>2, LibraryUse, LeftAlone
  <2> QED
    BY <2>1, <2>2
<1>5. CASE Thread!Take
  <2>1. /\ pc = "test" /\ token > 0 /\ n' = Lower(token, BUFSIZE)
        /\ level' = level - n' /\ pc' = "read" /\ UNCHANGED job
    BY <1>5 DEF Thread!Take, Lower
  <2>2. n' \in 1 .. BUFSIZE /\ n' =< level /\ pc \in Copying
    BY <1>1, <2>1 DEF Lower, Copying, BeforeRead
  <2> QED
    BY <1>1, <2>1, <2>2, LibraryTakes
<1>6. CASE Thread!Return
  <2>1. /\ pc = "return" /\ pc' = "write" /\ len =< n /\ UNCHANGED <<job, n>> /\ pc \in Copying
        /\ level' = Lower(level + n - len, BURST)
    BY <1>6 DEF Thread!Return, Lower, PacedIInv, TokensThere, Copying, AfterRead
  <2>2. CASE len = n
    <3>1. level' = level
      BY <1>1, <2>1, <2>2 DEF Lower
    <3> QED
      BY <1>1, <2>1, <3>1, LibraryMain
  <2>3. CASE len # n
    <3>1. n - len \in 1 .. BUFSIZE /\ level + n - len = level + (n - len)
      BY <1>1, <2>1, <2>3
    <3> QED
      BY <1>1, <2>1, <3>1, LibraryReturns
  <2> QED
    BY <2>2, <2>3
<1>7. CASE Thread!DestroyClear \/ Thread!UnloadDestroy
  BY <1>1, <1>7, LibraryCloses DEF Thread!DestroyClear, Thread!UnloadDestroy
<1>8. CASE Thread!DestroyFree \/ Thread!UnloadJoin \/ Thread!Overrun
  <2>1. UNCHANGED <<job, level, n>> /\ pc' \in {"exit", "unload", "killed"}
    BY <1>8 DEF Thread!DestroyFree, Thread!UnloadJoin, Thread!Overrun
  <2>2. pc' \notin Copying
    BY <2>1 DEF Copying, BeforeRead, AfterRead
  <2> QED
    BY <1>1, <2>1, <2>2, LibraryMain
<1> QED
  BY <1>2, <1>3, <1>4, <1>5, <1>6, <1>7, <1>8
  DEF Thread!NextMut, Thread!NextCond, Thread!Process, Thread!ProcessCond, Thread!OpenFile,
      Thread!CopyLoop, Thread!thr_alarm_cond, Thread!module_cond, Thread!mytbf_init_cond,
      Thread!main_cond, Thread!returntoken_cond, Thread!destory_cond, Thread!fetchtoken_cond

\* The copies without a timer have no bucket.
LEMMA CopyPromise ==
  ASSUME PacedIInv, InUse, CopyNext
  PROVE  InUse' /\ [TB!Next]_(TB!bucketVars)
<1> USE DEF Copy!counts, Copy!timer, Copy!bucket, Copy!copy, Copy!others
<1>1. /\ program \in {"mycopy", "signalmycopy", "mycat"} \cup Stdio /\ UNCHANGED program
      /\ program \notin Libraries /\ program \notin Slowcats
  BY DEF CopyNext, Runs, Stdio, Libraries, Slowcats
<1>2. /\ UNCHANGED <<n, level, handler, job>> /\ pc' \notin {"start", "init"}
  BY <1>1 DEF CopyNext, Runs, Copy!mycopy, Copy!signalmycopy, Copy!mycat, Copy!mycopy_fgetc,
     Copy!mycopy_fgets, Copy!mycopy_fread, Copy!download, Copy!CopyLoop, Copy!OpenSource, Copy!Open,
     Copy!Again, Copy!Read, Copy!Write, Copy!Exit, Copy!Piece, Copy!Fail, InUse
<1>3. InUse'
  BY <1>1, <1>2 DEF InUse
<1>4. Opened' = Opened
  BY <1>1, <1>2 DEF Opened
<1> QED
  BY <1>1, <1>2, <1>3, <1>4, LeftAlone

\* Nothing that InUse and the buckets speak of changes.
LEMMA PromiseSame ==
  ASSUME InUse, UNCHANGED <<program, vars>>
  PROVE  InUse' /\ UNCHANGED TB!bucketVars
<1>1. InUse' /\ Opened' = Opened
  BY DEF vars, InUse, Opened
<1> QED
  BY <1>1, LeftAlone DEF vars

\* A step of whichever program runs is a step of its bucket, or none.
LEMMA PromiseStep ==
  ASSUME PacedIInv, InUse, PacedNext
  PROVE  InUse' /\ [TB!Next]_(TB!bucketVars)
<1> USE DEF Runs
<1>1. CASE program = "stars" /\ Mask!Next /\ UNCHANGED <<program, vars>>
  BY <1>1, PromiseSame
<1>2. CASE Runs("leaky", Slow!NextLeaky)
  BY <1>2, LeakyPromise
<1>3. CASE Runs("timer", Slow!NextTimer)
  BY <1>3, TimerPromise
<1>4. CASE Runs("token", Slow!NextToken)
  BY <1>4, TokenPromise
<1>5. CASE Runs("signal", Signal!NextSignal)
  BY <1>5, SignalPromise
<1>6. CASE Runs("sigaction", Signal!NextSigaction)
  BY <1>6, SigactionPromise
<1>7. CASE Runs("mut", Thread!NextMut) \/ Runs("mutcond", Thread!NextCond)
  BY <1>7, ThreadPromise
<1>8. CASE CopyNext
  BY <1>8, CopyPromise
<1> QED
  BY <1>1, <1>2, <1>3, <1>4, <1>5, <1>6, <1>7, <1>8 DEF PacedNext

\* Each bucket of these programs implements TokenBucket, for any rate, burst
\* and buffer: it opens empty, a fetch takes one token at least and none that
\* no tick has added or a return given back, no more than the burst is kept,
\* and the count of the code is covered by the level, wherever the handler
\* falls between the instructions of the others.
THEOREM BucketsKeepPromise == PacedSpec => KeepsPromise
<1>1. PacedInit => InUse /\ TB!Init
  <2>1. ASSUME PacedInit PROVE InUse /\ Opened = {} /\ level = 0
    BY <2>1, Sizes DEF PacedInit, Init, InUse, Opened, Copying, BeforeRead, AfterRead
  <2> QED
    BY <2>1, Sizes DEF TB!Init
<1>2. PacedIInv /\ InUse /\ [PacedNext]_allVars => InUse' /\ [TB!Next]_(TB!bucketVars)
  BY PromiseStep, PromiseSame DEF allVars
<1>3. PacedSpec => []PacedIInv
  BY PacedInvariant, PTL
<1> QED
  BY <1>1, <1>2, <1>3, NoTokenMade, PTL DEF PacedSpec, KeepsPromise, TB!Spec

=============================================================================
