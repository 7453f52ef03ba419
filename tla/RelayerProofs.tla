--------------------------- MODULE RelayerProofs ---------------------------
(***************************************************************************)
(* Proofs about the relays, for any number of descriptors, callers and     *)
(* slots, and buffers of any size: the machine they share (RelayFsm), the  *)
(* engine (Relayer) and the programs with a loop of their own (Relays).    *)
(***************************************************************************)
EXTENDS MCRelayer, SequenceTheorems, TLAPS

-----------------------------------------------------------------------------
(* The machine. *)

\* A new machine has written what it has read: nothing.
LEMMA NewFsmFaithful == NewFsm \in Fsm /\ Faithful(NewFsm)
  BY DEF NewFsm, Fsm, FsmState, Faithful

\* Writing n more bytes of the buffer continues the numbering.
LEMMA ChunkContinues ==
  ASSUME NEW f \in Fsm, Faithful(f), NEW n \in 0 .. f.len,
         NEW out, out = f.out \o Chunk(f, n)
  PROVE  /\ out \in Seq(Nat)
         /\ Len(out) = f.start + f.pos + n
         /\ \A k \in 1 .. Len(out) : out[k] = k
<1>1. /\ f.out \in Seq(Nat) /\ Len(f.out) = f.start + f.pos
      /\ f.start \in Nat /\ f.pos \in Nat /\ f.len \in Nat /\ n \in Nat
      /\ \A k \in 1 .. Len(f.out) : f.out[k] = k
  BY DEF Fsm, Faithful
<1>2. /\ Chunk(f, n) \in Seq(Nat) /\ Len(Chunk(f, n)) = n
      /\ \A k \in 1 .. n : Chunk(f, n)[k] = f.start + f.pos + k
  <2> DEFINE c == Chunk(f, n)
  <2>1. /\ DOMAIN c = 1 .. n
        /\ c \in [1 .. n -> Nat]
        /\ \A k \in 1 .. n : c[k] = f.start + f.pos + k
    BY <1>1 DEF Chunk
  <2> HIDE DEF c
  <2>2. c \in Seq(Nat) /\ Len(c) = n
    BY <2>1, <1>1
  <2> QED
    BY <2>1, <2>2 DEF c
<1>3. /\ out \in Seq(Nat) /\ Len(out) = Len(f.out) + Len(Chunk(f, n))
      /\ \A k \in 1 .. Len(f.out) + Len(Chunk(f, n)) :
           out[k] = IF k =< Len(f.out) THEN f.out[k] ELSE Chunk(f, n)[k - Len(f.out)]
  BY <1>1, <1>2, ConcatProperties
<1>4. ASSUME NEW k \in 1 .. Len(out) PROVE out[k] = k
  BY <1>1, <1>2, <1>3
<1> QED
  BY <1>1, <1>2, <1>3, <1>4

\* fsm_driver keeps a machine faithful, whatever read and write return.
LEMMA DrivenFaithful ==
  ASSUME NEW f \in Fsm, Faithful(f), NEW g \in Driven(f)
  PROVE  g \in Fsm /\ Faithful(g)
<1>1. CASE g = f
  BY <1>1
<1>2. CASE f.state = "R" /\ g \in ReadOutcomes(f)
  <2>1. CASE g = [f EXCEPT !.state = "T"] \/ g = [f EXCEPT !.state = "Ex"]
    BY <2>1 DEF Fsm, FsmState, Faithful
  <2>2. ASSUME NEW n \in 1 .. BUFSIZE,
               g = [f EXCEPT !.state = "W", !.start = f.start + f.pos, !.pos = 0, !.len = n]
        PROVE  g \in Fsm /\ Faithful(g)
    <3>1. /\ g.state = "W" /\ g.start = f.start + f.pos /\ g.pos = 0 /\ g.len = n
          /\ g.out = f.out
          /\ g \in Fsm
      <4>1. g = [state |-> "W", start |-> f.start + f.pos, pos |-> 0, len |-> n,
                 out |-> f.out]
        BY <2>2 DEF Fsm
      <4>2. /\ f.start + f.pos \in Nat /\ n \in Nat /\ f.out \in Seq(Nat)
            /\ f.start \in Nat /\ f.pos \in Nat
        BY BufferAssumption DEF Fsm
      <4> QED
        BY <4>1, <4>2 DEF Fsm, FsmState
    <3> QED
      BY <3>1 DEF Faithful, Fsm
  <2>3. \/ g = [f EXCEPT !.state = "T"] \/ g = [f EXCEPT !.state = "Ex"]
        \/ \E n \in 1 .. BUFSIZE :
             g = [f EXCEPT !.state = "W", !.start = f.start + f.pos, !.pos = 0, !.len = n]
    BY <1>2 DEF ReadOutcomes
  <2> QED
    BY <2>1, <2>2, <2>3
<1>3. CASE f.state = "W" /\ g \in WriteOutcomes(f)
  <2>1. CASE g = [f EXCEPT !.state = "Ex"]
    BY <2>1 DEF Fsm, FsmState, Faithful
  <2>2. ASSUME NEW n \in 0 .. f.len,
               g = [f EXCEPT !.state = IF n = f.len THEN "R" ELSE "W",
                             !.pos = f.pos + n, !.len = f.len - n,
                             !.out = f.out \o Chunk(f, n)]
        PROVE  g \in Fsm /\ Faithful(g)
    <3> DEFINE out == f.out \o Chunk(f, n)
    <3>1. /\ out \in Seq(Nat) /\ Len(out) = f.start + f.pos + n
          /\ \A k \in 1 .. Len(out) : out[k] = k
      BY ChunkContinues
    <3>2. /\ g.state = (IF n = f.len THEN "R" ELSE "W")
          /\ g.start = f.start /\ g.pos = f.pos + n /\ g.len = f.len - n /\ g.out = out
          /\ g \in Fsm
      <4>1. g = [state |-> IF n = f.len THEN "R" ELSE "W", start |-> f.start,
                 pos |-> f.pos + n, len |-> f.len - n, out |-> out]
        BY <2>2 DEF Fsm
      <4>2. f.start \in Nat /\ f.pos + n \in Nat /\ f.len - n \in Nat
        BY DEF Fsm
      <4> HIDE DEF out
      <4> QED
        BY <4>1, <4>2, <3>1 DEF Fsm, FsmState
    <3> HIDE DEF out
    <3> QED
      BY <3>1, <3>2 DEF Faithful, Fsm
  <2> QED
    BY <1>3, <2>1, <2>2 DEF WriteOutcomes
<1>4. CASE f.state = "Ex" /\ g = [f EXCEPT !.state = "T"]
  BY <1>4 DEF Fsm, FsmState, Faithful
<1> QED
  BY <1>1, <1>2, <1>3, <1>4 DEF Driven, Fsm, FsmState

-----------------------------------------------------------------------------
(* The engine. *)

\* What the scan does to a job changes neither whose descriptors are in use
\* nor, if the machines stay faithful, anything the invariant says of jobs.
LEMMA JobStep ==
  ASSUME IInv, i \in Slot, rel_job[i] # NoJob,
         NEW j \in Job, rel_job' = [rel_job EXCEPT ![i] = j],
         j.fds = rel_job[i].fds, Faithful(j.fsm12), Faithful(j.fsm21),
         j.state = "over" => j.fsm12.state = "T" /\ j.fsm21.state = "T",
         UNCHANGED <<nonblock, add>>
  PROVE  /\ rel_job' \in [Slot -> Job \cup {NoJob}]
         /\ rel_job'[i] = j /\ j # NoJob
         /\ BytesFaithful' /\ OverIsFinal' /\ JobsOwned' /\ FlagsExact' /\ SavedExact'
<1>1. /\ rel_job \in [Slot -> Job \cup {NoJob}]
      /\ rel_job' \in [Slot -> Job \cup {NoJob}]
      /\ rel_job'[i] = j /\ j # NoJob /\ rel_job[i] \in Job
      /\ \A s \in Slot : s # i => rel_job'[s] = rel_job[s]
  BY NullAssumption DEF IInv, TypeOK
<1>2. BytesFaithful'
  BY <1>1 DEF IInv, BytesFaithful, Jobs
<1>3. OverIsFinal'
  BY <1>1 DEF IInv, OverIsFinal, Jobs
<1>4. JobsOwned'
  BY <1>1 DEF IInv, JobsOwned, Jobs
<1>5. ASSUME NEW fd PROVE FlagsKept(fd)' <=> FlagsKept(fd)
  BY <1>1 DEF FlagsKept, InJobs, Jobs
<1>6. ASSUME NEW fd PROVE InCalls(fd)' <=> InCalls(fd)
  BY DEF InCalls, HasSet1, HasSet2
<1>7. FlagsExact'
  BY <1>5, <1>6 DEF IInv, FlagsExact
<1>8. SavedExact'
  BY <1>5 DEF IInv, SavedExact, HasSet1, HasSet2
<1> QED
  BY <1>1, <1>2, <1>3, <1>4, <1>7, <1>8

\* Steps that leave jobs, flags and calls alone.
LEMMA NothingDone ==
  ASSUME IInv, UNCHANGED <<rel_job, nonblock, add>>
  PROVE  BytesFaithful' /\ OverIsFinal' /\ JobsOwned' /\ FlagsExact' /\ SavedExact'
  BY DEF IInv, BytesFaithful, OverIsFinal, JobsOwned, FlagsExact, SavedExact, Jobs,
         FlagsKept, InJobs, InCalls, HasSet1, HasSet2

\* fsm_driver on one machine of a running job keeps the invariant.
LEMMA DriveIInv ==
  ASSUME IInv, Drive12 \/ Drive21
  PROVE  IInv'
<1>1. i \in Slot /\ Visiting /\ rel_job[i] \in Job /\ mut
  BY TableAssumption DEF IInv, TypeOK, ScanHolds, Drive12, Drive21, Slot, Visiting
<1>2. /\ rel_job[i].fsm12 \in Fsm /\ rel_job[i].fsm21 \in Fsm
      /\ Faithful(rel_job[i].fsm12) /\ Faithful(rel_job[i].fsm21)
      /\ rel_job[i].state = "running"
  BY <1>1 DEF IInv, BytesFaithful, Jobs, Visiting, Job
<1>3. CASE aborted' /\ UNCHANGED <<rel_job, mut, thr, i, nonblock, add>>
  BY <1>3, NothingDone DEF IInv, TypeOK, ScanHolds, Visiting
<1>4. ASSUME Drive12, NEW f \in Driven(rel_job[i].fsm12),
             rel_job' = [rel_job EXCEPT ![i].fsm12 = f], thr' = "drive21", aborted' = aborted
      PROVE  IInv'
  <2> DEFINE j == [rel_job[i] EXCEPT !.fsm12 = f]
  <2>1. f \in Fsm /\ Faithful(f)
    BY <1>2, DrivenFaithful
  <2>2. /\ j \in Job /\ j.fds = rel_job[i].fds /\ j.state = "running"
        /\ j.fsm12 = f /\ j.fsm21 = rel_job[i].fsm21
    BY <2>1, <1>1, <1>2 DEF Job
  <2>3. rel_job' = [rel_job EXCEPT ![i] = j]
    BY <1>4
  <2>4. UNCHANGED <<mut, i, nonblock, add>>
    BY <1>4 DEF Drive12
  <2>5. /\ rel_job' \in [Slot -> Job \cup {NoJob}] /\ rel_job'[i] = j /\ j # NoJob
        /\ BytesFaithful' /\ OverIsFinal' /\ JobsOwned' /\ FlagsExact' /\ SavedExact'
    <3> HIDE DEF j
    <3> QED
      BY <1>1, <1>2, <2>1, <2>2, <2>3, <2>4, JobStep DEF Visiting
  <2> HIDE DEF j
  <2>6. TypeOK'
    BY <1>4, <2>4, <2>5 DEF IInv, TypeOK
  <2>7. ScanHolds'
    BY <1>1, <1>4, <2>2, <2>4, <2>5 DEF IInv, ScanHolds, Visiting, Slot, Drive12
  <2> QED
    BY <2>5, <2>6, <2>7 DEF IInv
<1>5. ASSUME Drive21, NEW f \in Driven(rel_job[i].fsm21),
             rel_job' = [rel_job EXCEPT ![i].fsm21 = f], thr' = "check", aborted' = aborted
      PROVE  IInv'
  <2> DEFINE j == [rel_job[i] EXCEPT !.fsm21 = f]
  <2>1. f \in Fsm /\ Faithful(f)
    BY <1>2, DrivenFaithful
  <2>2. /\ j \in Job /\ j.fds = rel_job[i].fds /\ j.state = "running"
        /\ j.fsm12 = rel_job[i].fsm12 /\ j.fsm21 = f
    BY <2>1, <1>1, <1>2 DEF Job
  <2>3. rel_job' = [rel_job EXCEPT ![i] = j]
    BY <1>5
  <2>4. UNCHANGED <<mut, i, nonblock, add>>
    BY <1>5 DEF Drive21
  <2>5. /\ rel_job' \in [Slot -> Job \cup {NoJob}] /\ rel_job'[i] = j /\ j # NoJob
        /\ BytesFaithful' /\ OverIsFinal' /\ JobsOwned' /\ FlagsExact' /\ SavedExact'
    <3> HIDE DEF j
    <3> QED
      BY <1>1, <1>2, <2>1, <2>2, <2>3, <2>4, JobStep DEF Visiting
  <2> HIDE DEF j
  <2>6. TypeOK'
    BY <1>5, <2>4, <2>5 DEF IInv, TypeOK
  <2>7. ScanHolds'
    BY <1>1, <1>5, <2>2, <2>4, <2>5 DEF IInv, ScanHolds, Visiting, Slot, Drive21
  <2> QED
    BY <2>5, <2>6, <2>7 DEF IInv
<1> QED
  BY <1>3, <1>4, <1>5 DEF Drive12, Drive21

\* A job is over only after both of its machines are.
LEMMA CheckIInv ==
  ASSUME IInv, Check
  PROVE  IInv'
<1>1. i \in Slot /\ Visiting /\ rel_job[i] \in Job /\ mut /\ i + 1 \in 0 .. REL_JOBMAX
  BY TableAssumption DEF IInv, TypeOK, ScanHolds, Check, Slot, Visiting
<1>2. /\ thr' = "drive12" /\ i' = i + 1
      /\ UNCHANGED <<mut, nonblock, add, aborted>>
  BY DEF Check
<1>3. CASE rel_job' = rel_job
  BY <1>1, <1>2, <1>3, NothingDone DEF IInv, TypeOK, ScanHolds
<1>4. CASE /\ rel_job[i].fsm12.state = "T" /\ rel_job[i].fsm21.state = "T"
           /\ rel_job' = [rel_job EXCEPT ![i].state = "over"]
  <2> DEFINE j == [rel_job[i] EXCEPT !.state = "over"]
  <2>1. /\ j \in Job /\ j.fds = rel_job[i].fds /\ j.state = "over"
        /\ j.fsm12 = rel_job[i].fsm12 /\ j.fsm21 = rel_job[i].fsm21
    BY <1>1 DEF Job
  <2>2. Faithful(j.fsm12) /\ Faithful(j.fsm21)
    BY <1>1, <2>1 DEF IInv, BytesFaithful, Jobs, Visiting
  <2>3. rel_job' = [rel_job EXCEPT ![i] = j]
    BY <1>4
  <2>4. /\ rel_job' \in [Slot -> Job \cup {NoJob}]
        /\ BytesFaithful' /\ OverIsFinal' /\ JobsOwned' /\ FlagsExact' /\ SavedExact'
    <3> HIDE DEF j
    <3> QED
      BY <1>1, <1>2, <1>4, <2>1, <2>2, <2>3, JobStep DEF Visiting
  <2>5. TypeOK' /\ ScanHolds'
    BY <1>1, <1>2, <2>4 DEF IInv, TypeOK, ScanHolds
  <2> QED
    BY <2>4, <2>5 DEF IInv
<1> QED
  BY <1>3, <1>4 DEF Check

\* A step of thr_relayer's scan keeps the invariant.
LEMMA ScanIInv ==
  ASSUME IInv, ScanLock \/ ScanSkip \/ ScanUnlock \/ UNCHANGED vars
  PROVE  IInv'
<1>1. UNCHANGED <<rel_job, nonblock, add>>
  BY DEF ScanLock, ScanSkip, ScanUnlock, vars
<1>2. TypeOK'
  <2>1. /\ mut' \in BOOLEAN /\ aborted' \in BOOLEAN /\ i' \in 0 .. REL_JOBMAX
        /\ thr' \in {"none", "failed", "lock", "drive12", "drive21", "check"}
    <3>1. CASE ScanLock
      BY <3>1, TableAssumption DEF IInv, TypeOK, ScanLock
    <3>2. CASE ScanSkip
      BY <3>2, TableAssumption DEF IInv, TypeOK, ScanSkip
    <3>3. CASE ScanUnlock
      BY <3>3 DEF IInv, TypeOK, ScanUnlock
    <3>4. CASE UNCHANGED vars
      BY <3>4 DEF IInv, TypeOK, vars
    <3> QED
      BY <3>1, <3>2, <3>3, <3>4
  <2> QED
    BY <1>1, <2>1 DEF IInv, TypeOK
<1>3. ScanHolds'
  BY DEF IInv, TypeOK, ScanHolds, Visiting, ScanLock, ScanSkip, ScanUnlock, vars
<1> QED
  BY <1>1, <1>2, <1>3, NothingDone DEF IInv

\* What a call does to its own record, when it stays with its descriptors.
LEMMA CallStep ==
  ASSUME IInv, NEW a \in Adder, NEW c \in Call,
         add' = [add EXCEPT ![a] = c],
         c.at # "idle" => c.fds \in Pairs[a],
         nonblock' \subseteq Fd,
         rel_job' \in [Slot -> Job \cup {NoJob}],
         thr' \in {"none", "failed", "lock", "drive12", "drive21", "check"},
         UNCHANGED <<mut, i, aborted>>
  PROVE  /\ TypeOK'
         /\ add'[a] = c /\ \A b \in Adder : b # a => add'[b] = add[b]
  BY DEF IInv, TypeOK

\* The two descriptors of a call differ, and no other call uses them.
LEMMA OwnDescriptors ==
  ASSUME IInv, NEW a \in Adder, add[a].at # "idle"
  PROVE  /\ add[a].fds \in Pairs[a] /\ add[a].fds \in Fd \X Fd
         /\ add[a].fds[1] \in Fd /\ add[a].fds[2] \in Fd
         /\ add[a].fds[1] # add[a].fds[2]
         /\ \A b \in Adder : b # a /\ add[b].at # "idle" =>
              {add[a].fds[1], add[a].fds[2]} \cap {add[b].fds[1], add[b].fds[2]} = {}
  BY PairsAssumption, OwnAssumption DEF IInv, TypeOK

\* The descriptors call c has set O_NONBLOCK on and not restored; those of the
\* calls other than a's.
CallSets(c, fd) ==
  \/ c.at \in {"flag2", "insert", "restore1"} /\ fd = c.fds[1]
  \/ c.at \in {"insert", "restore1", "restore2"} /\ fd = c.fds[2]
OthersSet(a, fd) == \E b \in Adder \ {a} : CallSets(add[b], fd)

\* A flag set by a call was set by this one or by another.
LEMMA CallsSplit ==
  ASSUME NEW a \in Adder, NEW fd
  PROVE  InCalls(fd) <=> OthersSet(a, fd) \/ CallSets(add[a], fd)
  BY DEF InCalls, OthersSet, CallSets, HasSet1, HasSet2

\* No other call has set a flag of this call's descriptors.
LEMMA OthersApart ==
  ASSUME IInv, NEW a \in Adder, add[a].at # "idle"
  PROVE  ~OthersSet(a, add[a].fds[1]) /\ ~OthersSet(a, add[a].fds[2])
  BY OwnDescriptors DEF OthersSet, CallSets

\* A step of call a that does not touch the table keeps the invariant if the
\* flags are then those of the jobs and the calls, and what a has saved tells
\* whether it was set before.
LEMMA CallIInv ==
  ASSUME IInv, NEW a \in Adder, NEW c \in Call,
         add' = [add EXCEPT ![a] = c],
         c.at # "idle" => c.fds \in Pairs[a],
         nonblock' \subseteq Fd,
         \A fd \in Fd : fd \in nonblock' <=>
           FlagsKept(fd) \/ OthersSet(a, fd) \/ CallSets(c, fd),
         c.at \in {"flag2", "insert", "restore1"} => (c.save1 <=> FlagsKept(c.fds[1])),
         c.at \in {"insert", "restore1", "restore2"} => (c.save2 <=> FlagsKept(c.fds[2])),
         UNCHANGED <<rel_job, mut, i, aborted>>,
         thr' = thr \/ (thr = "none" /\ thr' = "lock")
  PROVE  IInv'
<1>1. TypeOK' /\ add'[a] = c /\ \A b \in Adder : b # a => add'[b] = add[b]
  BY CallStep DEF IInv, TypeOK
<1>2. ScanHolds'
  BY DEF IInv, ScanHolds, Visiting
<1>3. BytesFaithful' /\ OverIsFinal' /\ JobsOwned'
  BY DEF IInv, BytesFaithful, OverIsFinal, JobsOwned, Jobs
<1>4. ASSUME NEW fd PROVE FlagsKept(fd)' <=> FlagsKept(fd)
  BY DEF FlagsKept, InJobs, Jobs
<1>5. ASSUME NEW fd PROVE InCalls(fd)' <=> OthersSet(a, fd) \/ CallSets(c, fd)
  BY <1>1 DEF InCalls, HasSet1, HasSet2, OthersSet, CallSets
<1>6. FlagsExact'
  BY <1>4, <1>5 DEF FlagsExact
<1>7. SavedExact'
  <2>1. ASSUME NEW b \in Adder
        PROVE  /\ HasSet1(b)' => (add'[b].save1 <=> FlagsKept(add'[b].fds[1]))
               /\ HasSet2(b)' => (add'[b].save2 <=> FlagsKept(add'[b].fds[2]))
    <3>1. CASE b = a
      BY <1>1, <3>1 DEF HasSet1, HasSet2
    <3>2. CASE b # a
      BY <1>1, <3>2 DEF IInv, SavedExact, HasSet1, HasSet2
    <3> QED
      BY <3>1, <3>2
  <2> QED
    BY <2>1, <1>4 DEF SavedExact
<1> QED
  BY <1>1, <1>2, <1>3, <1>6, <1>7 DEF IInv

\* Before it sets a flag, a call finds it set only if the descriptor was opened
\* with it or a job uses it.
LEMMA FlagsBefore ==
  ASSUME IInv, NEW a \in Adder
  PROVE  \A fd \in Fd : fd \in nonblock <=>
           FlagsKept(fd) \/ OthersSet(a, fd) \/ CallSets(add[a], fd)
  BY CallsSplit DEF IInv, FlagsExact

\* rel_addjob is called with two descriptors nobody else has.
LEMMA AddCallIInv ==
  ASSUME IInv, NEW a \in Adder, AddCall(a)
  PROVE  IInv'
<1>1. CASE UNCHANGED add
  BY <1>1, NothingDone DEF IInv, TypeOK, ScanHolds, Visiting, AddCall
<1>2. ASSUME NEW p \in Pairs[a], add' = [add EXCEPT ![a].at = "flag1", ![a].fds = p]
      PROVE  IInv'
  <2> DEFINE c == [add[a] EXCEPT !.at = "flag1", !.fds = p]
  <2>1. add[a] \in Call /\ p \in Fd \X Fd
    BY PairsAssumption DEF IInv, TypeOK
  <2>2. c \in Call /\ c.at = "flag1" /\ c.fds = p
    BY <2>1 DEF Call
  <2>3. add' = [add EXCEPT ![a] = c]
    BY <1>2 DEF IInv, TypeOK, Call
  <2>4. add[a].at = "idle" /\ UNCHANGED <<rel_job, mut, i, nonblock, aborted>>
        /\ (thr' = thr \/ (thr = "none" /\ thr' = "lock"))
    BY DEF AddCall
  <2>5. \A fd : CallSets(c, fd) <=> CallSets(add[a], fd)
    BY <2>2, <2>4 DEF CallSets
  <2>6. nonblock' \subseteq Fd
    BY <2>4 DEF IInv, TypeOK
  <2> HIDE DEF c
  <2> QED
    BY <2>2, <2>3, <2>4, <2>5, <2>6, FlagsBefore, CallIInv
<1> QED
  BY <1>1, <1>2 DEF AddCall

\* The thread cannot be created: nothing has been touched.
LEMMA AddNoThreadIInv ==
  ASSUME IInv, NEW a \in Adder, AddNoThread(a)
  PROVE  IInv'
<1>1. UNCHANGED <<rel_job, mut, i, nonblock, add, aborted>> /\ thr = "none" /\ thr' = "failed"
  BY DEF AddNoThread
<1> QED
  BY <1>1, NothingDone DEF IInv, TypeOK, ScanHolds, Visiting

\* rel_addjob saves the flags of its first descriptor and sets O_NONBLOCK.
LEMMA AddFlag1IInv ==
  ASSUME IInv, NEW a \in Adder, AddFlag1(a)
  PROVE  IInv'
<1> DEFINE fd1 == add[a].fds[1]
<1>1. add[a] \in Call /\ add[a].at = "flag1"
  BY DEF IInv, TypeOK, AddFlag1
<1>2. \E c : /\ add' = [add EXCEPT ![a] = c]
            /\ c \in Call /\ c.at = "flag2" /\ c.fds = add[a].fds
            /\ c.save2 = add[a].save2 /\ (c.save1 <=> fd1 \in nonblock)
  <2>1. CASE fd1 \in nonblock
    <3> DEFINE c == [add[a] EXCEPT !.at = "flag2", !.save1 = TRUE]
    <3>1. (fd1 \in nonblock) = TRUE
      BY <2>1
    <3>2. add' = [add EXCEPT ![a] = c]
      BY <3>1, Zenon DEF AddFlag1
    <3>3. /\ c \in Call /\ c.at = "flag2" /\ c.fds = add[a].fds
          /\ c.save2 = add[a].save2 /\ c.save1 = TRUE
      BY <1>1 DEF Call
    <3> HIDE DEF c
    <3> QED
      BY <2>1, <3>2, <3>3
  <2>2. CASE fd1 \notin nonblock
    <3> DEFINE c == [add[a] EXCEPT !.at = "flag2", !.save1 = FALSE]
    <3>1. (fd1 \in nonblock) = FALSE
      BY <2>2
    <3>2. add' = [add EXCEPT ![a] = c]
      BY <3>1, Zenon DEF AddFlag1
    <3>3. /\ c \in Call /\ c.at = "flag2" /\ c.fds = add[a].fds
          /\ c.save2 = add[a].save2 /\ c.save1 = FALSE
      BY <1>1 DEF Call
    <3> HIDE DEF c
    <3> QED
      BY <2>2, <3>2, <3>3
  <2> QED
    BY <2>1, <2>2
<1>3. PICK c : /\ add' = [add EXCEPT ![a] = c]
              /\ c \in Call /\ c.at = "flag2" /\ c.fds = add[a].fds
              /\ c.save2 = add[a].save2 /\ (c.save1 <=> fd1 \in nonblock)
  BY <1>2
<1>4. nonblock' = nonblock \cup {fd1} /\ UNCHANGED <<rel_job, mut, thr, i, aborted>>
  <2>1. SetFlag(fd1, TRUE) /\ UNCHANGED <<rel_job, mut, thr, i, aborted>>
    BY Zenon DEF AddFlag1
  <2> QED
    BY <2>1 DEF SetFlag
<1>5. /\ add[a].fds \in Pairs[a] /\ fd1 \in Fd
      /\ ~OthersSet(a, fd1) /\ ~CallSets(add[a], fd1)
  BY <1>1, OwnDescriptors, OthersApart DEF CallSets
<1>6. c.save1 <=> FlagsKept(fd1)
  BY <1>3, <1>5, FlagsBefore
<1>7. \A fd : CallSets(c, fd) <=> CallSets(add[a], fd) \/ fd = fd1
  BY <1>1, <1>3 DEF CallSets
<1>8. nonblock' \subseteq Fd
  BY <1>4, <1>5 DEF IInv, TypeOK
<1>9. \A fd \in Fd : fd \in nonblock' <=> FlagsKept(fd) \/ OthersSet(a, fd) \/ CallSets(c, fd)
  BY <1>4, <1>7, FlagsBefore
<1> QED
  BY <1>1, <1>3, <1>4, <1>5, <1>6, <1>8, <1>9, CallIInv

\* The same for its second descriptor.
LEMMA AddFlag2IInv ==
  ASSUME IInv, NEW a \in Adder, AddFlag2(a)
  PROVE  IInv'
<1> DEFINE fd2 == add[a].fds[2]
<1>1. add[a] \in Call /\ add[a].at = "flag2"
  BY DEF IInv, TypeOK, AddFlag2
<1>2. \E c : /\ add' = [add EXCEPT ![a] = c]
            /\ c \in Call /\ c.at = "insert" /\ c.fds = add[a].fds
            /\ c.save1 = add[a].save1 /\ (c.save2 <=> fd2 \in nonblock)
  <2>1. CASE fd2 \in nonblock
    <3> DEFINE c == [add[a] EXCEPT !.at = "insert", !.save2 = TRUE]
    <3>1. (fd2 \in nonblock) = TRUE
      BY <2>1
    <3>2. add' = [add EXCEPT ![a] = c]
      BY <3>1, Zenon DEF AddFlag2
    <3>3. /\ c \in Call /\ c.at = "insert" /\ c.fds = add[a].fds
          /\ c.save1 = add[a].save1 /\ c.save2 = TRUE
      BY <1>1 DEF Call
    <3> HIDE DEF c
    <3> QED
      BY <2>1, <3>2, <3>3
  <2>2. CASE fd2 \notin nonblock
    <3> DEFINE c == [add[a] EXCEPT !.at = "insert", !.save2 = FALSE]
    <3>1. (fd2 \in nonblock) = FALSE
      BY <2>2
    <3>2. add' = [add EXCEPT ![a] = c]
      BY <3>1, Zenon DEF AddFlag2
    <3>3. /\ c \in Call /\ c.at = "insert" /\ c.fds = add[a].fds
          /\ c.save1 = add[a].save1 /\ c.save2 = FALSE
      BY <1>1 DEF Call
    <3> HIDE DEF c
    <3> QED
      BY <2>2, <3>2, <3>3
  <2> QED
    BY <2>1, <2>2
<1>3. PICK c : /\ add' = [add EXCEPT ![a] = c]
              /\ c \in Call /\ c.at = "insert" /\ c.fds = add[a].fds
              /\ c.save1 = add[a].save1 /\ (c.save2 <=> fd2 \in nonblock)
  BY <1>2
<1>4. nonblock' = nonblock \cup {fd2} /\ UNCHANGED <<rel_job, mut, thr, i, aborted>>
  <2>1. SetFlag(fd2, TRUE) /\ UNCHANGED <<rel_job, mut, thr, i, aborted>>
    BY Zenon DEF AddFlag2
  <2> QED
    BY <2>1 DEF SetFlag
<1>5. /\ add[a].fds \in Pairs[a] /\ fd2 \in Fd
      /\ ~OthersSet(a, fd2) /\ ~CallSets(add[a], fd2)
  BY <1>1, OwnDescriptors, OthersApart DEF CallSets
<1>6. c.save2 <=> FlagsKept(fd2)
  BY <1>3, <1>5, FlagsBefore
<1>7. \A fd : CallSets(c, fd) <=> CallSets(add[a], fd) \/ fd = fd2
  BY <1>1, <1>3 DEF CallSets
<1>8. nonblock' \subseteq Fd
  BY <1>4, <1>5 DEF IInv, TypeOK
<1>9. \A fd \in Fd : fd \in nonblock' <=> FlagsKept(fd) \/ OthersSet(a, fd) \/ CallSets(c, fd)
  BY <1>4, <1>7, FlagsBefore
<1>10. c.save1 <=> FlagsKept(c.fds[1])
  BY <1>1, <1>3 DEF IInv, SavedExact, HasSet1
<1> QED
  BY <1>1, <1>3, <1>4, <1>5, <1>6, <1>8, <1>9, <1>10, CallIInv

\* The table is full: the call goes on to restore what it has changed.
LEMMA AddFullIInv ==
  ASSUME IInv, NEW a \in Adder, AddFull(a)
  PROVE  IInv'
<1> DEFINE c == [add[a] EXCEPT !.at = "restore1"]
<1>1. add[a] \in Call /\ add[a].at = "insert"
  BY DEF IInv, TypeOK, AddFull
<1>2. /\ c \in Call /\ c.at = "restore1" /\ c.fds = add[a].fds
      /\ c.save1 = add[a].save1 /\ c.save2 = add[a].save2
  BY <1>1 DEF Call
<1>3. add' = [add EXCEPT ![a] = c]
  BY DEF AddFull
<1>4. UNCHANGED <<rel_job, mut, thr, i, nonblock, aborted>>
  BY DEF AddFull
<1>5. add[a].fds \in Pairs[a] /\ nonblock' \subseteq Fd
  BY <1>1, <1>4, OwnDescriptors DEF IInv, TypeOK
<1>6. \A fd : CallSets(c, fd) <=> CallSets(add[a], fd)
  BY <1>1, <1>2 DEF CallSets
<1>7. \A fd \in Fd : fd \in nonblock' <=> FlagsKept(fd) \/ OthersSet(a, fd) \/ CallSets(c, fd)
  BY <1>4, <1>6, FlagsBefore
<1>8. (c.save1 <=> FlagsKept(c.fds[1])) /\ (c.save2 <=> FlagsKept(c.fds[2]))
  BY <1>1, <1>2 DEF IInv, SavedExact, HasSet1, HasSet2
<1> HIDE DEF c
<1> QED
  BY <1>1, <1>2, <1>3, <1>4, <1>5, <1>7, <1>8, CallIInv

\* The table is full: the first descriptor gets its flags back.
LEMMA AddRestore1IInv ==
  ASSUME IInv, NEW a \in Adder, AddRestore1(a)
  PROVE  IInv'
<1> DEFINE fd1 == add[a].fds[1]
<1> DEFINE c == [add[a] EXCEPT !.at = "restore2"]
<1>1. add[a] \in Call /\ add[a].at = "restore1"
  BY DEF IInv, TypeOK, AddRestore1
<1>2. /\ c \in Call /\ c.at = "restore2" /\ c.fds = add[a].fds
      /\ c.save2 = add[a].save2
  BY <1>1 DEF Call
<1>3. add' = [add EXCEPT ![a] = c]
  BY DEF AddRestore1
<1>4. UNCHANGED <<rel_job, mut, thr, i, aborted>>
  BY DEF AddRestore1
<1>5. (add[a].save1 <=> FlagsKept(fd1)) /\ (c.save2 <=> FlagsKept(c.fds[2]))
  BY <1>1, <1>2 DEF IInv, SavedExact, HasSet1, HasSet2
<1>6. nonblock' = IF FlagsKept(fd1) THEN nonblock \cup {fd1} ELSE nonblock \ {fd1}
  BY <1>5 DEF AddRestore1, SetFlag
<1>7. /\ add[a].fds \in Pairs[a] /\ fd1 \in Fd /\ add[a].fds[2] # fd1
      /\ ~OthersSet(a, fd1)
  BY <1>1, OwnDescriptors, OthersApart
<1>8. \A fd : CallSets(c, fd) <=> CallSets(add[a], fd) /\ fd # fd1
  BY <1>1, <1>2, <1>7 DEF CallSets
<1>9. nonblock' \subseteq Fd
  BY <1>6, <1>7 DEF IInv, TypeOK
<1>10. \A fd \in Fd : fd \in nonblock' <=> FlagsKept(fd) \/ OthersSet(a, fd) \/ CallSets(c, fd)
  BY <1>6, <1>7, <1>8, FlagsBefore
<1> HIDE DEF c
<1> QED
  BY <1>1, <1>2, <1>3, <1>4, <1>5, <1>7, <1>9, <1>10, CallIInv

\* The same for the second, and the call returns.
LEMMA AddRestore2IInv ==
  ASSUME IInv, NEW a \in Adder, AddRestore2(a)
  PROVE  IInv'
<1> DEFINE fd2 == add[a].fds[2]
<1> DEFINE c == [add[a] EXCEPT !.at = "idle"]
<1>1. add[a] \in Call /\ add[a].at = "restore2"
  BY DEF IInv, TypeOK, AddRestore2
<1>2. c \in Call /\ c.at = "idle"
  BY <1>1 DEF Call
<1>3. add' = [add EXCEPT ![a] = c]
  BY DEF AddRestore2
<1>4. UNCHANGED <<rel_job, mut, thr, i, aborted>>
  BY DEF AddRestore2
<1>5. add[a].save2 <=> FlagsKept(fd2)
  BY <1>1 DEF IInv, SavedExact, HasSet2
<1>6. nonblock' = IF FlagsKept(fd2) THEN nonblock \cup {fd2} ELSE nonblock \ {fd2}
  BY <1>5 DEF AddRestore2, SetFlag
<1>7. fd2 \in Fd /\ ~OthersSet(a, fd2)
  BY <1>1, OwnDescriptors, OthersApart
<1>8. \A fd : ~CallSets(c, fd) /\ (CallSets(add[a], fd) <=> fd = fd2)
  BY <1>1, <1>2 DEF CallSets
<1>9. nonblock' \subseteq Fd
  BY <1>6, <1>7 DEF IInv, TypeOK
<1>10. \A fd \in Fd : fd \in nonblock' <=> FlagsKept(fd) \/ OthersSet(a, fd) \/ CallSets(c, fd)
  BY <1>6, <1>7, <1>8, FlagsBefore
<1> HIDE DEF c
<1> QED
  BY <1>2, <1>3, <1>4, <1>9, <1>10, CallIInv

\* A free slot: the descriptors pass from the call to the job.
LEMMA AddInsertIInv ==
  ASSUME IInv, NEW a \in Adder, AddInsert(a)
  PROVE  IInv'
<1> DEFINE j == [fds |-> add[a].fds, state |-> "running", fsm12 |-> NewFsm, fsm21 |-> NewFsm]
<1> DEFINE c == [add[a] EXCEPT !.at = "idle"]
<1> DEFINE mine == {add[a].fds[1], add[a].fds[2]}
<1>1. add[a] \in Call /\ add[a].at = "insert" /\ ~mut
  BY DEF IInv, TypeOK, AddInsert
<1>2. PICK s \in Slot : rel_job[s] = NoJob /\ rel_job' = [rel_job EXCEPT ![s] = j]
  BY DEF AddInsert
<1>3. add' = [add EXCEPT ![a] = c] /\ UNCHANGED <<mut, thr, i, nonblock, aborted>>
  BY DEF AddInsert
<1>4. add[a].fds \in Pairs[a] /\ add[a].fds \in Fd \X Fd
  BY <1>1, OwnDescriptors
<1>5. /\ j \in Job /\ j # NoJob /\ j.fds = add[a].fds /\ j.state = "running"
      /\ Faithful(j.fsm12) /\ Faithful(j.fsm21)
  BY <1>4, NewFsmFaithful, NullAssumption DEF Job
<1>6. c \in Call /\ c.at = "idle"
  BY <1>1 DEF Call
<1> HIDE DEF j, c
<1>7. /\ rel_job \in [Slot -> Job \cup {NoJob}] /\ rel_job' \in [Slot -> Job \cup {NoJob}]
      /\ rel_job'[s] = j /\ \A r \in Slot : r # s => rel_job'[r] = rel_job[r]
  BY <1>2, <1>5 DEF IInv, TypeOK
<1>8. TypeOK' /\ add'[a] = c /\ \A b \in Adder : b # a => add'[b] = add[b]
  BY <1>3, <1>6, <1>7, CallStep DEF IInv, TypeOK
<1>9. ScanHolds'
  BY <1>1, <1>3 DEF IInv, ScanHolds
<1>10. /\ j \in Jobs' /\ \A k \in Jobs' : k = j \/ k \in Jobs
       /\ \A k \in Jobs : k \in Jobs'
  BY <1>2, <1>5, <1>7 DEF Jobs
<1>11. BytesFaithful' /\ OverIsFinal'
  BY <1>5, <1>10 DEF IInv, BytesFaithful, OverIsFinal
<1>12. JobsOwned'
  BY <1>4, <1>5, <1>10 DEF IInv, JobsOwned
<1>13. ASSUME NEW fd PROVE FlagsKept(fd)' <=> FlagsKept(fd) \/ fd \in mine
  BY <1>5, <1>10 DEF FlagsKept, InJobs
<1>14. ASSUME NEW fd
       PROVE  /\ CallSets(add[a], fd) <=> fd \in mine
              /\ InCalls(fd)' <=> OthersSet(a, fd)
  BY <1>1, <1>6, <1>8 DEF CallSets, OthersSet, InCalls, HasSet1, HasSet2
<1>15. FlagsExact'
  BY <1>3, <1>13, <1>14, FlagsBefore DEF FlagsExact
<1>16. SavedExact'
  <2>1. ASSUME NEW b \in Adder, b # a, add[b].at # "idle"
        PROVE  ~(add[b].fds[1] \in mine) /\ ~(add[b].fds[2] \in mine)
    BY <1>1, <2>1, OwnDescriptors
  <2>2. ASSUME NEW b \in Adder
        PROVE  /\ HasSet1(b)' => (add'[b].save1 <=>
                                    FlagsKept(add'[b].fds[1]) \/ add'[b].fds[1] \in mine)
               /\ HasSet2(b)' => (add'[b].save2 <=>
                                    FlagsKept(add'[b].fds[2]) \/ add'[b].fds[2] \in mine)
    <3>1. CASE b = a
      BY <1>6, <1>8, <3>1 DEF HasSet1, HasSet2
    <3>2. CASE b # a
      <4>1. /\ HasSet1(b) => (add[b].save1 <=> FlagsKept(add[b].fds[1]))
            /\ HasSet2(b) => (add[b].save2 <=> FlagsKept(add[b].fds[2]))
        BY DEF IInv, SavedExact
      <4>2. /\ HasSet1(b)' <=> HasSet1(b)
            /\ HasSet2(b)' <=> HasSet2(b)
            /\ add'[b] = add[b]
        BY <1>8, <3>2 DEF HasSet1, HasSet2
      <4>3. (HasSet1(b) \/ HasSet2(b)) => add[b].at # "idle"
        BY DEF HasSet1, HasSet2
      <4> HIDE DEF mine
      <4> QED
        BY <2>1, <3>2, <4>1, <4>2, <4>3
    <3> QED
      BY <3>1, <3>2
  <2> HIDE DEF mine
  <2> QED
    BY <1>13, <2>2 DEF SavedExact
<1> QED
  BY <1>8, <1>9, <1>11, <1>12, <1>15, <1>16 DEF IInv

\* The table starts empty, no call is under way.
LEMMA InitIInv == Init => IInv
<1> SUFFICES ASSUME Init PROVE IInv
  OBVIOUS
<1>1. TypeOK
  <2>1. add \in [Adder -> Call] /\ \A a \in Adder : add[a].at = "idle"
    <3> DEFINE c == [at |-> "idle", fds |-> <<>>, save1 |-> FALSE, save2 |-> FALSE]
    <3>1. c \in Call /\ c.at = "idle"
      BY DEF Call
    <3>2. add = [a \in Adder |-> c]
      BY DEF Init
    <3> HIDE DEF c
    <3> QED
      BY <3>1, <3>2
  <2>2. rel_job \in [Slot -> Job \cup {NoJob}]
    BY DEF Init
  <2>3. mut \in BOOLEAN /\ aborted \in BOOLEAN /\ thr = "none" /\ nonblock \subseteq Fd
    BY OpenedAssumption DEF Init
  <2>4. i \in 0 .. REL_JOBMAX
    BY TableAssumption DEF Init
  <2> QED
    BY <2>1, <2>2, <2>3, <2>4 DEF TypeOK
<1>2. Jobs = {}
  BY DEF Init, Jobs
<1>3. \A a \in Adder : add[a].at = "idle"
  BY DEF Init
<1>4. nonblock = Opened /\ ~mut /\ thr = "none"
  BY DEF Init
<1> QED
  BY <1>1, <1>2, <1>3, <1>4 DEF IInv, ScanHolds, BytesFaithful, OverIsFinal, JobsOwned,
     FlagsExact, SavedExact, FlagsKept, InJobs, InCalls, HasSet1, HasSet2

\* Every step of the engine keeps its invariant.
LEMMA NextIInv ==
  ASSUME IInv, [Next]_vars
  PROVE  IInv'
<1>1. ASSUME NEW a \in Adder, Add(a) PROVE IInv'
  BY <1>1, AddCallIInv, AddNoThreadIInv, AddFlag1IInv, AddFlag2IInv, AddInsertIInv, AddFullIInv,
     AddRestore1IInv, AddRestore2IInv DEF Add
<1>2. CASE Scan
  BY <1>2, ScanIInv, DriveIInv, CheckIInv DEF Scan
<1>3. CASE Ended \/ UNCHANGED vars
  BY <1>3, ScanIInv DEF Ended
<1> QED
  BY <1>1, <1>2, <1>3 DEF Next

\* What the invariant says of the flags in the words of the properties.
LEMMA FlagsFromIInv == IInv => FlagsRestored /\ NeverBlocks
<1> SUFFICES ASSUME IInv PROVE FlagsRestored /\ NeverBlocks
  OBVIOUS
<1>1. FlagsRestored
  BY DEF IInv, TypeOK, FlagsExact, FlagsRestored, FlagsKept, InJobs, InCalls, HasSet1, HasSet2
<1>2. \A j \in Jobs : j.fds \in Fd \X Fd
  BY DEF IInv, TypeOK, Jobs, Job
<1>3. NeverBlocks
  BY <1>2 DEF IInv, FlagsExact, NeverBlocks, FlagsKept, InJobs
<1> QED
  BY <1>1, <1>3

-----------------------------------------------------------------------------
(* The programs with a loop of their own. *)

\* Each file's copy of fsm_driver is the same machine.
LEMMA SameMachine ==
  /\ Loops!Fsm = Fsm /\ Loops!NewFsm = NewFsm
  /\ \A f : /\ Loops!Faithful(f) <=> Faithful(f)
            /\ Loops!Aborts(f) <=> Aborts(f)
            /\ Loops!Driven(f) = Driven(f)
<1>1. Loops!Fsm = Fsm /\ Loops!NewFsm = NewFsm
  BY DEF Loops!Fsm, Fsm, Loops!FsmState, FsmState, Loops!NewFsm, NewFsm
<1>2. ASSUME NEW f PROVE Loops!Faithful(f) <=> Faithful(f)
  BY DEF Loops!Faithful, Faithful
<1>3. ASSUME NEW f PROVE Loops!Aborts(f) <=> Aborts(f)
  BY DEF Loops!Aborts, Aborts
<1>4. ASSUME NEW f PROVE Loops!Driven(f) = Driven(f)
  <2>1. Loops!ReadOutcomes(f) = ReadOutcomes(f)
    BY DEF Loops!ReadOutcomes, ReadOutcomes
  <2>2. \A n : Loops!Chunk(f, n) = Chunk(f, n)
    BY DEF Loops!Chunk, Chunk
  <2>3. Loops!WriteOutcomes(f) = WriteOutcomes(f)
    BY <2>2 DEF Loops!WriteOutcomes, WriteOutcomes
  <2> QED
    BY <2>1, <2>3 DEF Loops!Driven, Driven
<1> QED
  BY <1>1, <1>2, <1>3, <1>4

LoopsMachines == /\ fsm12 \in Fsm /\ Faithful(fsm12)
                 /\ fsm21 \in Fsm /\ Faithful(fsm21)

\* A machine of a loop that fsm_driver drives stays faithful.
LEMMA MachinesFaithful ==
  ASSUME LoopsMachines,
         fsm12' = fsm12 \/ fsm12' \in Loops!Driven(fsm12),
         fsm21' = fsm21 \/ fsm21' \in Loops!Driven(fsm21)
  PROVE  LoopsMachines'
<1>1. fsm12' \in Fsm /\ Faithful(fsm12')
  BY DrivenFaithful, SameMachine DEF LoopsMachines
<1>2. fsm21' \in Fsm /\ Faithful(fsm21')
  BY DrivenFaithful, SameMachine DEF LoopsMachines
<1> QED
  BY <1>1, <1>2 DEF LoopsMachines, Faithful

\* What a machine waits for is an event of its own descriptors, one when it
\* reads or writes and none when it goes on by itself.
LEMMA OwnNeeds ==
  ASSUME fsm12 \in Fsm, fsm21 \in Fsm
  PROVE  /\ Loops!Needs12 \in {{}, {<<"fd1", "in">>}, {<<"fd2", "out">>}}
         /\ Loops!Needs21 \in {{}, {<<"fd2", "in">>}, {<<"fd1", "out">>}}
         /\ Loops!Auto(fsm12) <=> Loops!Needs12 = {}
         /\ Loops!Auto(fsm21) <=> Loops!Needs21 = {}
  BY DEF Fsm, FsmState, Loops!Needs12, Loops!Needs21, Loops!Needs, Loops!Auto


\* The invariant after a step that leaves the machines and the flags alone.
LEMMA SameMachines ==
  ASSUME Loops!IInv, UNCHANGED <<loop, fsm12, fsm21, flags, saved>>,
         at' \in {"loop", "sleep", "drive12", "drive21", "failed", "aborted"},
         at \in {"loop", "sleep", "drive12", "drive21"} \/ at' \in {"failed", "aborted"},
         Loops!AskedFor', Loops!ReportedFor'
  PROVE  Loops!IInv'
<1>1. Loops!TypeOK'
  BY DEF Loops!IInv, Loops!TypeOK
<1>2. Loops!LoopFaithful'
  BY DEF Loops!IInv, Loops!LoopFaithful, Loops!Faithful
<1>3. Loops!LoopRestored' /\ Loops!LoopOver' /\ Loops!FlagsOnWay'
  BY DEF Loops!IInv, Loops!LoopRestored, Loops!LoopOver, Loops!FlagsOnWay
<1> QED
  BY <1>1, <1>2, <1>3 DEF Loops!IInv

\* A loop asks, waits, sets or restores flags: its machines stay as they are.
LEMMA AroundLoop ==
  ASSUME Loops!IInv,
         \/ Loops!main_busy \/ Loops!main_select \/ Loops!main_poll \/ Loops!main_epoll
         \/ Loops!Flags \/ Loops!Restore \/ UNCHANGED loops
  PROVE  Loops!IInv'
<1>1. UNCHANGED <<loop, fsm12, fsm21>>
  BY DEF loops, Loops!main_busy, Loops!main_select, Loops!main_poll, Loops!main_epoll,
         Loops!Open, Loops!Flags, Loops!Restore, Loops!machines
<1>2. Loops!TypeOK'
  BY <1>1 DEF Loops!IInv, Loops!TypeOK, loops, Loops!main_busy, Loops!main_select,
     Loops!main_poll, Loops!main_epoll, Loops!Open, Loops!Flags, Loops!Restore
<1>3. Loops!LoopFaithful'
  BY <1>1 DEF Loops!IInv, Loops!LoopFaithful, Loops!Faithful
<1>4. Loops!LoopRestored' /\ Loops!LoopOver' /\ Loops!FlagsOnWay'
  BY <1>1 DEF Loops!IInv, Loops!LoopRestored, Loops!LoopOver, Loops!FlagsOnWay, loops,
     Loops!main_busy, Loops!main_select, Loops!main_poll, Loops!main_epoll, Loops!Open,
     Loops!Flags, Loops!Restore, Loops!Both
<1>5. UNCHANGED loops \/ at' \in {"flags", "failed", "loop", "ended"}
  BY DEF Loops!main_busy, Loops!main_select, Loops!main_poll, Loops!main_epoll,
     Loops!Open, Loops!Flags, Loops!Restore
<1>6. Loops!AskedFor' /\ Loops!ReportedFor'
  BY <1>5 DEF Loops!IInv, Loops!AskedFor, Loops!ReportedFor, Loops!OwnEvents, loops,
     Loops!Needs12, Loops!Needs21, Loops!Needs, Loops!Auto
<1> QED
  BY <1>2, <1>3, <1>4, <1>6 DEF Loops!IInv

\* A loop asks for what its machines wait for.
LEMMA Asking ==
  ASSUME Loops!IInv,
         Loops!AskNothing \/ Loops!AskSelect \/ Loops!AskPoll \/ Loops!AskEpoll
  PROVE  Loops!IInv'
<1>1. /\ UNCHANGED <<loop, fsm12, fsm21, flags, saved>>
      /\ at = "loop" /\ at' \in {"sleep", "drive12"}
  BY DEF Loops!AskNothing, Loops!AskSelect, Loops!AskPoll, Loops!AskEpoll, Loops!Ask,
     Loops!Running, Loops!machines
<1>2. Loops!Needs12' = Loops!Needs12 /\ Loops!Needs21' = Loops!Needs21
  BY <1>1 DEF Loops!Needs12, Loops!Needs21, Loops!Needs
<1>3. Loops!AskedFor'
  BY <1>1, <1>2 DEF Loops!AskedFor, Loops!AskNothing, Loops!AskSelect, Loops!AskPoll,
     Loops!AskEpoll, Loops!Ask
<1>4. at' = "drive12" /\ loop' # "busy" => Loops!Auto(fsm12) /\ Loops!Auto(fsm21)
  BY DEF Loops!AskNothing, Loops!AskSelect, Loops!AskPoll, Loops!AskEpoll, Loops!Ask
<1>5. Loops!ReportedFor'
  BY <1>1, <1>4 DEF Loops!ReportedFor, Loops!OwnEvents, Loops!Auto
<1> QED
  BY <1>1, <1>3, <1>5, SameMachines

\* A wait reports only what was asked for (or a hang-up).
LEMMA Reporting ==
  ASSUME Loops!IInv,
         Loops!Select \/ Loops!Poll \/ Loops!EpollWait \/ Loops!SelectInterrupted
  PROVE  Loops!IInv'
<1>1. /\ UNCHANGED <<loop, fsm12, fsm21, flags, saved>>
      /\ at = "sleep" /\ at' \in {"drive12", "failed", "loop"}
  BY DEF Loops!Select, Loops!Poll, Loops!EpollWait, Loops!SelectInterrupted,
     Loops!Report, Loops!machines
<1>2. /\ Loops!Needs12' = Loops!Needs12 /\ Loops!Needs21' = Loops!Needs21
      /\ Loops!Auto(fsm12)' <=> Loops!Auto(fsm12)
      /\ Loops!Auto(fsm21)' <=> Loops!Auto(fsm21)
  BY <1>1 DEF Loops!Needs12, Loops!Needs21, Loops!Needs, Loops!Auto
<1>3. Loops!AskedFor'
  BY <1>1 DEF Loops!AskedFor
<1>4. CASE at' # "drive12"
  BY <1>1, <1>3, <1>4, SameMachines DEF Loops!ReportedFor
<1>5. CASE at' = "drive12"
  <2>1. watched \subseteq Loops!Needs12 \cup Loops!Needs21
    BY <1>1 DEF Loops!IInv, Loops!AskedFor
  <2>2. reported' \subseteq watched \cup {<<"fd1", "hup">>, <<"fd2", "hup">>}
    <3>1. CASE Loops!Select
      BY <1>5, <3>1 DEF Loops!Select, Loops!Report
    <3>2. CASE Loops!Poll
      BY <1>5, <3>2 DEF Loops!Poll, Loops!Report, Loops!Hup
    <3>3. CASE Loops!EpollWait
      <4> DEFINE possible == (SUBSET (watched \cup {Loops!Hup("fd1")})) \cup {{Loops!Hup("fd2")}}
      <4>1. reported' \in possible
        BY <1>5, <3>3, Zenon DEF Loops!EpollWait, Loops!Report
      <4>2. \/ \A e \in reported' : e \in watched \/ e = Loops!Hup("fd1")
            \/ \A e \in reported' : e = Loops!Hup("fd2")
        BY <4>1, Zenon
      <4> HIDE DEF possible
      <4> QED
        BY <4>2 DEF Loops!Hup
    <3>4. CASE Loops!SelectInterrupted
      BY <1>5, <3>4 DEF Loops!SelectInterrupted
    <3> QED
      BY <3>1, <3>2, <3>3, <3>4
  <2>3. /\ reported' \cap {<<"fd1", "in">>, <<"fd2", "out">>} \subseteq Loops!Needs12
        /\ reported' \cap {<<"fd2", "in">>, <<"fd1", "out">>} \subseteq Loops!Needs21
    BY <2>1, <2>2, OwnNeeds, SameMachine DEF Loops!IInv, Loops!TypeOK
  <2>4. Loops!ReportedFor'
    BY <1>1, <1>2, <1>5, <2>3 DEF Loops!ReportedFor, Loops!OwnEvents
  <2> QED
    BY <1>1, <1>3, <2>4, SameMachines
<1> QED
  BY <1>4, <1>5

\* A loop drives a machine, or passes it over because nothing was reported.
LEMMA Driving ==
  ASSUME Loops!IInv,
         \/ Loops!fsm_driver_busy \/ Loops!fsm_driver_select
         \/ Loops!fsm_driver_poll \/ Loops!fsm_driver_epoll
  PROVE  Loops!IInv'
<1>1. PICK l : Loops!Drive12(l) \/ Loops!Drive21(l)
  BY DEF Loops!fsm_driver_busy, Loops!fsm_driver_select, Loops!fsm_driver_poll,
     Loops!fsm_driver_epoll
<1>2. LoopsMachines
  BY SameMachine DEF Loops!IInv, Loops!TypeOK, Loops!LoopFaithful, LoopsMachines
<1>3. /\ fsm12' = fsm12 \/ fsm12' \in Loops!Driven(fsm12)
      /\ fsm21' = fsm21 \/ fsm21' \in Loops!Driven(fsm21)
      /\ UNCHANGED <<loop, flags, saved, reported>>
      /\ at \in {"drive12", "drive21"}
      /\ at' \in {"drive21", "loop", "aborted"}
      /\ at' = "drive21" => fsm21' = fsm21
      /\ at' = "drive21" => at = "drive12"
  BY <1>1 DEF Loops!Drive12, Loops!Drive21
<1>4. LoopsMachines'
  BY <1>2, <1>3, MachinesFaithful
<1>5. Loops!TypeOK' /\ Loops!LoopFaithful'
  BY <1>3, <1>4, SameMachine DEF Loops!IInv, Loops!TypeOK, Loops!LoopFaithful, LoopsMachines
<1>6. Loops!LoopRestored' /\ Loops!LoopOver' /\ Loops!FlagsOnWay' /\ Loops!AskedFor'
  BY <1>3 DEF Loops!IInv, Loops!LoopRestored, Loops!LoopOver, Loops!FlagsOnWay,
     Loops!AskedFor
<1>7. Loops!ReportedFor'
  BY <1>3 DEF Loops!IInv, Loops!ReportedFor, Loops!OwnEvents, Loops!Auto,
     Loops!Needs21, Loops!Needs
<1> QED
  BY <1>5, <1>6, <1>7 DEF Loops!IInv

\* A loop starts with both machines fresh and its descriptors non-blocking.
LEMMA LoopsInit == Loops!Init => Loops!IInv
<1> SUFFICES ASSUME Loops!Init PROVE Loops!IInv
  OBVIOUS
<1>1. /\ fsm12 = NewFsm /\ fsm21 = NewFsm /\ at = "open"
      /\ loop \in {"busy", "select", "poll", "epoll"}
  BY SameMachine DEF Loops!Init
<1>2. Loops!TypeOK /\ Loops!LoopFaithful
  BY <1>1, SameMachine, NewFsmFaithful DEF Loops!TypeOK, Loops!LoopFaithful
<1> QED
  BY <1>1, <1>2 DEF Loops!IInv, Loops!LoopRestored, Loops!LoopOver, Loops!FlagsOnWay,
     Loops!AskedFor, Loops!ReportedFor

\* Every step of a relay with a loop of its own keeps its invariant.
LEMMA LoopsNext ==
  ASSUME Loops!IInv, Loops!Next \/ UNCHANGED loops
  PROVE  Loops!IInv'
<1>1. CASE Loops!Over \/ UNCHANGED loops
  BY <1>1, AroundLoop DEF Loops!Over, Loops!loopVars, loops
<1> QED
  BY <1>1, AroundLoop, Asking, Reporting, Driving DEF Loops!Next

\* An event of a machine's own descriptors that was reported is the one the
\* machine waits for.
LEMMA EventsFromIInv == Loops!IInv => Loops!EventsMatch
<1> SUFFICES ASSUME Loops!IInv PROVE Loops!EventsMatch
  OBVIOUS
<1>1. fsm12 \in Fsm /\ fsm21 \in Fsm
  BY SameMachine DEF Loops!IInv, Loops!TypeOK
<1>2. at = "sleep" => \A e \in Loops!Needs12 \cup Loops!Needs21 :
                        e \in watched \/ (loop = "epoll" /\ e[1] = "fd2")
  <2>1. \A e \in Loops!Needs12 \cup Loops!Needs21 : e[1] = "fd1" \/ e[1] = "fd2"
    BY <1>1, OwnNeeds
  <2> QED
    BY <2>1 DEF Loops!IInv, Loops!AskedFor
<1>3. at = "drive12" /\ loop # "busy" /\ Loops!Chosen12 => Loops!Needs12 \subseteq reported
  BY <1>1, OwnNeeds DEF Loops!IInv, Loops!ReportedFor, Loops!OwnEvents, Loops!Chosen12
<1>4. at = "drive21" /\ loop # "busy" /\ Loops!Chosen21 => Loops!Needs21 \subseteq reported
  BY <1>1, OwnNeeds DEF Loops!IInv, Loops!ReportedFor, Loops!OwnEvents, Loops!Chosen21
<1> QED
  BY <1>2, <1>3, <1>4 DEF Loops!EventsMatch
-----------------------------------------------------------------------------
(* The programs together. *)

\* Whichever relay runs, its invariant holds (engine: Relayer, loops: Relays).
THEOREM RelaysInvariant == RelaySpec => [](IInv /\ Loops!IInv)
<1>1. RelayInit => IInv /\ Loops!IInv
  BY InitIInv, LoopsInit DEF RelayInit
<1>2. IInv /\ Loops!IInv /\ [RelayNext]_<<engine, vars, loops>> => (IInv /\ Loops!IInv)'
  <2> SUFFICES ASSUME IInv, Loops!IInv, [RelayNext]_<<engine, vars, loops>>
               PROVE  IInv' /\ Loops!IInv'
    OBVIOUS
  <2>1. [Next]_vars /\ (Loops!Next \/ UNCHANGED loops)
    BY DEF RelayNext
  <2> QED
    BY <2>1, NextIInv, LoopsNext
<1> QED
  BY <1>1, <1>2, PTL DEF RelaySpec

\* Whatever read and write return, each direction of a relay writes exactly
\* the bytes it has read, in order (fsm_driver of every relay).
THEOREM BytesPassedOn == RelaySpec => []AllBytesFaithful
<1>1. IInv /\ Loops!IInv => AllBytesFaithful
  BY DEF IInv, Loops!IInv, AllBytesFaithful
<1> QED
  BY <1>1, RelaysInvariant, PTL

\* A job becomes STATE_OVER, and a loop ends, only with both directions ended.
THEOREM OverWhenBothEnd == RelaySpec => []OverMeansEnded
<1>1. IInv /\ Loops!IInv => OverMeansEnded
  BY DEF IInv, Loops!IInv, OverMeansEnded
<1> QED
  BY <1>1, RelaysInvariant, PTL

\* The flags rel_addjob or relay() changed come back (on the full table too).
THEOREM FlagsComeBack == RelaySpec => []AllFlagsRestored
<1>1. IInv /\ Loops!IInv => AllFlagsRestored
  BY FlagsFromIInv DEF Loops!IInv, AllFlagsRestored
<1> QED
  BY <1>1, RelaysInvariant, PTL

\* No call, full table or other caller ever takes O_NONBLOCK from a descriptor
\* that thr_relayer or a loop drives a machine on.
THEOREM NeverDrivenBlocking == RelaySpec => []NoneBlocks
<1>1. IInv /\ Loops!IInv => NoneBlocks
  BY FlagsFromIInv DEF Loops!IInv, NoneBlocks, Loops!LoopNeverBlocks, Loops!FlagsOnWay,
     Loops!Both
<1> QED
  BY <1>1, RelaysInvariant, PTL

\* A loop sleeps on every event its machines wait for and drives a machine
\* only on its own.
THEOREM WaitsForItsEvents == RelaySpec => []EventsMatch
<1>1. IInv /\ Loops!IInv => EventsMatch
  BY EventsFromIInv DEF EventsMatch
<1> QED
  BY <1>1, RelaysInvariant, PTL

-----------------------------------------------------------------------------
(* Relays one of whose directions has ended alone. *)

\* A machine that has ended only aborts.
LEMMA EndedAborts == \A f : f.state = "T" => Driven(f) = {} /\ Loops!Driven(f) = {}
  BY DEF Driven, Loops!Driven

\* A job that is running and half ended stays so in a step of the scan: the
\* one machine is not driven, the other is driven and the check finds one.
LEMMA ScanAlone ==
  ASSUME IInv, Scan, NEW s \in Slot, EndedAlone(s)
  PROVE  EndedAlone(s)'
<1>1. /\ rel_job \in [Slot -> Job \cup {NoJob}] /\ rel_job[s] \in Job /\ rel_job[s].state = "running"
      /\ thr \in {"none", "failed", "lock", "drive12", "drive21", "check"}
      /\ thr \in {"drive21", "check"} => i \in Slot
      /\ i < REL_JOBMAX => i \in Slot
      /\ i \in Int
  BY TableAssumption DEF IInv, TypeOK, ScanHolds, EndedAlone, Slot
<1>2. CASE rel_job' = rel_job /\ thr # "drive21" /\ thr' # "drive21"
  BY <1>2 DEF EndedAlone
<1>3. CASE Drive12
  <2>1. thr = "drive12" /\ i \in Slot /\ i' = i
    BY <1>1, <1>3 DEF Drive12
  <2>2. CASE UNCHANGED <<rel_job, thr>>
    BY <2>1, <2>2 DEF EndedAlone
  <2>3. ASSUME NEW f \in Driven(rel_job[i].fsm12), rel_job' = [rel_job EXCEPT ![i].fsm12 = f],
               thr' = "drive21"
        PROVE  EndedAlone(s)'
    <3>1. CASE s = i
      <4>1. rel_job[s].fsm12.state # "T"
        BY <2>3, <3>1, EndedAborts
      <4>2. rel_job[s].fsm21.state = "T"
        BY <2>1, <4>1 DEF EndedAlone
      <4>3. rel_job'[s] # NoJob /\ rel_job'[s].state = "running" /\ rel_job'[s].fsm21.state = "T"
        <5>1. rel_job'[s] = [rel_job[s] EXCEPT !.fsm12 = f]
          BY <1>1, <2>3, <3>1
        <5>2. f \in Fsm
          <6>1. rel_job[i].fsm12 \in Fsm /\ Faithful(rel_job[i].fsm12)
            BY <1>1, <3>1, NullAssumption DEF IInv, BytesFaithful, Jobs, Job
          <6> QED
            BY <2>3, <6>1, DrivenFaithful
        <5>3. rel_job'[s] \in Job
          BY <1>1, <5>1, <5>2 DEF Job
        <5> QED
          BY <1>1, <4>2, <5>1, <5>3, NullAssumption DEF Job
      <4> QED
        BY <2>1, <2>3, <3>1, <4>3 DEF EndedAlone
    <3>2. CASE s # i
      <4>1. rel_job'[s] = rel_job[s]
        BY <1>1, <2>3, <3>2
      <4> QED
        BY <2>1, <2>3, <3>2, <4>1 DEF EndedAlone
    <3> QED
      BY <3>1, <3>2
  <2> QED
    BY <1>3, <2>2, <2>3 DEF Drive12
<1>4. CASE Drive21
  <2>1. thr = "drive21" /\ i \in Slot /\ i' = i
    BY <1>1, <1>4 DEF Drive21
  <2>2. CASE UNCHANGED <<rel_job, thr>>
    BY <2>1, <2>2 DEF EndedAlone
  <2>3. ASSUME NEW f \in Driven(rel_job[i].fsm21), rel_job' = [rel_job EXCEPT ![i].fsm21 = f],
               thr' = "check"
        PROVE  EndedAlone(s)'
    <3>1. s # i
      BY <2>1, <2>3, EndedAborts DEF EndedAlone
    <3>2. rel_job'[s] = rel_job[s]
      BY <1>1, <2>3, <3>1
    <3> QED
      BY <2>1, <2>3, <3>1, <3>2 DEF EndedAlone
  <2> QED
    BY <1>4, <2>2, <2>3 DEF Drive21
<1>5. CASE Check
  <2>1. thr = "check" /\ thr' = "drive12" /\ i \in Slot
    BY <1>1, <1>5 DEF Check
  <2>2. rel_job'[s] = rel_job[s]
    BY <1>1, <1>5, <2>1 DEF Check, EndedAlone
  <2> QED
    BY <2>1, <2>2 DEF EndedAlone
<1> QED
  BY <1>2, <1>3, <1>4, <1>5 DEF Scan, ScanLock, ScanSkip, ScanUnlock

\* A caller takes a slot that is free.
LEMMA AddAlone ==
  ASSUME IInv, NEW a \in Adder, Add(a), NEW s \in Slot, EndedAlone(s)
  PROVE  EndedAlone(s)'
<1>1. /\ rel_job \in [Slot -> Job \cup {NoJob}] /\ i' = i
      /\ thr' = thr \/ (thr = "none" /\ thr' \in {"lock", "failed"})
  BY DEF IInv, TypeOK, Add, AddCall, AddNoThread, AddFlag1, AddFlag2, AddInsert, AddFull, AddRestore1, AddRestore2
<1>2. rel_job'[s] = rel_job[s]
  BY <1>1 DEF EndedAlone, Add, AddCall, AddNoThread, AddFlag1, AddFlag2, AddInsert, AddFull, AddRestore1, AddRestore2
<1> QED
  BY <1>1, <1>2 DEF EndedAlone

\* A loop, too, only aborts then, or fails in its wait.
LEMMA LoopAlone ==
  ASSUME Loops!IInv, Loops!Next, LoopEndedAlone
  PROVE  LoopEndedAlone' \/ at' \in {"failed", "aborted"}
<1> USE DEF LoopEndedAlone, Loops!machines
<1>1. CASE Loops!main_busy \/ Loops!main_select \/ Loops!main_poll \/ Loops!main_epoll \/ Loops!Flags
  BY <1>1 DEF Loops!main_busy, Loops!main_select, Loops!main_poll, Loops!main_epoll, Loops!Open,
     Loops!Flags
<1>2. CASE Loops!Restore \/ Loops!Over
  BY <1>2 DEF Loops!Restore, Loops!Over, Loops!loopVars
<1>3. CASE Loops!AskNothing \/ Loops!AskSelect \/ Loops!AskPoll \/ Loops!AskEpoll
  BY <1>3 DEF Loops!AskNothing, Loops!AskSelect, Loops!AskPoll, Loops!AskEpoll, Loops!Ask, Loops!Running
<1>4. CASE Loops!Select \/ Loops!Poll \/ Loops!EpollWait \/ Loops!SelectInterrupted
  BY <1>4 DEF Loops!Select, Loops!Poll, Loops!EpollWait, Loops!Report, Loops!SelectInterrupted
<1>5. ASSUME NEW l, Loops!Drive12(l) PROVE LoopEndedAlone' \/ at' \in {"failed", "aborted"}
  <2>1. at = "drive12" /\ fsm21' = fsm21
    BY <1>5 DEF Loops!Drive12
  <2>2. CASE fsm12.state = "T"
    BY <1>5, <2>2, EndedAborts DEF Loops!Drive12, Loops!Chosen12, Loops!Auto
  <2>3. CASE fsm21.state = "T"
    BY <1>5, <2>1, <2>3 DEF Loops!Drive12
  <2> QED
    BY <2>1, <2>2, <2>3
<1>6. ASSUME NEW l, Loops!Drive21(l) PROVE at' = "aborted"
  BY <1>6, EndedAborts DEF Loops!Drive21, Loops!Chosen21, Loops!Auto
<1>7. CASE Loops!fsm_driver_busy \/ Loops!fsm_driver_select \/ Loops!fsm_driver_poll \/ Loops!fsm_driver_epoll
  BY <1>5, <1>6, <1>7 DEF Loops!fsm_driver_busy, Loops!fsm_driver_select, Loops!fsm_driver_poll,
     Loops!fsm_driver_epoll
<1> QED
  BY <1>1, <1>2, <1>3, <1>4, <1>7 DEF Loops!Next

\* Both directions of a relay end, and in the same visit, or it never comes to
\* its end: nothing any thread does to a job one of whose machines has ended alone
\* makes it STATE_OVER, and no loop is left then (for any callers and slots).
THEOREM NeverEndsApart == RelaySpec => EndsTogether
<1> DEFINE Stays == /\ OverMeansEnded'
                    /\ \A s \in Slot : EndedAlone(s) => EndedAlone(s)'
                    /\ LoopEndedAlone => LoopEndedAlone' \/ at' \in {"failed", "aborted"}
<1>1. ASSUME IInv, Loops!IInv, IInv', Loops!IInv', RelayNext PROVE Stays
  <2> OverMeansEnded'
    BY <1>1 DEF IInv, Loops!IInv, OverMeansEnded
  <2>1. CASE engine /\ Next /\ UNCHANGED <<engine, loops>>
    <3>1. ASSUME NEW s \in Slot, EndedAlone(s) PROVE EndedAlone(s)'
      <4>1. CASE Ended
        BY <3>1, <4>1 DEF Ended, vars, EndedAlone
      <4> QED
        BY <1>1, <2>1, <3>1, <4>1, ScanAlone, AddAlone DEF Next
    <3>2. LoopEndedAlone => LoopEndedAlone'
      BY <2>1 DEF loops, LoopEndedAlone
    <3> QED
      BY <3>1, <3>2
  <2>2. CASE ~engine /\ Loops!Next /\ UNCHANGED <<engine, vars>>
    <3>1. ASSUME NEW s \in Slot, EndedAlone(s) PROVE EndedAlone(s)'
      BY <2>2, <3>1 DEF vars, EndedAlone
    <3> QED
      BY <1>1, <2>2, <3>1, LoopAlone
  <2> QED
    BY <1>1, <2>1, <2>2 DEF RelayNext
<1>2. IInv /\ Loops!IInv /\ IInv' /\ Loops!IInv' /\ [RelayNext]_<<engine, vars, loops>> => [Stays]_<<engine, vars, loops>>
  BY <1>1
<1> HIDE DEF Stays
<1>3. RelaySpec => [][Stays]_<<engine, vars, loops>>
  BY <1>2, RelaysInvariant, PTL DEF RelaySpec
<1> QED
  BY <1>3 DEF EndsTogether, Stays

=============================================================================
