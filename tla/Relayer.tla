------------------------------ MODULE Relayer ------------------------------
(***************************************************************************)
(* The relay engine relayer/relayer.c: threads add jobs (two descriptors   *)
(* whose bytes are passed on in both directions) to a table; thr_relayer   *)
(* holds mut_rel_job over a whole scan of the table and drives both        *)
(* machines of every running job.  rel_addjob changes the descriptors'     *)
(* flags before it takes the mutex and restores them when the table is     *)
(* full.                                                                   *)
(***************************************************************************)
EXTENDS RelayFsm, FiniteSets

CONSTANTS Fd,         \* open file descriptions
          Opened,     \* those open()ed with O_NONBLOCK, as fd2 in relayer/main.c
          Adder,      \* threads that call rel_addjob
          Pairs,      \* the <<fd1, fd2>> each of them calls it with
          REL_JOBMAX, \* size of rel_job[]
          NoJob       \* NULL

ASSUME OpenedAssumption == Opened \subseteq Fd
ASSUME PairsAssumption == Pairs \in [Adder -> SUBSET (Fd \X Fd)]
\* As in relayer/main.c: two descriptors, and no two callers share one (flags
\* belong to the open file description, so one call would restore what the
\* other has set).
ASSUME OwnAssumption ==
  \A a, b \in Adder : \A p \in Pairs[a], q \in Pairs[b] :
    /\ p[1] # p[2]
    /\ a # b => {p[1], p[2]} \cap {q[1], q[2]} = {}
ASSUME TableAssumption == REL_JOBMAX \in Nat \ {0}

Slot == 0 .. REL_JOBMAX - 1

\* struct rel_job_st
Job == [fds : Fd \X Fd, state : {"running", "over"}, fsm12 : Fsm, fsm21 : Fsm]
ASSUME NullAssumption == NoJob \notin Job

VARIABLES rel_job,  \* slot -> job or NoJob
          mut,      \* TRUE while thr_relayer holds mut_rel_job
          thr,      \* thr_relayer: none, lock, drive12, drive21, check; failed:
                    \*   it could not be created
          i,        \* its loop index
          nonblock, \* the descriptors with O_NONBLOCK set
          add,      \* each adder's call: where it is, its fds and saved flags
          aborted   \* abort() has ended the process

vars == <<rel_job, mut, thr, i, nonblock, add, aborted>>

Init == /\ rel_job = [s \in Slot |-> NoJob]
        /\ mut = FALSE /\ thr = "none" /\ i = 0
        /\ nonblock = Opened
        /\ add = [a \in Adder |-> [at |-> "idle", fds |-> <<>>, save1 |-> FALSE,
                                   save2 |-> FALSE]]
        /\ aborted = FALSE

\* fcntl(fd, F_SETFL, flags): set or clear O_NONBLOCK.
SetFlag(fd, on) == nonblock' = IF on THEN nonblock \cup {fd} ELSE nonblock \ {fd}

\* rel_addjob: pthread_once starts thr_relayer; malloc may fail (-ENOMEM).
AddCall(a) ==
  /\ ~aborted /\ thr # "failed" /\ add[a].at = "idle"
  /\ thr' = IF thr = "none" THEN "lock" ELSE thr
  /\ \/ UNCHANGED add
     \/ \E p \in Pairs[a] : add' = [add EXCEPT ![a].at = "flag1", ![a].fds = p]
  /\ UNCHANGED <<rel_job, mut, i, nonblock, aborted>>

\* module_load: pthread_create fails and exit(1) ends the process.
AddNoThread(a) ==
  /\ ~aborted /\ thr = "none" /\ add[a].at = "idle"
  /\ thr' = "failed"
  /\ UNCHANGED <<rel_job, mut, i, nonblock, add, aborted>>

AddFlag1(a) ==
  /\ ~aborted /\ add[a].at = "flag1"
  /\ LET fd == add[a].fds[1] IN
       /\ add' = [add EXCEPT ![a] = [@ EXCEPT !.at = "flag2", !.save1 = fd \in nonblock]]
       /\ SetFlag(fd, TRUE)
  /\ UNCHANGED <<rel_job, mut, thr, i, aborted>>

\* Mutant: the second descriptor is left as it is.
AddFlag2Blocking(a) ==
  /\ ~aborted /\ add[a].at = "flag2"
  /\ add' = [add EXCEPT ![a].at = "insert", ![a].save2 = add[a].fds[2] \in nonblock]
  /\ UNCHANGED <<rel_job, mut, thr, i, nonblock, aborted>>

AddFlag2(a) ==
  /\ ~aborted /\ add[a].at = "flag2"
  /\ LET fd == add[a].fds[2] IN
       /\ add' = [add EXCEPT ![a] = [@ EXCEPT !.at = "insert", !.save2 = fd \in nonblock]]
       /\ SetFlag(fd, TRUE)
  /\ UNCHANGED <<rel_job, mut, thr, i, aborted>>

\* Under the mutex: the first free slot (get_free_pos_unlock) ...
AddInsert(a) ==
  /\ ~aborted /\ add[a].at = "insert" /\ ~mut
  /\ \E s \in Slot :
       /\ rel_job[s] = NoJob /\ \A r \in 0 .. s - 1 : rel_job[r] # NoJob
       /\ rel_job' = [rel_job EXCEPT ![s] = [fds |-> add[a].fds, state |-> "running",
                                             fsm12 |-> NewFsm, fsm21 |-> NewFsm]]
  /\ add' = [add EXCEPT ![a].at = "idle"]
  /\ UNCHANGED <<mut, thr, i, nonblock, aborted>>

\* Mutant: the flags are not restored.
AddFullKeepsFlags(a) ==
  /\ ~aborted /\ add[a].at = "insert" /\ ~mut
  /\ \A s \in Slot : rel_job[s] # NoJob
  /\ add' = [add EXCEPT ![a].at = "idle"]
  /\ UNCHANGED <<rel_job, mut, thr, i, nonblock, aborted>>

\* ... or none: unlock, restore both flags, free, -ENOSPC.
AddFull(a) ==
  /\ ~aborted /\ add[a].at = "insert" /\ ~mut
  /\ \A s \in Slot : rel_job[s] # NoJob
  /\ add' = [add EXCEPT ![a].at = "restore1"]
  /\ UNCHANGED <<rel_job, mut, thr, i, nonblock, aborted>>

AddRestore1(a) ==
  /\ ~aborted /\ add[a].at = "restore1"
  /\ SetFlag(add[a].fds[1], add[a].save1)
  /\ add' = [add EXCEPT ![a].at = "restore2"]
  /\ UNCHANGED <<rel_job, mut, thr, i, aborted>>

AddRestore2(a) ==
  /\ ~aborted /\ add[a].at = "restore2"
  /\ SetFlag(add[a].fds[2], add[a].save2)
  /\ add' = [add EXCEPT ![a].at = "idle"]
  /\ UNCHANGED <<rel_job, mut, thr, i, aborted>>
-----------------------------------------------------------------------------
Visiting == rel_job[i] # NoJob /\ rel_job[i].state = "running"

ScanLock ==
  /\ ~aborted /\ thr = "lock" /\ ~mut
  /\ mut' = TRUE /\ thr' = "drive12" /\ i' = 0
  /\ UNCHANGED <<rel_job, nonblock, add, aborted>>

\* An empty slot or a job that is over.
ScanSkip ==
  /\ ~aborted /\ thr = "drive12" /\ i < REL_JOBMAX /\ ~Visiting
  /\ i' = i + 1
  /\ UNCHANGED <<rel_job, mut, thr, nonblock, add, aborted>>

\* fsm_driver(&rel_job[i]->fsm12).  On a descriptor without O_NONBLOCK the
\* call may also block: then this step is simply not taken.
Drive12 ==
  /\ ~aborted /\ thr = "drive12" /\ i < REL_JOBMAX /\ Visiting
  /\ \/ /\ \E f \in Driven(rel_job[i].fsm12) :
             rel_job' = [rel_job EXCEPT ![i].fsm12 = f]
        /\ thr' = "drive21" /\ UNCHANGED aborted
     \/ /\ Aborts(rel_job[i].fsm12)
        /\ aborted' = TRUE /\ UNCHANGED <<rel_job, thr>>
  /\ UNCHANGED <<mut, i, nonblock, add>>

Drive21 ==
  /\ ~aborted /\ thr = "drive21"
  /\ \/ /\ \E f \in Driven(rel_job[i].fsm21) :
             rel_job' = [rel_job EXCEPT ![i].fsm21 = f]
        /\ thr' = "check" /\ UNCHANGED aborted
     \/ /\ Aborts(rel_job[i].fsm21)
        /\ aborted' = TRUE /\ UNCHANGED <<rel_job, thr>>
  /\ UNCHANGED <<mut, i, nonblock, add>>

\* Mutant: || for && in the test for STATE_OVER.
CheckEither ==
  /\ ~aborted /\ thr = "check"
  /\ rel_job' = IF rel_job[i].fsm12.state = "T" \/ rel_job[i].fsm21.state = "T"
                THEN [rel_job EXCEPT ![i].state = "over"] ELSE rel_job
  /\ thr' = "drive12" /\ i' = i + 1
  /\ UNCHANGED <<mut, nonblock, add, aborted>>

\* Both machines terminated: the job is over.
Check ==
  /\ ~aborted /\ thr = "check"
  /\ rel_job' = IF rel_job[i].fsm12.state = "T" /\ rel_job[i].fsm21.state = "T"
                THEN [rel_job EXCEPT ![i].state = "over"] ELSE rel_job
  /\ thr' = "drive12" /\ i' = i + 1
  /\ UNCHANGED <<mut, nonblock, add, aborted>>

ScanUnlock ==
  /\ ~aborted /\ thr = "drive12" /\ i = REL_JOBMAX
  /\ mut' = FALSE /\ thr' = "lock"
  /\ UNCHANGED <<rel_job, i, nonblock, add, aborted>>

Ended == (aborted \/ thr = "failed") /\ UNCHANGED vars

Scan == ScanLock \/ ScanSkip \/ Drive12 \/ Drive21 \/ Check \/ ScanUnlock
Add(a) == \/ AddCall(a) \/ AddNoThread(a) \/ AddFlag1(a) \/ AddFlag2(a) \/ AddInsert(a)
          \/ AddFull(a) \/ AddRestore1(a) \/ AddRestore2(a)

Next == Scan \/ Ended \/ \E a \in Adder : Add(a)

Spec == Init /\ [][Next]_vars
-----------------------------------------------------------------------------
Jobs == {rel_job[s] : s \in Slot} \ {NoJob}

Call == [at : {"idle", "flag1", "flag2", "insert", "restore1", "restore2"},
         fds : (Fd \X Fd) \cup {<<>>}, save1 : BOOLEAN, save2 : BOOLEAN]

\* The values the variables range over.
TypeOK == /\ rel_job \in [Slot -> Job \cup {NoJob}]
          /\ mut \in BOOLEAN /\ aborted \in BOOLEAN /\ i \in 0 .. REL_JOBMAX
          /\ thr \in {"none", "failed", "lock", "drive12", "drive21", "check"}
          /\ nonblock \subseteq Fd
          /\ add \in [Adder -> Call]
          /\ \A a \in Adder : add[a].at # "idle" => add[a].fds \in Pairs[a]

\* Each direction of each job delivers exactly the bytes it read, in order,
\* across short reads, short writes and EAGAIN.
BytesFaithful == \A j \in Jobs : Faithful(j.fsm12) /\ Faithful(j.fsm21)

\* A job is over only when both of its directions have ended, and is then
\* never driven again (no abort through it).
OverIsFinal == \A j \in Jobs :
                 j.state = "over" => j.fsm12.state = "T" /\ j.fsm21.state = "T"

\* A descriptor that no call and no job uses has its original flags back: those
\* it was opened with, O_NONBLOCK or not.
FlagsRestored ==
  \A fd \in Fd :
    \/ fd \in nonblock <=> fd \in Opened
    \/ \E j \in Jobs : fd \in {j.fds[1], j.fds[2]}
    \/ \E a \in Adder : add[a].at # "idle" /\ fd \in {add[a].fds[1], add[a].fds[2]}

\* thr_relayer never drives a machine on a descriptor that can block it while
\* it holds the mutex: no full table, restored flag or concurrent call clears
\* O_NONBLOCK of a job's descriptor ("set fd is NONBLAOCK", relayer.c:165).
\* Callers relay descriptors of their own; the flags belong to the open file
\* description, so a descriptor given to two calls would not be covered.
NeverBlocks == \A j \in Jobs : {j.fds[1], j.fds[2]} \subseteq nonblock

\* The parts of the inductive invariant behind these: the scan holds the mutex
\* and stays at a running job from its first machine to the check; a job's
\* descriptors are those of one caller; O_NONBLOCK is set on the descriptors
\* opened with it, on those of the jobs and on those a call has set and not
\* restored, on no other; and what a call saved tells whether the descriptor was
\* opened with it or a job uses it.
ScanHolds == /\ mut <=> thr \in {"drive12", "drive21", "check"}
             /\ thr \in {"drive21", "check"} => i < REL_JOBMAX /\ Visiting
JobsOwned == \A j \in Jobs : \E a \in Adder : j.fds \in Pairs[a]
InJobs(fd) == \E j \in Jobs : fd = j.fds[1] \/ fd = j.fds[2]
HasSet1(a) == add[a].at \in {"flag2", "insert", "restore1"}
HasSet2(a) == add[a].at \in {"insert", "restore1", "restore2"}
InCalls(fd) == \E a \in Adder : \/ HasSet1(a) /\ fd = add[a].fds[1]
                                \/ HasSet2(a) /\ fd = add[a].fds[2]
FlagsKept(fd) == fd \in Opened \/ InJobs(fd)
FlagsExact == \A fd \in Fd : fd \in nonblock <=> FlagsKept(fd) \/ InCalls(fd)
SavedExact == \A a \in Adder : /\ HasSet1(a) => (add[a].save1 <=> FlagsKept(add[a].fds[1]))
                               /\ HasSet2(a) => (add[a].save2 <=> FlagsKept(add[a].fds[2]))

IInv == /\ TypeOK /\ ScanHolds /\ BytesFaithful /\ OverIsFinal
        /\ JobsOwned /\ FlagsExact /\ SavedExact

\* A job ends as STATE_OVER (relayer.h:51, "job is terminate and return
\* state"); no end of a direction takes the process down.
NeverAborts == ~aborted
=============================================================================
