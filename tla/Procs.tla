------------------------------- MODULE Procs -------------------------------
(***************************************************************************)
(* The programs around fork, exec and wait: 001fork, 002forktest, 006execl,*)
(* 007few, 008mysh, 009mysu, and those in which a child and its parent     *)
(* hand a text over (001pipe, shm, 006sharememory).  What stdio has not    *)
(* written yet belongs to the process: fork copies it, exec drops it, exit *)
(* writes it.  Each program is the list of its statements, one process     *)
(* steps through it, and after a fork two.                                 *)
(***************************************************************************)
EXTENDS Naturals, Sequences, FiniteSets

VARIABLES prog,    \* the program that runs
          tty,     \* stdin and stdout are a terminal
          pc,      \* the statement each process is at; 0 before, beyond the last after
          parent,  \* of each process, or 0
          waited,  \* the children waited for
          buf,     \* what stdio holds back, per process
          shared,  \* the memory or the pipe between parent and child
          out,     \* what was written
          printed  \* (history) what was printed

procVars == <<prog, tty, pc, parent, waited, buf, shared, out, printed>>

Pid == 1 .. 4
NULL == "nothing"

\* A statement: who takes it (both sides of the last fork, or one), what it
\* does, and a text.
Both(op, x) == [who |-> {"child", "parent"}, op |-> op, x |-> x]
Child(op, x) == [who |-> {"child"}, op |-> op, x |-> x]
Parent(op, x) == [who |-> {"parent"}, op |-> op, x |-> x]

Fork == Both("fork", NULL)
Flush == Both("fflush", NULL)
Wait == Parent("wait", NULL)
Exit == Both("exit", NULL)

\* Mutant: no flush before the fork and the exec.
few_unflushed == <<Both("puts", "begin"), Fork, Child("exec", "date"), Child("exit", NULL),
                   Wait, Parent("puts", "end"), Exit>>

fork == <<Both("puts", "Begin!"), Flush, Fork, Child("puts", "child is working!"),
          Parent("puts", "parent is working!"), Both("puts", "End!"), Exit>>
forktest == <<Flush, Both("fork or not", NULL), Both("printf", "-"),
              Flush, Both("fork or not", NULL), Both("printf", "-"),
              Both("wait", NULL), Both("wait", NULL), Exit>>
execl == <<Both("puts", "begin!"), Flush, Both("exec", "date"), Exit>>
few == <<Both("puts", "begin"), Flush, Fork, Child("exec", "date"), Child("exit", NULL),
         Wait, Parent("puts", "end"), Exit>>
mysu == <<Fork, Child("exec", "command"), Child("exit", NULL), Wait, Exit>>
pipe == <<Fork, Child("read", NULL), Child("exit", NULL), Parent("store", "Hello!"), Wait, Exit>>
shm == <<Fork, Child("store or not", "Hello!"), Child("exit", NULL),
         Wait, Parent("load or not", NULL), Exit>>
sharememory == <<Fork, Child("store", "hello!"), Child("exit", NULL),
                 Wait, Parent("load", NULL), Exit>>

\* Two rounds of the shell (a bound); a child's command prints its own text.
Round == <<Both("printf", "mysh-0.1$"), Both("getline", NULL), Fork,
           Child("exec", "command"), Child("exit", NULL), Wait>>
mysh == Round \o Round \o <<Exit>>

Programs == [fork |-> fork, forktest |-> forktest, execl |-> execl, few |-> few, mysh |-> mysh,
             mysu |-> mysu, pipe |-> pipe, shm |-> shm, sharememory |-> sharememory]
Script == Programs[prog]

Init == /\ prog \in DOMAIN Programs /\ tty \in BOOLEAN
        /\ pc = [p \in Pid |-> IF p = 1 THEN 1 ELSE 0]
        /\ parent = [p \in Pid |-> 0] /\ waited = {}
        /\ buf = [p \in Pid |-> <<>>]
        /\ shared = NULL /\ out = <<>> /\ printed = <<>>
-----------------------------------------------------------------------------
Runs(p) == pc[p] \in DOMAIN Script
Over(p) == pc[p] > Len(Script)
Op(p) == Script[pc[p]].op
Arg(p) == Script[pc[p]].x
Side(p) == IF parent[p] = 0 THEN "parent" ELSE "child"

\* The next statement for a process on that side; the last is everybody's.
After(p, side) ==
  CHOOSE k \in pc[p] + 1 .. Len(Script) + 1 :
    /\ k \in DOMAIN Script => side \in Script[k].who
    /\ \A j \in pc[p] + 1 .. k - 1 : side \notin Script[j].who

Moves(p, k) == pc' = [pc EXCEPT ![p] = k] /\ UNCHANGED <<prog, tty>>
Proceeds(p) == Moves(p, After(p, Side(p)))
Fails(p) == Moves(p, Len(Script))  \* perror, exit(1)

\* What p has printed goes out at once on a terminal if the line is complete.
Prints(p, x, flush) ==
  /\ printed' = Append(printed, x)
  /\ IF flush THEN out' = Append(out \o buf[p], x) /\ buf' = [buf EXCEPT ![p] = <<>>]
     ELSE buf' = [buf EXCEPT ![p] = Append(@, x)] /\ UNCHANGED out

\* Text that stdio does not hold back.
Says(x) == out' = Append(out, x) /\ printed' = Append(printed, x)

Writes(p) == out' = out \o buf[p] /\ buf' = [buf EXCEPT ![p] = <<>>] /\ UNCHANGED printed

\* printf without, puts with the end of the line; fflush; stdin on a terminal
\* brings stdout out, and its end is the shell's.
Stdio(p) ==
  /\ \/ Op(p) = "printf" /\ Prints(p, Arg(p), FALSE) /\ Proceeds(p)
     \/ Op(p) = "puts" /\ Prints(p, Arg(p), tty) /\ Proceeds(p)
     \/ Op(p) \in {"load", "load or not"} /\ Prints(p, shared, tty) /\ Proceeds(p)
     \/ Op(p) = "fflush" /\ Writes(p) /\ Proceeds(p)
     \/ /\ Op(p) = "getline"
        /\ IF tty THEN Writes(p) ELSE UNCHANGED <<buf, out, printed>>
        /\ Proceeds(p) \/ Fails(p)
  /\ UNCHANGED <<parent, waited, shared>>

Unborn == {q \in Pid : pc[q] = 0}

\* The new process goes on where its parent is, with a copy of its buffer.
Forks(p) ==
  /\ Op(p) \in {"fork", "fork or not"}
  /\ \/ \E q \in Unborn :
          /\ \A r \in Unborn : q =< r
          /\ pc' = [pc EXCEPT ![q] = After(p, "child"), ![p] = After(p, Side(p))]
          /\ parent' = [parent EXCEPT ![q] = p]
          /\ buf' = [buf EXCEPT ![q] = buf[p]]
          /\ UNCHANGED <<prog, tty>>
     \/ /\ IF Op(p) = "fork" THEN Fails(p) ELSE Proceeds(p)
        /\ UNCHANGED <<parent, buf>>
  /\ UNCHANGED <<waited, shared, out, printed>>

\* The other program takes the process, without the buffer, and prints.
Execs(p) ==
  /\ Op(p) = "exec"
  /\ \/ /\ Says(Arg(p)) /\ buf' = [buf EXCEPT ![p] = <<>>]
        /\ Moves(p, Len(Script) + 1)
     \/ Proceeds(p) /\ UNCHANGED <<buf, out, printed>>
  /\ UNCHANGED <<parent, waited, shared>>

\* wait(NULL): for one child, if there is any.
Waits(p) ==
  /\ Op(p) = "wait"
  /\ LET kids == {q \in Pid \ waited : parent[q] = p} IN
       IF kids = {} THEN UNCHANGED waited
       ELSE \E q \in kids : Over(q) /\ waited' = waited \cup {q}
  /\ Proceeds(p)
  /\ UNCHANGED <<parent, buf, shared, out, printed>>

\* strcpy into the memory, write into the pipe; or shmat fails.  The pipe's
\* reader waits for the text and writes it.
Hands(p) ==
  /\ \/ /\ Op(p) \in {"store", "store or not"}
        /\ shared' = Arg(p) /\ Proceeds(p) /\ UNCHANGED <<out, printed>>
     \/ /\ Op(p) \in {"store or not", "load or not"}
        /\ Says("shmat()") /\ Fails(p) /\ UNCHANGED shared
     \/ /\ Op(p) = "read" /\ shared # NULL
        /\ Says(shared) /\ Proceeds(p) /\ UNCHANGED shared
  /\ UNCHANGED <<parent, waited, buf>>

Exits(p) == /\ Op(p) = "exit" /\ Writes(p)
            /\ Moves(p, Len(Script) + 1)
            /\ UNCHANGED <<parent, waited, shared>>

Next == \E p \in Pid : /\ Runs(p)
                       /\ \/ Stdio(p) \/ Forks(p) \/ Execs(p) \/ Waits(p) \/ Hands(p) \/ Exits(p)
-----------------------------------------------------------------------------
Times(s, x) == Cardinality({i \in DOMAIN s : s[i] = x})
Held(x) == Times(buf[1], x) + Times(buf[2], x) + Times(buf[3], x) + Times(buf[4], x)

\* What is printed is written once: a fork copies no unwritten text, an exec
\* drops none, which is what the calls of fflush before them are for.  (The
\* shell has none: away from a terminal its prompts do not come out once.)
\* And when the first process is over, what one side has handed to the other
\* has been written, if it could be read.
WrittenOnce ==
  /\ \A i \in DOMAIN printed : (prog = "mysh" => tty) =>
       Times(out, printed[i]) + Held(printed[i]) = Times(printed, printed[i])
  /\ Over(1) /\ shared # NULL => Times(out, shared) = 1 \/ Times(out, "shmat()") = 1

\* The parts of the inductive invariant behind this: what stdio holds back is
\* empty before birth and where a process is copied or replaced, so every
\* text is written, held back by one process, or not printed.
Text == {Script[k].x : k \in DOMAIN Script} \cup {NULL, "shmat()"}
Copying(p) == Runs(p) /\ Op(p) \in {"fork", "fork or not", "exec"}
NothingToCopy == \A p \in Pid : pc[p] = 0 \/ Copying(p) => buf[p] = <<>>
AllCounted == \A x \in Text : Times(out, x) + Held(x) = Times(printed, x)

TypeOK == /\ prog \in DOMAIN Programs /\ tty \in BOOLEAN
          /\ pc \in [Pid -> 0 .. Len(Script) + 1]
          /\ parent \in [Pid -> 0 .. 4] /\ waited \subseteq Pid
          /\ buf \in [Pid -> Seq(Text)] /\ shared \in Text
          /\ out \in Seq(Text) /\ printed \in Seq(Text)

\* The programs with a text to hand over have two processes.  The parent
\* gets beyond its wait when the child is over, ...
OneChild ==
  /\ \A p \in Pid : parent[p] = IF p = 2 /\ pc[2] # 0 THEN 1 ELSE 0
  /\ pc[3] = 0 /\ pc[4] = 0
  /\ pc[1] \in {1, 4, 5, 6, 7} /\ pc[2] \in {0, 2, 3, 6, 7} /\ waited \subseteq {2}
  /\ pc[1] = 1 => pc[2] = 0
  /\ pc[1] \in {4, 5} => pc[2] # 0
  /\ buf[2] = <<>> /\ (pc[1] # 6 => buf[1] = <<>>)

\* ... in pipe it writes before that and the child reads, ...
PipeHands ==
  /\ (pc[1] < 6 => waited = {}) /\ (pc[1] > 5 /\ pc[2] # 0 => pc[2] = 7)
  /\ shared = (IF pc[1] > 4 /\ pc[2] # 0 THEN "Hello!" ELSE NULL)
  /\ out = (IF pc[2] \in {3, 7} THEN <<"Hello!">> ELSE <<>>)
  /\ buf[1] = <<>> /\ pc[2] # 6

\* ... in the other two the child writes and the parent reads after it.
MemoryHands(text) ==
  /\ (pc[1] < 5 => waited = {}) /\ (pc[1] > 4 /\ pc[2] # 0 => pc[2] = 7)
  /\ shared \in {NULL, text}
  /\ pc[2] \in {0, 2} => shared = NULL /\ out = <<>> /\ buf[1] = <<>>
  /\ pc[2] = 6 => shared = NULL
  /\ shared # NULL /\ pc[1] < 6 => out = <<>>
  /\ shared # NULL /\ pc[1] = 6 => \/ out = <<>> /\ buf[1] = <<text>>
                                   \/ out \in {<<text>>, <<"shmat()">>} /\ buf[1] = <<>>
  /\ shared # NULL /\ pc[1] = 7 => out \in {<<text>>, <<"shmat()">>}

HandedOver ==
  /\ prog = "pipe" => OneChild /\ PipeHands
  /\ prog = "shm" => OneChild /\ MemoryHands("Hello!")
  /\ prog = "sharememory" => OneChild /\ MemoryHands("hello!") /\ pc[2] # 6
  /\ prog \notin {"pipe", "shm", "sharememory"} => shared = NULL

IInv == TypeOK /\ ((prog = "mysh" => tty) => NothingToCopy /\ AllCounted) /\ HandedOver

\* The waits return: the first process comes to its end.
ProcsEnd == <>Over(1)
=============================================================================
