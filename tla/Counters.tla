------------------------------ MODULE Counters ------------------------------
(***************************************************************************)
(* The number in /tmp/out, to which threads or processes each add one:     *)
(* with no lock (005add.c), under a mutex (006add_mutex.c), under lockf    *)
(* (007lockfile_process.c) and under a System V semaphore (add_sem.c).     *)
(* stdio reads the file at fgets and writes it at fflush or fclose.        *)
(***************************************************************************)
EXTENDS Integers, FiniteSets

CONSTANT Adder  \* 20 threads or processes

VARIABLES guard,   \* none, mutex, lockf or sem
          number,  \* in the file, 1 at first ("echo 1 > /tmp/out")
          held,    \* the adder between locking and unlocking, if any
          adder,   \* new, open, lock, read, write, unlock; done or failed
          linebuf, \* the number each one read
          boss     \* main: create, wait; ended or failed

counterVars == <<guard, number, held, adder, linebuf, boss>>

Init == /\ guard \in {"none", "mutex", "lockf", "sem"}
        /\ number = 1 /\ held = {} /\ boss = "create"
        /\ adder = [a \in Adder |-> "new"]
        /\ linebuf = [a \in Adder |-> 0]

Threads == guard \in {"none", "mutex"}

\* exit(1) in a thread, or in main, ends every thread.
Killed == Threads /\ boss = "failed"

At(a, p) == adder[a] = p /\ ~Killed
Goes(a, p) == adder' = [adder EXCEPT ![a] = p]

\* fopen; perror, exit(1)
Open(a) == /\ At(a, "open")
           /\ \/ Goes(a, IF guard = "none" THEN "read" ELSE "lock") /\ UNCHANGED boss
              \/ Goes(a, "failed") /\ boss' = IF Threads THEN "failed" ELSE boss
           /\ UNCHANGED <<guard, number, held, linebuf>>

Acquire(a) == /\ At(a, "lock") /\ held = {}
              /\ held' = {a} /\ Goes(a, "read")
              /\ UNCHANGED <<guard, number, linebuf, boss>>

\* fgets, fseek to the start
Read(a) == /\ At(a, "read")
           /\ linebuf' = [linebuf EXCEPT ![a] = number] /\ Goes(a, "write")
           /\ UNCHANGED <<guard, number, held, boss>>

\* fprintf, and the flush that writes
Write(a) == /\ At(a, "write")
            /\ number' = linebuf[a] + 1
            /\ Goes(a, IF guard = "none" THEN "done" ELSE "unlock")
            /\ UNCHANGED <<guard, held, linebuf, boss>>

Release(a) == /\ At(a, "unlock") /\ held' = {} /\ Goes(a, "done")
              /\ UNCHANGED <<guard, number, linebuf, boss>>

Create == /\ boss = "create"
          /\ \/ \E a \in Adder : adder[a] = "new" /\ Goes(a, "open") /\ UNCHANGED boss
             \/ \E a \in Adder : adder[a] = "new" /\ boss' = "failed" /\ UNCHANGED adder
             \/ (\A a \in Adder : adder[a] # "new") /\ boss' = "wait" /\ UNCHANGED adder
          /\ UNCHANGED <<guard, number, held, linebuf>>

Join == /\ boss = "wait" /\ \A a \in Adder : adder[a] \in {"done", "failed"}
        /\ boss' = "ended"
        /\ UNCHANGED <<guard, number, held, adder, linebuf>>
-----------------------------------------------------------------------------
\* 005add.c: the thread, main.
thr_add(a) == guard = "none" /\ (Open(a) \/ Read(a) \/ Write(a))
add == guard = "none" /\ (Create \/ Join)

\* 006add_mutex.c: the file is closed, and so written, under the mutex.
thr_add_mutex(a) == guard = "mutex" /\ (Open(a) \/ Acquire(a) \/ Read(a) \/ Write(a) \/ Release(a))
add_mutex == guard = "mutex" /\ (Create \/ Join)

\* 007lockfile_process.c: F_ULOCK frees the file from the current offset on;
\* the part before it, and with it the lock, goes at fclose.
func_add_lockf(a) == guard = "lockf" /\ (Open(a) \/ Acquire(a) \/ Read(a) \/ Write(a) \/ Release(a))
add_lockf == guard = "lockf" /\ (Create \/ Join)

\* Mutant: P lets in whoever finds the value 0.
PNoWait(a) == /\ guard = "sem" /\ At(a, "lock")
              /\ held' = held \cup {a} /\ Goes(a, "read")
              /\ UNCHANGED <<guard, number, linebuf, boss>>

\* add_sem.c: P, where any error, an interruption too, is exit(1); V; the rest.
P(a) == /\ guard = "sem" /\ At(a, "lock")
        /\ \/ Acquire(a)
           \/ Goes(a, "failed") /\ UNCHANGED <<guard, number, held, linebuf, boss>>
V(a) == guard = "sem" /\ Release(a)
func_add_sem(a) == guard = "sem" /\ (Open(a) \/ P(a) \/ Read(a) \/ Write(a) \/ V(a))
add_sem == guard = "sem" /\ (Create \/ Join)

AdderStep(a) == thr_add(a) \/ thr_add_mutex(a) \/ func_add_lockf(a) \/ func_add_sem(a)
MainStep == add \/ add_mutex \/ add_lockf \/ add_sem
Over == /\ boss \in {"ended", "failed"}
        /\ Killed \/ \A a \in Adder : adder[a] \in {"new", "done", "failed"}
        /\ UNCHANGED counterVars

Next == MainStep \/ Over \/ \E a \in Adder : AdderStep(a)
-----------------------------------------------------------------------------
Written == Cardinality({a \in Adder : adder[a] \in {"unlock", "done"}})

\* Under any of the locks the file counts those that wrote, whoever fails on
\* the way; without one, updates are lost but never all of them.
CountExact == IF guard # "none" THEN number = 1 + Written
              ELSE number =< 1 + Written /\ (Written > 0 => number > 1)

\* What CountExact rests on: the lock has one holder, who alone is between
\* reading and unlocking, so what it read is still in the file.  Without a
\* lock what is read is at least 1 and counts only adders that wrote.
TypeOK == /\ guard \in {"none", "mutex", "lockf", "sem"}
          /\ number \in Nat \ {0} /\ linebuf \in [Adder -> Nat]
          /\ adder \in [Adder -> {"new", "open", "lock", "read", "write", "unlock", "done", "failed"}]

LockHeld ==
  IF guard # "none"
    THEN /\ held = {a \in Adder : adder[a] \in {"read", "write", "unlock"}}
         /\ \A a, b \in held : a = b
         /\ \A a \in Adder : adder[a] = "write" => linebuf[a] = number
    ELSE /\ \A a \in Adder : adder[a] \notin {"lock", "unlock"}
         /\ \A a \in Adder : adder[a] = "write" => linebuf[a] \in 1 .. 1 + Written

IInv == TypeOK /\ LockHeld /\ CountExact

\* main comes to its end: every adder that is waited for gives the lock back.
CountEnds == <>(boss \in {"ended", "failed"})
=============================================================================
