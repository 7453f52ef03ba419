----------------------------- MODULE PrintChain -----------------------------
(***************************************************************************)
(* 007printabcd.c: a chain of mutexes.  main locks mut[i] before it creates*)
(* thread i and finally unlocks mut[0]; thread n locks mut[n], prints, and *)
(* unlocks mut[n + 1].  A mutex is unlocked by a thread that did not lock  *)
(* it, which a default pthread mutex does not forbid.  The threads run     *)
(* until SIGALRM ends the process after five seconds.                      *)
(***************************************************************************)
EXTENDS Integers, Sequences

CONSTANTS THRNUM, \* threads, numbered from 0: two or more
          Limit   \* bound on the characters printed before SIGALRM

Thread == 0 .. THRNUM - 1

VARIABLES locked,  \* mut[n] is locked
          created, \* threads main has created
          opened,  \* main has unlocked mut[0]
          pc,      \* none, lock, print or unlock, per thread
          out      \* what was written, as thread numbers

vars == <<locked, created, opened, pc, out>>

NextThread(n) == IF n + 1 = THRNUM THEN 0 ELSE n + 1

Init == /\ locked = [t \in Thread |-> FALSE]
        /\ created = 0 /\ opened = FALSE
        /\ pc = [t \in Thread |-> "none"]
        /\ out = <<>>

\* Mutant: the thread is created with its mutex unlocked.
CreateUnlocked ==
  /\ created < THRNUM
  /\ pc' = [pc EXCEPT ![created] = "lock"]
  /\ created' = created + 1
  /\ UNCHANGED <<locked, opened, out>>

\* main: pthread_mutex_init and _lock of mut + i, then pthread_create.
Create ==
  /\ created < THRNUM
  /\ locked' = [locked EXCEPT ![created] = TRUE]
  /\ pc' = [pc EXCEPT ![created] = "lock"]
  /\ created' = created + 1
  /\ UNCHANGED <<opened, out>>

\* main: pthread_mutex_unlock(mut + 0).
Open ==
  /\ created = THRNUM /\ ~opened
  /\ opened' = TRUE
  /\ locked' = [locked EXCEPT ![0] = FALSE]
  /\ UNCHANGED <<created, pc, out>>

Lock(t) ==
  /\ pc[t] = "lock" /\ ~locked[t]
  /\ locked' = [locked EXCEPT ![t] = TRUE]
  /\ pc' = [pc EXCEPT ![t] = "print"]
  /\ UNCHANGED <<created, opened, out>>

Write(t) ==
  /\ pc[t] = "print" /\ Len(out) < Limit
  /\ out' = Append(out, t)
  /\ pc' = [pc EXCEPT ![t] = "unlock"]
  /\ UNCHANGED <<locked, created, opened>>

\* Mutant: the thread unlocks its own mutex as well.
UnlockBoth(t) ==
  /\ pc[t] = "unlock"
  /\ locked' = [locked EXCEPT ![t] = FALSE, ![NextThread(t)] = FALSE]
  /\ pc' = [pc EXCEPT ![t] = "lock"]
  /\ UNCHANGED <<created, opened, out>>

Unlock(t) ==
  /\ pc[t] = "unlock"
  /\ locked' = [locked EXCEPT ![NextThread(t)] = FALSE]
  /\ pc' = [pc EXCEPT ![t] = "lock"]
  /\ UNCHANGED <<created, opened, out>>

Next == Create \/ Open \/ \E t \in Thread : Lock(t) \/ Write(t) \/ Unlock(t)

Spec == Init /\ [][Next]_vars
FairSpec == Spec /\ WF_vars(Next)
-----------------------------------------------------------------------------
TypeOK == /\ locked \in [Thread -> BOOLEAN]
          /\ created \in 0 .. THRNUM /\ opened \in BOOLEAN
          /\ pc \in [Thread -> {"none", "lock", "print", "unlock"}]
          /\ out \in Seq(Thread) /\ Len(out) =< Limit

\* The chain carries one permission: at most one mutex is open or one thread
\* is between its lock and the unlock of the next, and none before main's.
OnePermission ==
  LET open == {t \in Thread : t < created /\ ~locked[t]}
      inside == {t \in Thread : pc[t] \in {"print", "unlock"}}
  IN /\ \A t, u \in open : t = u
     /\ \A t, u \in inside : t = u
     /\ open = {} \/ inside = {}
     /\ opened <=> open \cup inside # {}

\* The inductive invariant behind it: before main's unlock the threads it has
\* created find their mutexes locked; afterwards the permission is at one thread,
\* the one whose turn it is, whose mutex is open or which has yet to print, or
\* the one before, which has printed and has not passed it on.
NotOpened == /\ out = <<>>
             /\ \A t \in Thread : /\ pc[t] = IF t < created THEN "lock" ELSE "none"
                                  /\ t < created => locked[t]
Opened ==
  /\ created = THRNUM
  /\ \E t \in Thread :
       /\ \A u \in Thread : u # t => locked[u] /\ pc[u] = "lock"
       /\ \/ ~locked[t] /\ pc[t] = "lock" /\ t = Len(out) % THRNUM
          \/ locked[t] /\ pc[t] = "print" /\ t = Len(out) % THRNUM
          \/ locked[t] /\ pc[t] = "unlock" /\ NextThread(t) = Len(out) % THRNUM
IInv == TypeOK /\ IF opened THEN Opened ELSE NotOpened

\* The output is abcdabcd...
RR == INSTANCE RoundRobin
InTurn == RR!Spec

\* The threads print on until the bound (in the program, until SIGALRM).
KeepsPrinting == <>(Len(out) = Limit)
=============================================================================
