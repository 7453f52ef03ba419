------------------------------ MODULE Primers ------------------------------
(***************************************************************************)
(* The programs that report the primes of LEFT..RIGHT without a pool: one  *)
(* process (003Process/003primer.c), a process for each number             *)
(* (004primer_process.c), one for each residue (005primer_processN.c), a   *)
(* thread for each number that gets it by value (thread/posix/003primer.c) *)
(* or in a struct of its own (004primer_e.c).  A helper is named by the    *)
(* first number it looks at.                                               *)
(***************************************************************************)
EXTENDS Integers

CONSTANTS LEFT, RIGHT, N

VARIABLES style,    \* alone, each, stride, value or struct
          boss,     \* main: create, wait; ended or failed
          created,  \* helpers created
          at,       \* the number each helper is at: 0 before, beyond RIGHT after
          args,     \* the structs allocated and not yet freed
          reported  \* the numbers printed

primerVars == <<style, boss, created, at, args, reported>>

Number == LEFT .. RIGHT

Init == /\ style \in {"alone", "each", "stride", "value", "struct"}
        /\ boss = "create" /\ created = 0
        /\ at = [i \in Number |-> 0]
        /\ args = {} /\ reported = {}

Threads == style \in {"value", "struct"}
Killed == Threads /\ boss = "failed"  \* exit(1) of main

Divides(j, i) == i % j = 0

\* The processes try every j < i/2; the loop of the threads, whose condition
\* is i < i/2, never runs.
Marked(i) == Threads \/ ~ \E j \in 2 .. (i \div 2) - 1 : Divides(j, i)

Report(i) == reported' = IF Marked(i) THEN reported \cup {i} ELSE reported

\* main creates one helper after the other, or cannot and exits (the process
\* alone is its own).
Create(s, helpers, allocates) ==
  /\ style = s /\ boss = "create"
  /\ \/ /\ created < helpers
        /\ created' = created + 1 /\ at' = [at EXCEPT ![LEFT + created] = LEFT + created]
        /\ args' = IF allocates THEN args \cup {LEFT + created} ELSE args
        /\ UNCHANGED boss
     \/ /\ created < helpers /\ s # "alone"
        /\ boss' = "failed" /\ UNCHANGED <<created, at, args>>
     \/ created = helpers /\ boss' = "wait" /\ UNCHANGED <<created, at, args>>
  /\ UNCHANGED <<style, reported>>

\* A helper looks at its number; step numbers on is the next.
Look(s, h, step) ==
  /\ style = s /\ at[h] \in Number /\ ~Killed
  /\ Report(at[h])
  /\ at' = [at EXCEPT ![h] = at[h] + step]
  /\ UNCHANGED <<style, boss, created, args>>

AllGone == \A i \in Number : at[i] \notin Number

\* main waits for all of them and exits.
Wait(s) == /\ style = s /\ boss = "wait" /\ AllGone
           /\ args' = {} /\ boss' = "ended"
           /\ UNCHANGED <<style, created, at, reported>>

Once == RIGHT - LEFT + 1  \* past RIGHT from anywhere
-----------------------------------------------------------------------------
primer == Create("alone", 1, FALSE) \/ Look("alone", LEFT, 1) \/ Wait("alone")

primer_process == \/ Create("each", Once, FALSE) \/ Wait("each")
                  \/ \E h \in Number : Look("each", h, Once)

\* Mutant: i += N is i += N + 1.
primer_processN_skips == \/ Create("stride", N, FALSE) \/ Wait("stride")
                         \/ \E h \in Number : Look("stride", h, N + 1)

primer_processN == \/ Create("stride", N, FALSE) \/ Wait("stride")
                   \/ \E h \in Number : Look("stride", h, N)

primer_value == Create("value", Once, FALSE) \/ Wait("value")
thr_primer_value == \E h \in Number : Look("value", h, Once)

\* Each thread has a struct of its own, freed by main when it has joined it.
primer_e == Create("struct", Once, TRUE) \/ Wait("struct")
thr_primer_e == \E h \in Number : h \in args /\ Look("struct", h, Once)

Next == \/ primer \/ primer_process \/ primer_processN
        \/ primer_value \/ thr_primer_value \/ primer_e \/ thr_primer_e
-----------------------------------------------------------------------------
IsPrime(i) == i > 1 /\ \A j \in 2 .. i - 1 : ~Divides(j, i)

\* When main has waited for its helpers every number has been looked at: the
\* processes have reported the primes (LEFT above 4: 4/2 leaves no j to try),
\* the threads every number; and no struct is left.
PrimesReported ==
  /\ boss = "ended" => /\ reported = IF Threads THEN Number ELSE {i \in Number : IsPrime(i)}
                       /\ args = {}
  /\ \A i \in Number : style = "struct" /\ at[i] = i => i \in args \/ Killed

\* What it rests on: helpers and strides are as many; those created go by
\* strides from their first number, the numbers behind them are reported, and
\* main waits when it has created them all.
Stride == IF style = "alone" THEN 1 ELSE IF style = "stride" THEN N ELSE Once

TypeOK == /\ style \in {"alone", "each", "stride", "value", "struct"}
          /\ boss \in {"create", "wait", "ended", "failed"}
          /\ created \in 0 .. Stride
          /\ at \in [Number -> Nat]

OnCourse == /\ \A h \in Number : IF h < LEFT + created THEN at[h] >= h /\ (at[h] - h) % Stride = 0
                                                      ELSE at[h] = 0
            /\ boss \in {"wait", "ended"} => created = Stride
            /\ boss = "ended" => AllGone

BehindReported ==
  /\ reported \subseteq {i \in Number : Marked(i)}
  /\ \A h, i \in Number : i >= h /\ (i - h) % Stride = 0 /\ i < at[h] /\ Marked(i) => i \in reported

IInv == TypeOK /\ OnCourse /\ BehindReported /\ PrimesReported

\* main's wait ends.
PrimersEnd == <>(boss \in {"ended", "failed"})
=============================================================================
