------------------------------- MODULE MyPipe -------------------------------
(***************************************************************************)
(* mypipe.c: a pipe between threads.  A peer that registers waits until    *)
(* both sides are there; a reader of the empty pipe waits for the writers  *)
(* to leave, for mypipe_write has no body and nothing ever comes (so the   *)
(* bytes of the pipe, and the calls that move them, have no step).  The    *)
(* peers belong to the library's caller: each registers once.              *)
(***************************************************************************)
EXTENDS FiniteSets, Integers

CONSTANT Peer

VARIABLES me,       \* none, NULL, ready or destroyed
          count_rd, count_wd,
          opmap,    \* what the peer registered for
          at,       \* out, registering, in, reading or left, per peer
          asleep    \* the peers in pthread_cond_wait

pipeVars == <<me, count_rd, count_wd, opmap, at, asleep>>

READ == "MYPIPE_READ"
WRITE == "MYPIPE_WRITE"

Init == /\ me = "none" /\ count_rd = 0 /\ count_wd = 0
        /\ opmap = [p \in Peer |-> {}]
        /\ at = [p \in Peer |-> "out"] /\ asleep = {}

\* malloc may fail.
mypipe_init == /\ me = "none" /\ me' \in {"NULL", "ready"}
               /\ UNCHANGED <<count_rd, count_wd, opmap, at, asleep>>

Alone == count_rd <= 0 \/ count_wd <= 0
Bit(op, map) == IF op \in map THEN 1 ELSE 0

\* Count in, wake everybody, wait while a side is missing.
mypipe_register(p) ==
  /\ me = "ready" /\ at[p] = "out"
  /\ \E map \in {{READ}, {WRITE}, {READ, WRITE}} :
       /\ opmap' = [opmap EXCEPT ![p] = map]
       /\ count_rd' = count_rd + Bit(READ, map)
       /\ count_wd' = count_wd + Bit(WRITE, map)
  /\ at' = [at EXCEPT ![p] = IF Alone' THEN "registering" ELSE "in"]
  /\ asleep' = IF Alone' THEN {p} ELSE {}
  /\ UNCHANGED me

RegisterWakes(p) ==
  /\ at[p] = "registering" /\ p \notin asleep
  /\ IF Alone THEN asleep' = asleep \cup {p} /\ UNCHANGED at
     ELSE at' = [at EXCEPT ![p] = "in"] /\ UNCHANGED asleep
  /\ UNCHANGED <<me, count_rd, count_wd, opmap>>

\* Mutant: the peers that wait are not told.
UnregisterQuietly(p) ==
  /\ at[p] = "in" /\ at' = [at EXCEPT ![p] = "left"]
  /\ count_rd' = count_rd - Bit(READ, opmap[p])
  /\ count_wd' = count_wd - Bit(WRITE, opmap[p])
  /\ UNCHANGED <<me, opmap, asleep>>

mypipe_unregister(p) ==
  /\ at[p] = "in" /\ at' = [at EXCEPT ![p] = "left"]
  /\ count_rd' = count_rd - Bit(READ, opmap[p])
  /\ count_wd' = count_wd - Bit(WRITE, opmap[p])
  /\ asleep' = {}
  /\ UNCHANGED <<me, opmap>>

\* The wait of mypipt_read: it ends, with 0 bytes, when no writer is left.
ReadWaits(p) ==
  /\ IF count_wd > 0
     THEN at' = [at EXCEPT ![p] = "reading"] /\ asleep' = asleep \cup {p}
     ELSE at' = [at EXCEPT ![p] = "in"] /\ UNCHANGED asleep
  /\ UNCHANGED <<me, count_rd, count_wd, opmap>>

mypipt_read(p) == at[p] = "in" /\ READ \in opmap[p] /\ ReadWaits(p)
ReadWakes(p) == at[p] = "reading" /\ p \notin asleep /\ ReadWaits(p)

\* (POSIX lets the wait return without a signal)
SpuriousWakeup(p) == /\ p \in asleep /\ asleep' = asleep \ {p}
                     /\ UNCHANGED <<me, count_rd, count_wd, opmap, at>>

\* The caller destroys the pipe when it is done with it.
mypipe_destroy == /\ me = "ready" /\ \A p \in Peer : at[p] = "left"
                  /\ me' = "destroyed"
                  /\ UNCHANGED <<count_rd, count_wd, opmap, at, asleep>>

Runs(p) == RegisterWakes(p) \/ ReadWakes(p)

Next == \/ mypipe_init \/ mypipe_destroy
        \/ \E p \in Peer : \/ mypipe_register(p) \/ mypipe_unregister(p)
                           \/ mypipt_read(p) \/ Runs(p) \/ SpuriousWakeup(p)
-----------------------------------------------------------------------------
Present(op) == {p \in Peer : op \in opmap[p] /\ at[p] # "left"}

\* Nobody sleeps through what it waits for: whoever sleeps in register lacks
\* one side, whoever sleeps in read has a writer that can still leave, and the
\* counts are those of the peers that are there.
PipeAwake ==
  /\ count_rd = Cardinality(Present(READ)) /\ count_wd = Cardinality(Present(WRITE))
  /\ \A p \in asleep : CASE at[p] = "registering" -> Present(READ) = {} \/ Present(WRITE) = {}
                         [] at[p] = "reading" -> Present(WRITE) # {}

\* The other parts of the inductive invariant: who sleeps is in a wait, and who
\* has not registered counts for nothing.
TypeOK == /\ me \in {"none", "NULL", "ready", "destroyed"}
          /\ opmap \in [Peer -> SUBSET {READ, WRITE}]
          /\ at \in [Peer -> {"out", "registering", "in", "reading", "left"}]
          /\ asleep \subseteq {p \in Peer : at[p] \in {"registering", "reading"}}
          /\ \A p \in Peer : at[p] = "out" => opmap[p] = {}

IInv == TypeOK /\ PipeAwake

\* A reader in a pipe whose writers leave gets its end of file, unless a peer
\* that also writes is waiting in read itself, and so for itself.
WaitsForItself == \E p \in Peer : at[p] = "reading" /\ WRITE \in opmap[p]
ReadEnds == \A p \in Peer : at[p] = "reading" ~> (at[p] # "reading" \/ WaitsForItself)
=============================================================================
