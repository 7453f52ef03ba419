---------------------------- MODULE TurnsProofs ----------------------------
(***************************************************************************)
(* Proofs about the programs whose threads take turns, for any number of   *)
(* threads and rounds: the condition variable of 010printabcd_cond.c       *)
(* (PrintCond), the chain of mutexes of 007printabcd.c (PrintChain) and    *)
(* the pipe of mypipe.c (MyPipe).                                          *)
(***************************************************************************)
EXTENDS MCTurns, FiniteSetTheorems, TLAPS

-----------------------------------------------------------------------------
(* Turns as remainders. *)

\* Quotient and remainder.
LEMMA DivMod ==
  ASSUME NEW n \in Nat, NEW m \in Nat \ {0}
  PROVE  n = m * (n \div m) + (n % m) /\ n % m \in 0 .. m - 1 /\ n \div m \in Nat
  OBVIOUS

\* The remainder of a number written as quotient and remainder.
LEMMA Remainder ==
  ASSUME NEW m \in Nat \ {0}, NEW q \in Nat, NEW r \in 0 .. m - 1
  PROVE  (m * q + r) % m = r
  OBVIOUS

\* The turn passes from the last to the first.
LEMMA TurnPasses ==
  ASSUME NEW n \in Nat, NEW m \in Nat \ {0}
  PROVE  (n + 1) % m = IF (n % m) + 1 = m THEN 0 ELSE (n % m) + 1
<1> DEFINE q == n \div m
           r == n % m
<1>1. n = m * q + r /\ r \in 0 .. m - 1 /\ q \in Nat
  BY DivMod
<1> HIDE DEF q, r
<1>2. CASE r + 1 = m
  <2>1. n + 1 = m * (q + 1) + 0
    BY <1>1, <1>2
  <2>2. (m * (q + 1) + 0) % m = 0
    BY <1>1, Remainder
  <2> QED
    BY <1>2, <2>1, <2>2 DEF r
<1>3. CASE r + 1 # m
  <2>1. n + 1 = m * q + (r + 1) /\ r + 1 \in 0 .. m - 1
    BY <1>1, <1>3
  <2>2. (m * q + (r + 1)) % m = r + 1
    BY <1>1, <2>1, Remainder
  <2> QED
    BY <1>3, <2>1, <2>2 DEF r
<1> QED
  BY <1>2, <1>3

\* A position below rounds times threads is in one of the rounds.
LEMMA BelowProduct ==
  ASSUME NEW m \in Nat \ {0}, NEW r \in Nat, NEW k \in Nat, r < k, NEW n \in 0 .. m - 1
  PROVE  m * r + n < m * k
<1>1. m * r + m =< m * k
  <2>1. k - r >= 1 /\ k - r \in Nat
    OBVIOUS
  <2>2. m * (k - r) >= m
    BY <2>1
  <2> QED
    BY <2>2
<1> QED
  BY <1>1

-----------------------------------------------------------------------------
(* The condition variable. *)

\* Nothing is written, nobody waits, it is the first thread's turn.
LEMMA CondInit == Init => IInv
<1> SUFFICES ASSUME Init PROVE IInv
  OBVIOUS
<1>1. /\ num = 0 /\ out = <<>> /\ num \in Thread
      /\ pc = [t \in Thread |-> IF ROUNDS = 0 THEN "done" ELSE "lock"]
      /\ left = [t \in Thread |-> ROUNDS]
      /\ ROUNDS \in Nat /\ THRNUM \in Nat
  BY CountAssumption DEF Init, Thread
<1>2. TypeOK
  <2>1. out \in Seq(Thread) /\ Len(out) = 0 /\ THRNUM * ROUNDS \in Nat
    BY <1>1
  <2>2. left \in [Thread -> 0 .. ROUNDS]
    BY <1>1
  <2> QED
    BY <1>1, <2>1, <2>2 DEF TypeOK
<1>3. RoundsAgree
  <2>1. 0 \in 0 .. ROUNDS /\ Len(out) = THRNUM * 0 + num
    BY <1>1
  <2>2. \A t \in Thread : ~(t < num) /\ left[t] = ROUNDS - 0
    BY <1>1 DEF Thread
  <2> QED
    BY <1>1, <2>1, <2>2 DEF RoundsAgree
<1>4. LeftIsDone /\ NotAsleep
  BY <1>1 DEF LeftIsDone, NotAsleep
<1> QED
  BY <1>2, <1>3, <1>4 DEF IInv

\* A thread that prints is not past its last round, and neither is the output.
LEMMA WriteHasRoom ==
  ASSUME IInv, NEW t \in Thread, Write(t)
  PROVE  /\ Len(out) < THRNUM * ROUNDS
         /\ Len(out) % THRNUM = t
         /\ \E r \in Nat : /\ r < ROUNDS /\ Len(out) = THRNUM * r + t
                           /\ \A u \in Thread : left[u] = IF u < t THEN ROUNDS - r - 1
                                                          ELSE ROUNDS - r
<1>1. PICK r \in 0 .. ROUNDS :
        /\ Len(out) = THRNUM * r + num
        /\ \A u \in Thread : left[u] = IF u < num THEN ROUNDS - r - 1 ELSE ROUNDS - r
  BY DEF IInv, RoundsAgree
<1>2. num = t /\ pc[t] = "lock" /\ left[t] # 0 /\ ROUNDS \in Nat /\ THRNUM \in Nat \ {0}
      /\ t \in 0 .. THRNUM - 1
  BY CountAssumption DEF IInv, LeftIsDone, Write, Thread
<1>3. left[t] = ROUNDS - r
  BY <1>1, <1>2
<1>4. r < ROUNDS /\ r \in Nat
  BY <1>2, <1>3
<1>5. Len(out) < THRNUM * ROUNDS
  BY <1>1, <1>2, <1>4, BelowProduct
<1>6. Len(out) % THRNUM = t
  BY <1>1, <1>2, <1>4, Remainder
<1> QED
  BY <1>1, <1>2, <1>4, <1>5, <1>6

\* The thread whose turn it is writes, passes the turn on and wakes all.
LEMMA WriteIInv ==
  ASSUME IInv, NEW t \in Thread, Write(t)
  PROVE  IInv'
<1>1. PICK r \in Nat : /\ r < ROUNDS /\ Len(out) = THRNUM * r + t
                       /\ \A u \in Thread : left[u] = IF u < t THEN ROUNDS - r - 1
                                                      ELSE ROUNDS - r
  BY WriteHasRoom
<1>2. /\ ROUNDS \in Nat /\ THRNUM \in Nat \ {0} /\ t \in 0 .. THRNUM - 1
      /\ Len(out) < THRNUM * ROUNDS /\ out \in Seq(Thread) /\ Len(out) \in Nat
      /\ pc \in [Thread -> {"lock", "wait", "done"}] /\ left \in [Thread -> 0 .. ROUNDS]
  <2>1. Len(out) < THRNUM * ROUNDS
    BY WriteHasRoom
  <2>2. /\ out \in Seq(Thread)
        /\ pc \in [Thread -> {"lock", "wait", "done"}] /\ left \in [Thread -> 0 .. ROUNDS]
    BY DEF IInv, TypeOK
  <2> QED
    BY <2>1, <2>2, CountAssumption DEF Thread
<1>3. /\ num = t /\ num' = IF t + 1 = THRNUM THEN 0 ELSE t + 1
      /\ out' = Append(out, t)
      /\ left' = [left EXCEPT ![t] = left[t] - 1]
      /\ pc[t] = "lock"
      /\ pc' = [u \in Thread |-> IF u = t THEN (IF left[t] = 1 THEN "done" ELSE "lock")
                                 ELSE IF pc[u] = "wait" THEN "lock" ELSE pc[u]]
  BY DEF Write, NextThread
<1>4. out' \in Seq(Thread) /\ Len(out') = Len(out) + 1
  BY <1>2, <1>3
<1>5. /\ left' \in [Thread -> 0 .. ROUNDS]
      /\ \A u \in Thread : left'[u] = IF u =< t THEN ROUNDS - r - 1 ELSE ROUNDS - r
  BY <1>1, <1>2, <1>3 DEF Thread
<1>6. TypeOK'
  <2>1. Len(out') =< THRNUM * ROUNDS
    BY <1>2, <1>4
  <2>2. num' \in Thread
    BY <1>2, <1>3 DEF Thread
  <2>3. pc' \in [Thread -> {"lock", "wait", "done"}]
    BY <1>2, <1>3
  <2> QED
    BY <1>4, <1>5, <2>1, <2>2, <2>3 DEF TypeOK
<1>7. RoundsAgree'
  <2>1. CASE t + 1 = THRNUM
    <3>1. num' = 0 /\ r + 1 \in 0 .. ROUNDS
      BY <1>1, <1>2, <1>3, <2>1
    <3>2. THRNUM * r + t + 1 = THRNUM * (r + 1) + 0
      BY <1>1, <1>2, <2>1
    <3>3. Len(out') = THRNUM * (r + 1) + num'
      BY <1>1, <1>2, <1>4, <3>1, <3>2
    <3>4. \A u \in Thread : left'[u] = IF u < num' THEN ROUNDS - (r + 1) - 1
                                        ELSE ROUNDS - (r + 1)
      BY <1>1, <1>2, <1>5, <2>1, <3>1 DEF Thread
    <3> QED
      BY <3>1, <3>3, <3>4 DEF RoundsAgree
  <2>2. CASE t + 1 # THRNUM
    <3>1. num' = t + 1 /\ r \in 0 .. ROUNDS /\ r < ROUNDS
      BY <1>1, <1>2, <1>3, <2>2
    <3>2. Len(out') = THRNUM * r + num'
      BY <1>1, <1>2, <1>4, <3>1
    <3>3. \A u \in Thread : left'[u] = IF u < num' THEN ROUNDS - r - 1 ELSE ROUNDS - r
      BY <1>2, <1>5, <3>1 DEF Thread
    <3> QED
      BY <3>1, <3>2, <3>3 DEF RoundsAgree
  <2> QED
    BY <2>1, <2>2
<1>8. LeftIsDone'
  BY <1>2, <1>3 DEF IInv, LeftIsDone
<1>9. NotAsleep'
  BY <1>2, <1>3 DEF NotAsleep
<1> QED
  BY <1>6, <1>7, <1>8, <1>9 DEF IInv

\* Each step of 010printabcd_cond.c keeps its invariant.
LEMMA CondNext ==
  ASSUME IInv, [Next]_vars
  PROVE  IInv'
<1>1. ASSUME NEW t \in Thread, Wait(t) \/ SpuriousWakeup(t) PROVE IInv'
  <2>1. /\ UNCHANGED <<num, left, out>>
        /\ pc' \in [Thread -> {"lock", "wait", "done"}]
        /\ \A u \in Thread : pc'[u] = "done" <=> pc[u] = "done"
        /\ \A u \in Thread : pc'[u] = "wait" => pc[u] = "wait" \/ num # u
    BY <1>1 DEF IInv, TypeOK, Wait, SpuriousWakeup
  <2> QED
    BY <2>1 DEF IInv, TypeOK, RoundsAgree, LeftIsDone, NotAsleep
<1>2. CASE UNCHANGED vars
  BY <1>2 DEF vars, IInv, TypeOK, RoundsAgree, LeftIsDone, NotAsleep
<1> QED
  BY <1>1, <1>2, WriteIInv DEF Next, Joined

\* While a letter is missing, it is missing from the thread whose turn it is.
LEMMA CondTurnAwake == IInv => TurnAwake
<1> SUFFICES ASSUME IInv PROVE TurnAwake
  OBVIOUS
<1>1. PICK r \in 0 .. ROUNDS :
        /\ num > 0 => r < ROUNDS
        /\ \A u \in Thread : left[u] = IF u < num THEN ROUNDS - r - 1 ELSE ROUNDS - r
  BY DEF IInv, RoundsAgree
<1>2. num \in Thread /\ THRNUM \in Nat \ {0} /\ ROUNDS \in Nat
  BY CountAssumption DEF IInv, TypeOK
<1>3. ASSUME NEW t \in Thread, left[t] > 0 PROVE left[num] > 0
  BY <1>1, <1>2, <1>3 DEF Thread
<1> QED
  BY <1>3 DEF IInv, NotAsleep, TurnAwake

\* Each step of the program is a turn, or no output.
LEMMA CondTurns == IInv /\ [Next]_vars => [RR!Turn]_out
<1> SUFFICES ASSUME IInv, [Next]_vars PROVE [RR!Turn]_out
  OBVIOUS
<1>1. ASSUME NEW t \in Thread, Write(t) PROVE RR!Turn
  BY <1>1, WriteHasRoom DEF Write, RR!Turn
<1> QED
  BY <1>1 DEF Next, Joined, Wait, SpuriousWakeup, vars

-----------------------------------------------------------------------------
(* The chain of mutexes. *)

\* main holds every mutex of the chain.
LEMMA ChainInit == Chain!Init => Chain!IInv
  BY CountAssumption, LimitAssumption
     DEF Chain!Init, Chain!IInv, Chain!TypeOK, Chain!NotOpened, Chain!Thread

\* main's loop and its unlock, which puts the permission at thread 0.
LEMMA ChainMain ==
  ASSUME Chain!IInv, Chain!Create \/ Chain!Open
  PROVE  Chain!IInv'
<1>1. CASE Chain!Create
  <2>1. created \in Chain!Thread /\ created + 1 \in 0 .. THRNUM
    BY <1>1, CountAssumption DEF Chain!Create, Chain!IInv, Chain!TypeOK, Chain!Thread
  <2>2. ~opened
    BY <1>1, <2>1 DEF Chain!Create, Chain!IInv, Chain!Opened, Chain!Thread
  <2>3. Chain!TypeOK'
    BY <1>1, <2>1 DEF Chain!Create, Chain!IInv, Chain!TypeOK
  <2>4. Chain!NotOpened'
    BY <1>1, <2>1, <2>2, CountAssumption
       DEF Chain!Create, Chain!IInv, Chain!TypeOK, Chain!NotOpened, Chain!Thread
  <2> QED
    BY <1>1, <2>2, <2>3, <2>4 DEF Chain!Create, Chain!IInv
<1>2. CASE Chain!Open
  <2>1. Chain!NotOpened /\ Chain!TypeOK /\ created = THRNUM /\ opened' = TRUE
        /\ UNCHANGED <<created, chainPc, chainOut>>
        /\ locked' = [locked EXCEPT ![0] = FALSE]
    BY <1>2 DEF Chain!Open, Chain!IInv
  <2>2. Chain!TypeOK'
    BY <2>1 DEF Chain!TypeOK
  <2>3. 0 \in Chain!Thread /\ Len(chainOut') % THRNUM = 0
    BY <2>1, CountAssumption DEF Chain!NotOpened, Chain!Thread
  <2>4. /\ \A u \in Chain!Thread : u # 0 => locked'[u] /\ chainPc'[u] = "lock"
        /\ ~locked'[0] /\ chainPc'[0] = "lock"
    BY <2>1, <2>3, CountAssumption DEF Chain!TypeOK, Chain!NotOpened, Chain!Thread
  <2>5. Chain!Opened'
    BY <2>1, <2>3, <2>4 DEF Chain!Opened
  <2> QED
    BY <2>1, <2>2, <2>5 DEF Chain!IInv
<1> QED
  BY <1>1, <1>2

\* A thread that locks, prints or unlocks is the one with the permission.
LEMMA ChainHolder ==
  ASSUME Chain!IInv, NEW t \in Chain!Thread,
         \/ chainPc[t] \in {"print", "unlock"}
         \/ chainPc[t] = "lock" /\ ~locked[t]
  PROVE  /\ opened /\ created = THRNUM /\ Chain!TypeOK
         /\ \A u \in Chain!Thread : u # t => locked[u] /\ chainPc[u] = "lock"
         /\ chainPc[t] # "lock" => locked[t]
         /\ chainPc[t] \in {"lock", "print"} => t = Len(chainOut) % THRNUM
         /\ chainPc[t] = "unlock" => Chain!NextThread(t) = Len(chainOut) % THRNUM
<1>1. opened
  BY DEF Chain!IInv, Chain!NotOpened
<1>2. PICK h \in Chain!Thread :
        /\ \A u \in Chain!Thread : u # h => locked[u] /\ chainPc[u] = "lock"
        /\ \/ ~locked[h] /\ chainPc[h] = "lock" /\ h = Len(chainOut) % THRNUM
           \/ locked[h] /\ chainPc[h] = "print" /\ h = Len(chainOut) % THRNUM
           \/ locked[h] /\ chainPc[h] = "unlock"
                /\ Chain!NextThread(h) = Len(chainOut) % THRNUM
  BY <1>1 DEF Chain!IInv, Chain!Opened
<1>3. h = t
  BY <1>2
<1> QED
  BY <1>1, <1>2, <1>3 DEF Chain!IInv, Chain!Opened

\* A thread's lock, letter or unlock of the next mutex keeps the invariant.
LEMMA ChainThread ==
  ASSUME Chain!IInv, NEW t \in Chain!Thread,
         Chain!Lock(t) \/ Chain!Write(t) \/ Chain!Unlock(t)
  PROVE  Chain!IInv'
<1>1. CASE Chain!Lock(t)
  <2>1. /\ opened /\ created = THRNUM /\ Chain!TypeOK
        /\ \A u \in Chain!Thread : u # t => locked[u] /\ chainPc[u] = "lock"
        /\ t = Len(chainOut) % THRNUM
    BY <1>1, ChainHolder DEF Chain!Lock
  <2>2. Chain!TypeOK'
    BY <1>1, <2>1 DEF Chain!Lock, Chain!TypeOK
  <2>3. Chain!Opened'
    BY <1>1, <2>1 DEF Chain!Lock, Chain!TypeOK, Chain!Opened
  <2> QED
    BY <1>1, <2>1, <2>2, <2>3 DEF Chain!Lock, Chain!IInv
<1>2. CASE Chain!Write(t)
  <2>1. /\ opened /\ created = THRNUM /\ Chain!TypeOK
        /\ \A u \in Chain!Thread : u # t => locked[u] /\ chainPc[u] = "lock"
        /\ locked[t] /\ t = Len(chainOut) % THRNUM
    BY <1>2, ChainHolder DEF Chain!Write
  <2>2. chainOut' \in Seq(Chain!Thread) /\ Len(chainOut') = Len(chainOut) + 1
        /\ Len(chainOut) \in Nat
    BY <1>2, <2>1 DEF Chain!Write, Chain!TypeOK
  <2>3. Chain!TypeOK'
    BY <1>2, <2>1, <2>2, LimitAssumption DEF Chain!Write, Chain!TypeOK
  <2>4. Chain!NextThread(t) = Len(chainOut') % THRNUM
    BY <2>1, <2>2, TurnPasses, CountAssumption DEF Chain!NextThread
  <2>5. Chain!Opened'
    BY <1>2, <2>1, <2>4 DEF Chain!Write, Chain!TypeOK, Chain!Opened
  <2> QED
    BY <1>2, <2>1, <2>3, <2>5 DEF Chain!Write, Chain!IInv
<1>3. CASE Chain!Unlock(t)
  <2> DEFINE n == Chain!NextThread(t)
  <2>1. /\ opened /\ created = THRNUM /\ Chain!TypeOK
        /\ \A u \in Chain!Thread : u # t => locked[u] /\ chainPc[u] = "lock"
        /\ locked[t] /\ n = Len(chainOut) % THRNUM
    BY <1>3, ChainHolder DEF Chain!Unlock
  <2>2. n \in Chain!Thread
    BY CountAssumption DEF Chain!NextThread, Chain!Thread
  <2>3. /\ locked' = [locked EXCEPT ![n] = FALSE]
        /\ chainPc' = [chainPc EXCEPT ![t] = "lock"]
        /\ UNCHANGED <<created, opened, chainOut>>
    BY <1>3 DEF Chain!Unlock
  <2> HIDE DEF n
  <2>4. Chain!TypeOK'
    BY <2>1, <2>3 DEF Chain!TypeOK
  <2>5. /\ \A u \in Chain!Thread : u # n => locked'[u] /\ chainPc'[u] = "lock"
        /\ ~locked'[n] /\ chainPc'[n] = "lock"
    BY <2>1, <2>2, <2>3 DEF Chain!TypeOK
  <2>6. Chain!Opened'
    BY <2>1, <2>2, <2>3, <2>5 DEF Chain!Opened
  <2> QED
    BY <2>1, <2>3, <2>4, <2>6 DEF Chain!IInv
<1> QED
  BY <1>1, <1>2, <1>3

\* Each step of 007printabcd.c keeps its invariant.
LEMMA ChainNext ==
  ASSUME Chain!IInv, Chain!Next \/ UNCHANGED chainVars
  PROVE  Chain!IInv'
<1>1. CASE UNCHANGED chainVars
  BY <1>1 DEF chainVars, Chain!IInv, Chain!TypeOK, Chain!NotOpened, Chain!Opened
<1> QED
  BY <1>1, ChainMain, ChainThread DEF Chain!Next

\* The invariant of the chain has one permission in it.
LEMMA ChainOnePermission == Chain!IInv => Chain!OnePermission
<1> SUFFICES ASSUME Chain!IInv PROVE Chain!OnePermission
  OBVIOUS
<1> DEFINE open == {t \in Chain!Thread : t < created /\ ~locked[t]}
           inside == {t \in Chain!Thread : chainPc[t] \in {"print", "unlock"}}
<1>1. CASE ~opened
  <2>1. open = {} /\ inside = {}
    BY <1>1 DEF Chain!IInv, Chain!NotOpened
  <2> QED
    BY <1>1, <2>1 DEF Chain!OnePermission
<1>2. CASE opened
  <2>1. PICK h \in Chain!Thread :
          /\ \A u \in Chain!Thread : u # h => locked[u] /\ chainPc[u] = "lock"
          /\ \/ ~locked[h] /\ chainPc[h] = "lock"
             \/ locked[h] /\ chainPc[h] \in {"print", "unlock"}
    BY <1>2 DEF Chain!IInv, Chain!Opened
  <2>2. h < created
    BY <1>2, CountAssumption DEF Chain!IInv, Chain!Opened, Chain!Thread
  <2>3. \/ open = {h} /\ inside = {}
        \/ open = {} /\ inside = {h}
    BY <2>1, <2>2
  <2> HIDE DEF open, inside
  <2>4. /\ \A t, u \in open : t = u
        /\ \A t, u \in inside : t = u
        /\ open = {} \/ inside = {}
        /\ opened <=> open \cup inside # {}
    BY <1>2, <2>3
  <2> QED
    BY <2>4 DEF Chain!OnePermission, open, inside
<1> QED
  BY <1>1, <1>2

\* Each step of the program is a turn, or no output.
LEMMA ChainTurns ==
  ASSUME Chain!IInv, Chain!Next \/ UNCHANGED chainVars
  PROVE  [Chain!RR!Turn]_chainOut
<1>1. ASSUME NEW t \in Chain!Thread, Chain!Write(t) PROVE Chain!RR!Turn
  BY <1>1, ChainHolder DEF Chain!Write, Chain!RR!Turn
<1> QED
  BY <1>1 DEF Chain!Next, Chain!Create, Chain!Open, Chain!Lock, Chain!Unlock, chainVars

-----------------------------------------------------------------------------
(* The pipe. *)

\* MyPipe counts with the same Cardinality.
LEMMA SameCardinality == \A S : Pipe!Cardinality(S) = Cardinality(S)
  BY DEF Pipe!Cardinality, Cardinality

Ops == {Pipe!READ, Pipe!WRITE}

\* There are finitely many peers.
LEMMA PeersFinite ==
  ASSUME NEW S \in SUBSET Thread
  PROVE  /\ IsFiniteSet(S) /\ Cardinality(S) \in Nat
         /\ Cardinality(S) = 0 <=> S = {}
<1>1. IsFiniteSet(Thread)
  BY FS_Interval, CountAssumption DEF Thread
<1> QED
  BY <1>1, FS_Subset, FS_CardinalityType, FS_EmptySet

\* The peers there for one side are finitely many, and none if their number is 0.
LEMMA PresentFinite ==
  ASSUME NEW op
  PROVE  /\ IsFiniteSet(Pipe!Present(op)) /\ Cardinality(Pipe!Present(op)) \in Nat
         /\ Cardinality(Pipe!Present(op)) = 0 <=> Pipe!Present(op) = {}
<1>1. Pipe!Present(op) \in SUBSET Thread
  BY DEF Pipe!Present
<1> QED
  BY <1>1, PeersFinite

\* The pipe starts with nobody registered.
LEMMA PipeInit == Pipe!Init => Pipe!IInv
<1> SUFFICES ASSUME Pipe!Init PROVE Pipe!IInv
  OBVIOUS
<1>1. Pipe!Present(Pipe!READ) = {} /\ Pipe!Present(Pipe!WRITE) = {}
  BY DEF Pipe!Init, Pipe!Present
<1>2. Pipe!PipeAwake
  BY <1>1, FS_EmptySet, SameCardinality DEF Pipe!Init, Pipe!PipeAwake
<1>3. Pipe!TypeOK
  BY DEF Pipe!Init, Pipe!TypeOK
<1> QED
  BY <1>2, <1>3 DEF Pipe!IInv

\* A peer that registers is counted for what it registers for ...
LEMMA RegisterCounts ==
  ASSUME Pipe!IInv, NEW p \in Thread, at[p] = "out",
         NEW map \in SUBSET Ops, opmap' = [opmap EXCEPT ![p] = map],
         at' = [at EXCEPT ![p] = "registering"] \/ at' = [at EXCEPT ![p] = "in"],
         NEW op
  PROVE  Cardinality(Pipe!Present(op)') =
           Cardinality(Pipe!Present(op)) + Pipe!Bit(op, map)
<1>1. p \notin Pipe!Present(op)
  BY DEF Pipe!IInv, Pipe!TypeOK, Pipe!Present
<1>2. opmap'[p] = map /\ at'[p] # "left"
      /\ \A q \in Thread : q # p => opmap'[q] = opmap[q] /\ at'[q] = at[q]
  BY DEF Pipe!IInv, Pipe!TypeOK
<1>3. CASE op \in map
  <2>1. Pipe!Present(op)' = Pipe!Present(op) \cup {p}
    BY <1>2, <1>3 DEF Pipe!Present
  <2> QED
    BY <1>1, <1>3, <2>1, PresentFinite, FS_AddElement DEF Pipe!Bit
<1>4. CASE op \notin map
  <2>1. Pipe!Present(op)' = Pipe!Present(op)
    BY <1>1, <1>2, <1>4 DEF Pipe!Present
  <2> QED
    BY <1>4, <2>1, PresentFinite DEF Pipe!Bit
<1> QED
  BY <1>3, <1>4

\* ... and no longer when it leaves.
LEMMA UnregisterCounts ==
  ASSUME Pipe!IInv, NEW p \in Thread, Pipe!mypipe_unregister(p), NEW op
  PROVE  Cardinality(Pipe!Present(op)') =
           Cardinality(Pipe!Present(op)) - Pipe!Bit(op, opmap[p])
<1>1. /\ opmap' = opmap /\ at[p] = "in" /\ at'[p] = "left"
      /\ \A q \in Thread : q # p => at'[q] = at[q]
  BY DEF Pipe!mypipe_unregister, Pipe!IInv, Pipe!TypeOK
<1>2. Pipe!Present(op)' = Pipe!Present(op) \ {p}
  BY <1>1 DEF Pipe!Present
<1>3. p \in Pipe!Present(op) <=> op \in opmap[p]
  BY <1>1 DEF Pipe!Present
<1>4. IsFiniteSet(Pipe!Present(op)) /\ Cardinality(Pipe!Present(op)) \in Nat
  BY PresentFinite
<1>5. Cardinality(Pipe!Present(op) \ {p}) =
        IF p \in Pipe!Present(op) THEN Cardinality(Pipe!Present(op)) - 1
        ELSE Cardinality(Pipe!Present(op))
  BY <1>4, FS_RemoveElement
<1> QED
  BY <1>2, <1>3, <1>4, <1>5 DEF Pipe!Bit

\* mypipe_register counts its caller and wakes those that wait for it.
LEMMA RegisterIInv ==
  ASSUME Pipe!IInv, NEW p \in Thread, Pipe!mypipe_register(p)
  PROVE  Pipe!IInv'
<1>1. PICK map \in {{Pipe!READ}, {Pipe!WRITE}, Ops} :
        /\ opmap' = [opmap EXCEPT ![p] = map]
        /\ count_rd' = count_rd + Pipe!Bit(Pipe!READ, map)
        /\ count_wd' = count_wd + Pipe!Bit(Pipe!WRITE, map)
  BY DEF Pipe!mypipe_register, Ops
<1>2. map \in SUBSET Ops /\ at[p] = "out" /\ UNCHANGED me
  BY DEF Pipe!mypipe_register, Ops
<1>3. \/ Pipe!Alone' /\ at' = [at EXCEPT ![p] = "registering"] /\ asleep' = {p}
      \/ ~Pipe!Alone' /\ at' = [at EXCEPT ![p] = "in"] /\ asleep' = {}
  BY DEF Pipe!mypipe_register
<1>4. /\ count_rd' = Cardinality(Pipe!Present(Pipe!READ)')
      /\ count_wd' = Cardinality(Pipe!Present(Pipe!WRITE)')
  BY <1>1, <1>2, <1>3, RegisterCounts, SameCardinality DEF Pipe!IInv, Pipe!PipeAwake
<1>5. Pipe!TypeOK'
  BY <1>1, <1>2, <1>3 DEF Pipe!IInv, Pipe!TypeOK, Ops
<1>6. Pipe!PipeAwake'
  <2>1. CASE asleep' = {}
    BY <1>4, <2>1, SameCardinality DEF Pipe!PipeAwake
  <2>2. CASE Pipe!Alone' /\ asleep' = {p} /\ at'[p] = "registering"
    <3>1. count_rd' <= 0 \/ count_wd' <= 0
      BY <2>2 DEF Pipe!Alone
    <3>2. \A op : /\ Cardinality(Pipe!Present(op)') \in Nat
                  /\ Cardinality(Pipe!Present(op)') = 0 <=> Pipe!Present(op)' = {}
      <4>1. \A op : Pipe!Present(op)' \in SUBSET Thread
        BY DEF Pipe!Present
      <4> QED
        BY <4>1, PeersFinite
    <3>3. Pipe!Present(Pipe!READ)' = {} \/ Pipe!Present(Pipe!WRITE)' = {}
      BY <1>4, <3>1, <3>2
    <3> QED
      BY <1>4, <2>2, <3>3, SameCardinality DEF Pipe!PipeAwake
  <2> QED
    BY <1>3, <2>1, <2>2 DEF Pipe!IInv, Pipe!TypeOK
<1> QED
  BY <1>5, <1>6 DEF Pipe!IInv

\* mypipe_unregister uncounts its caller and wakes all that wait.
LEMMA UnregisterIInv ==
  ASSUME Pipe!IInv, NEW p \in Thread, Pipe!mypipe_unregister(p)
  PROVE  Pipe!IInv'
<1>1. asleep' = {} /\ Pipe!TypeOK'
  BY DEF Pipe!mypipe_unregister, Pipe!IInv, Pipe!TypeOK
<1>2. /\ count_rd' = Cardinality(Pipe!Present(Pipe!READ)')
      /\ count_wd' = Cardinality(Pipe!Present(Pipe!WRITE)')
  BY UnregisterCounts, SameCardinality DEF Pipe!mypipe_unregister, Pipe!IInv, Pipe!PipeAwake
<1> QED
  BY <1>1, <1>2, SameCardinality DEF Pipe!IInv, Pipe!PipeAwake

\* The steps that neither register nor unregister change no count, and lay
\* nobody to sleep but p, with reason.
LEMMA WaitIInv ==
  ASSUME Pipe!IInv, Pipe!TypeOK', NEW p \in Thread,
         UNCHANGED <<count_rd, count_wd, opmap>>,
         \A q \in Thread : at'[q] = "left" <=> at[q] = "left",
         \A q \in asleep' : q = p \/ (q \in asleep /\ at'[q] = at[q]),
         p \in asleep' => \/ at'[p] = "registering" /\ Pipe!Alone
                          \/ at'[p] = "reading" /\ count_wd > 0
                          \/ p \in asleep /\ at'[p] = at[p]
  PROVE  Pipe!IInv'
<1>1. \A op : Pipe!Present(op)' = Pipe!Present(op)
  BY DEF Pipe!Present
<1>2. \A op : /\ Cardinality(Pipe!Present(op)) \in Nat
              /\ Cardinality(Pipe!Present(op)) = 0 <=> Pipe!Present(op) = {}
  BY PresentFinite
<1>3. /\ count_rd = Cardinality(Pipe!Present(Pipe!READ))
      /\ count_wd = Cardinality(Pipe!Present(Pipe!WRITE))
  BY SameCardinality DEF Pipe!IInv, Pipe!PipeAwake
<1>4. /\ Pipe!Alone => \/ Pipe!Present(Pipe!READ) = {} \/ Pipe!Present(Pipe!WRITE) = {}
      /\ count_wd > 0 => Pipe!Present(Pipe!WRITE) # {}
  BY <1>2, <1>3 DEF Pipe!Alone
<1>5. ASSUME NEW q \in asleep'
      PROVE  CASE at'[q] = "registering" ->
                    Pipe!Present(Pipe!READ) = {} \/ Pipe!Present(Pipe!WRITE) = {}
               [] at'[q] = "reading" -> Pipe!Present(Pipe!WRITE) # {}
  BY <1>4 DEF Pipe!IInv, Pipe!PipeAwake
<1> QED
  BY <1>1, <1>3, <1>5, SameCardinality DEF Pipe!IInv, Pipe!PipeAwake

\* Each step of a peer of mypipe.c keeps the invariant.
LEMMA PipeNext ==
  ASSUME Pipe!IInv, Pipe!Next \/ UNCHANGED pipeVars
  PROVE  Pipe!IInv'
<1>1. ASSUME NEW p \in Thread,
             Pipe!mypipt_read(p) \/ Pipe!Runs(p) \/ Pipe!SpuriousWakeup(p)
      PROVE  Pipe!IInv'
  <2>1. Pipe!TypeOK'
    BY <1>1 DEF Pipe!mypipt_read, Pipe!Runs, Pipe!RegisterWakes, Pipe!ReadWakes,
       Pipe!ReadWaits, Pipe!SpuriousWakeup, Pipe!IInv, Pipe!TypeOK
  <2>2. /\ UNCHANGED <<count_rd, count_wd, opmap>>
        /\ \A q \in Thread : at'[q] = "left" <=> at[q] = "left"
        /\ \A q \in asleep' : q = p \/ (q \in asleep /\ at'[q] = at[q])
        /\ p \in asleep' => \/ at'[p] = "registering" /\ Pipe!Alone
                            \/ at'[p] = "reading" /\ count_wd > 0
                            \/ p \in asleep /\ at'[p] = at[p]
    BY <1>1 DEF Pipe!mypipt_read, Pipe!Runs, Pipe!RegisterWakes, Pipe!ReadWakes,
       Pipe!ReadWaits, Pipe!SpuriousWakeup, Pipe!IInv, Pipe!TypeOK
  <2> QED
    BY <2>1, <2>2, WaitIInv
<1>2. CASE Pipe!mypipe_init \/ Pipe!mypipe_destroy \/ UNCHANGED pipeVars
  <2>1. Pipe!TypeOK' /\ UNCHANGED <<count_rd, count_wd, opmap, at, asleep>>
    BY <1>2 DEF Pipe!mypipe_init, Pipe!mypipe_destroy, pipeVars, Pipe!IInv, Pipe!TypeOK
  <2> QED
    BY <2>1 DEF Pipe!IInv, Pipe!PipeAwake, Pipe!Present
<1> QED
  BY <1>1, <1>2, RegisterIInv, UnregisterIInv DEF Pipe!Next

-----------------------------------------------------------------------------
(* The programs together. *)

AllIInv == IInv /\ Chain!IInv /\ Pipe!IInv

\* Whichever program runs, its invariant holds.
THEOREM TurnsInvariant == TurnsSpec => []AllIInv
<1>1. TurnsInit => AllIInv
  BY CondInit, ChainInit, PipeInit DEF TurnsInit, AllIInv
<1>2. AllIInv /\ [TurnsNext]_turnVars => AllIInv'
  <2> SUFFICES ASSUME AllIInv, [TurnsNext]_turnVars PROVE AllIInv'
    OBVIOUS
  <2>1. /\ [Next]_vars
        /\ Chain!Next \/ UNCHANGED chainVars
        /\ Pipe!Next \/ UNCHANGED pipeVars
    BY DEF TurnsNext, CondRuns, ChainRuns, PipeRuns, turnVars
  <2> QED
    BY <2>1, CondNext, ChainNext, PipeNext DEF AllIInv
<1> QED
  BY <1>1, <1>2, PTL DEF TurnsSpec

\* The thread whose turn it is never sleeps, and never has left while letters
\* are missing: the broadcast of 010printabcd_cond.c loses no wake-up.
THEOREM TurnNeverMissed == TurnsSpec => []TurnAwake
<1>1. AllIInv => TurnAwake
  BY CondTurnAwake DEF AllIInv
<1> QED
  BY <1>1, TurnsInvariant, PTL

\* One permission goes round the chain of mutexes of 007printabcd.c.
THEOREM PermissionUnique == TurnsSpec => []OnePermission
<1>1. AllIInv => OnePermission
  BY ChainOnePermission DEF AllIInv, OnePermission
<1> QED
  BY <1>1, TurnsInvariant, PTL

\* Nobody sleeps in mypipe.c through what it waits for, and its counts are
\* those of the peers that are there.
THEOREM PipeSound == TurnsSpec => []PipeAwake
<1>1. AllIInv => PipeAwake
  BY DEF AllIInv, Pipe!IInv, PipeAwake
<1> QED
  BY <1>1, TurnsInvariant, PTL

\* Both printing programs implement RoundRobin: the output is abcdabcd...
THEOREM OutputInTurn == TurnsSpec => BothInTurn
<1>1. TurnsInit => RR!Init /\ Chain!RR!Init
  BY DEF TurnsInit, Init, Chain!Init, RR!Init, Chain!RR!Init
<1>2. AllIInv /\ [TurnsNext]_turnVars => [RR!Turn]_out /\ [Chain!RR!Turn]_chainOut
  <2> SUFFICES ASSUME AllIInv, [TurnsNext]_turnVars
               PROVE  [RR!Turn]_out /\ [Chain!RR!Turn]_chainOut
    OBVIOUS
  <2>1. [Next]_vars /\ (Chain!Next \/ UNCHANGED chainVars)
    BY DEF TurnsNext, CondRuns, ChainRuns, PipeRuns, turnVars
  <2> QED
    BY <2>1, CondTurns, ChainTurns DEF AllIInv
<1> QED
  BY <1>1, <1>2, TurnsInvariant, PTL
     DEF TurnsSpec, BothInTurn, InTurn, Chain!InTurn, RR!Spec, Chain!RR!Spec
=============================================================================
