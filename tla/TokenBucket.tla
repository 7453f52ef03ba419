---------------------------- MODULE TokenBucket ----------------------------
(***************************************************************************)
(* What the token-bucket library promises its callers, without threads,    *)
(* mutexes or a registry: a set of open buckets, each with a level between *)
(* 0 and its burst.  Tokens appear at most cps at a time, a caller takes   *)
(* at least one and at most what there is, and gives back what it did not  *)
(* use.  This is the interface of mytbf.h.                                 *)
(***************************************************************************)
EXTENDS Integers

CONSTANTS Bucket,   \* the buckets that can be opened
          MaxCps,   \* largest rate mytbf_init is called with
          MaxBurst, \* largest burst mytbf_init is called with
          MaxSize   \* largest size asked for or given back

VARIABLES open,     \* the buckets between mytbf_init and mytbf_destory
          level,    \* tokens in each bucket
          cps,      \* tokens added to each bucket per second
          burst     \* most tokens a bucket keeps

bucketVars == <<open, level, cps, burst>>

Clamp(n, limit) == IF n > limit THEN limit ELSE n

\* No bucket is open; what a closed one is prepared for may be anything.
Init == /\ open = {}
        /\ level = [b \in Bucket |-> 0]
        /\ cps \in [Bucket -> 1 .. MaxCps]
        /\ burst \in [Bucket -> 1 .. MaxBurst]

\* The rate and burst are fixed while the bucket is open; it opens empty.
Open(b) ==
  /\ b \notin open
  /\ open' = open \cup {b}
  /\ level[b] = 0
  /\ UNCHANGED <<level, cps, burst>>

\* A closed bucket is storage that the library may prepare for its next use.
Prepare(b) ==
  /\ b \notin open
  /\ level' = [level EXCEPT ![b] = 0]
  /\ \E c \in 1 .. MaxCps : cps' = [cps EXCEPT ![b] = c]
  /\ \E u \in 1 .. MaxBurst : burst' = [burst EXCEPT ![b] = u]
  /\ UNCHANGED open

Close(b) ==
  /\ b \in open
  /\ open' = open \ {b}
  /\ UNCHANGED <<level, cps, burst>>

Credit(b) ==
  /\ b \in open
  /\ level' = [level EXCEPT ![b] = Clamp(@ + cps[b], burst[b])]
  /\ UNCHANGED <<open, cps, burst>>

Take(b, n) ==
  /\ b \in open
  /\ n \in 1 .. level[b]
  /\ level' = [level EXCEPT ![b] = @ - n]
  /\ UNCHANGED <<open, cps, burst>>

GiveBack(b, n) ==
  /\ b \in open
  /\ level' = [level EXCEPT ![b] = Clamp(@ + n, burst[b])]
  /\ UNCHANGED <<open, cps, burst>>

Next == \E b \in Bucket :
          \/ Open(b) \/ Prepare(b) \/ Close(b) \/ Credit(b)
          \/ \E n \in 1 .. MaxSize : Take(b, n) \/ GiveBack(b, n)

Spec == Init /\ [][Next]_bucketVars
=============================================================================
