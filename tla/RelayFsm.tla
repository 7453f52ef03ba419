------------------------------ MODULE RelayFsm ------------------------------
(***************************************************************************)
(* fsm_driver: the state machine that moves bytes from sfd to dfd through  *)
(* a buffer.  The k-th byte the source delivers is the number k, so buf is *)
(* the interval start+1 .. start+pos+len; out is what was written to dfd.  *)
(* A step of the machine is the set of machines it may become: the kernel  *)
(* decides what read and write return.                                     *)
(***************************************************************************)
EXTENDS Integers, Sequences

CONSTANTS BUFSIZE,  \* size of buf
          MaxBytes  \* bound on the bytes a source delivers

ASSUME BufferAssumption == BUFSIZE \in Nat \ {0} /\ MaxBytes \in Nat

FsmState == {"R", "W", "Ex", "T"}

Fsm == [state : FsmState, start : Nat, pos : Nat, len : Nat, out : Seq(Nat)]

NewFsm == [state |-> "R", start |-> 0, pos |-> 0, len |-> 0, out |-> <<>>]

\* Mutant: write(dfd, buf, len) instead of buf + pos.
ChunkFromStart(f, n) == [k \in 1 .. n |-> f.start + k]

\* The bytes start+pos+1 .. start+pos+n, in order.
Chunk(f, n) == [k \in 1 .. n |-> f.start + f.pos + k]

\* STATE_R: end of file, a true error, or n bytes.
ReadOutcomes(f) ==
  LET consumed == f.start + f.pos IN
  {[f EXCEPT !.state = "T"], [f EXCEPT !.state = "Ex"]}
  \cup {[f EXCEPT !.state = "W", !.start = consumed, !.pos = 0, !.len = n] :
          n \in {m \in 1 .. BUFSIZE : consumed + m =< MaxBytes}}

\* STATE_W: a true error, or n of the len bytes written.
WriteOutcomes(f) ==
  {[f EXCEPT !.state = "Ex"]}
  \cup {[f EXCEPT !.state = IF n = f.len THEN "R" ELSE "W",
                  !.pos = f.pos + n, !.len = f.len - n,
                  !.out = f.out \o Chunk(f, n)] : n \in 0 .. f.len}

\* One fsm_driver call that does not abort; EAGAIN leaves the machine as it is.
Driven(f) == CASE f.state = "R"  -> {f} \cup ReadOutcomes(f)
               [] f.state = "W"  -> {f} \cup WriteOutcomes(f)
               [] f.state = "Ex" -> {[f EXCEPT !.state = "T"]}
               [] f.state = "T"  -> {}

\* The call aborts the process: case STATE_T.
Aborts(f) == f.state = "T"

\* What was written is what was read, in order, without gap or repetition,
\* and all of it when the machine goes back to reading.
Faithful(f) == /\ \A k \in 1 .. Len(f.out) : f.out[k] = k
               /\ Len(f.out) = f.start + f.pos
               /\ f.state = "R" => f.len = 0
=============================================================================
