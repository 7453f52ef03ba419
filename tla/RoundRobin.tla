----------------------------- MODULE RoundRobin -----------------------------
(***************************************************************************)
(* THRNUM printers take turns: character n (from 0) of the output is the   *)
(* one of thread n % THRNUM, so the output reads abcdabcd...               *)
(***************************************************************************)
EXTENDS Integers, Sequences

CONSTANTS THRNUM, \* printers
          Limit   \* characters printed at most

VARIABLE out      \* the threads in the order they printed

Init == out = <<>>

Turn == /\ Len(out) < Limit
        /\ out' = Append(out, Len(out) % THRNUM)

Spec == Init /\ [][Turn]_out
=============================================================================
