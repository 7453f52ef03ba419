------------------------------- MODULE Copies -------------------------------
(***************************************************************************)
(* The copying programs without a timer.  Those on read and write have     *)
(* main's steps of PacedCopy; a call that a signal interrupts is made      *)
(* again in 003signalmycopy.c and 007mycat.c and is an error in mycopy.c.  *)
(* Those on stdio take the end of the file and an error for the same, and  *)
(* never look at what the output functions return.                         *)
(***************************************************************************)
EXTENDS PacedCopy

others == <<counts, timer, n, bucket>>

\* The arguments and the source; then the target, or none.
OpenSource(next) ==
  /\ pc = "start"
  /\ \/ pc' = next /\ UNCHANGED status
     \/ Fail
  /\ UNCHANGED <<others, copy>>

Again == pc = "test" /\ pc' = "read" /\ UNCHANGED <<others, copy, status>>

CopyLoop == Again \/ Read(BUFSIZE, "write", "exit") \/ Write \/ Exit

\* main of each program.  O_TRUNC is passed for the mode: the target is not
\* truncated.
mycopy == OpenSource("open") \/ Open \/ CopyLoop
signalmycopy == OpenSource("open") \/ Open \/ CopyLoop
mycat == OpenSource("test") \/ CopyLoop
-----------------------------------------------------------------------------
\* One round of the loop on stdio: a piece comes in, of a length in the domain
\* of kept, and kept of it goes out, or is lost in an error nobody looks at.
Piece(kept) ==
  /\ pc = "test"
  /\ \/ \E k \in DOMAIN kept :
          /\ got + k =< MaxBytes /\ got' = got + k
          /\ out' \in {out} \cup {out + j : j \in kept[k]}
          /\ UNCHANGED pc
     \/ pc' = "exit" /\ UNCHANGED <<got, out>>
  /\ UNCHANGED <<others, len, status>>

\* fgetc, fputc
mycopy_fgetc == OpenSource("open") \/ Open \/ Piece(<<{1}>>) \/ Exit

\* fgets, fputs: a line of BUFSIZE - 1 bytes at most, up to its first NUL
mycopy_fgets == OpenSource("open") \/ Open \/ Piece([k \in 1 .. BUFSIZE - 1 |-> 0 .. k]) \/ Exit

\* n = fread(...) > 0 is 1: one byte of each buffer is written
mycopy_fread == OpenSource("open") \/ Open \/ Piece([k \in 1 .. BUFSIZE |-> {1}]) \/ Exit

\* 05httpdownload: fread from the connection, fwrite to stdout
download == OpenSource("test") \/ Piece([k \in 1 .. BUFSIZE |-> 0 .. k]) \/ Exit
=============================================================================
