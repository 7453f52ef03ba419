------------------------------- MODULE Stars -------------------------------
(***************************************************************************)
(* The exercises on signal masks, which print stars and, in the handler,   *)
(* an exclamation mark: 002star.c (no mask), 011block.c (SIGINT blocked    *)
(* during a row), 012susp.c (blocked but in sigsuspend) and 014susp_rt.c   *)
(* (the same with a real-time signal, which queues).  A signal that is     *)
(* pending and not blocked is handled before the program's next step.      *)
(***************************************************************************)
EXTENDS Integers

CONSTANTS STARS,   \* of a row (5; all 10 in 002star.c)
          ROWS,    \* 100
          MaxSent  \* bound on the signals sent

VARIABLES exercise, \* star, block, susp or rt
          place,    \* start, row, suspend, ended or killed
          mask,     \* the signal is blocked
          pending, sent,
          bangs, stars, rows,
          torn      \* history: a ! came inside a row

starVars == <<exercise, place, mask, pending, sent, bangs, stars, rows, torn>>
printed == <<bangs, stars, rows, torn>>

Init == /\ exercise \in {"star", "block", "susp", "rt"}
        /\ place = "start" /\ mask = FALSE /\ torn = FALSE
        /\ pending = 0 /\ sent = 0 /\ bangs = 0 /\ stars = 0 /\ rows = 0

Alive == place \notin {"ended", "killed"}

\* kill: a standard signal that is pending already is lost; before signal()
\* the default action ends the process.
Send == /\ Alive /\ sent < MaxSent
        /\ sent' = sent + 1
        /\ IF place = "start" THEN place' = "killed" /\ UNCHANGED pending
           ELSE /\ pending' = IF exercise = "rt" THEN pending + 1 ELSE 1
                /\ UNCHANGED place
        /\ UNCHANGED <<exercise, mask, printed>>

Due == Alive /\ pending > 0 /\ (~mask \/ place = "suspend")

\* The handler; it brings the process out of sigsuspend, its mask restored.
handler == /\ Due
           /\ pending' = IF exercise = "rt" THEN pending - 1 ELSE 0
           /\ bangs' = bangs + 1 /\ torn' = (torn \/ stars > 0)
           /\ place' = IF place = "suspend" THEN "row" ELSE place
           /\ UNCHANGED <<exercise, mask, sent, stars, rows>>

\* signal(), and SIG_BLOCK where the whole loop runs with it.
Install(e) == /\ exercise = e /\ place = "start" /\ place' = "row"
              /\ mask' = (e \in {"susp", "rt"})
              /\ UNCHANGED <<exercise, pending, sent, printed>>

Star(e, blocked) ==
  /\ exercise = e /\ ~Due /\ place = "row" /\ rows < ROWS /\ stars < STARS
  /\ mask = blocked
  /\ stars' = stars + 1
  /\ UNCHANGED <<exercise, place, mask, pending, sent, bangs, rows, torn>>

\* 011block.c: SIG_BLOCK before a row.
Block == /\ exercise = "block" /\ ~Due /\ place = "row" /\ rows < ROWS /\ ~mask
         /\ mask' = TRUE
         /\ UNCHANGED <<exercise, place, pending, sent, printed>>

\* The end of a row, with the mask and the place it leads to.
Newline(e, masked, next) ==
  /\ exercise = e /\ ~Due /\ place = "row" /\ rows < ROWS /\ stars = STARS
  /\ stars' = 0 /\ rows' = rows + 1
  /\ mask' = masked /\ place' = next
  /\ UNCHANGED <<exercise, pending, sent, bangs, torn>>

Leave(e) == /\ exercise = e /\ ~Due /\ place = "row" /\ rows = ROWS
            /\ mask' = FALSE /\ place' = "ended"
            /\ UNCHANGED <<exercise, pending, sent, printed>>

\* main of each exercise (one row in 002star.c).
star == \/ Install("star") \/ Star("star", FALSE)
        \/ Newline("star", FALSE, "ended")
block == \/ Install("block") \/ Block \/ Star("block", TRUE)
         \/ Newline("block", FALSE, "row") \/ Leave("block")
susp == \/ Install("susp") \/ Star("susp", TRUE)
        \/ Newline("susp", TRUE, "suspend") \/ Leave("susp")
susp_rt == \/ Install("rt") \/ Star("rt", TRUE)
           \/ Newline("rt", TRUE, "suspend") \/ Leave("rt")

Next == Send \/ handler \/ star \/ block \/ susp \/ susp_rt
-----------------------------------------------------------------------------
\* With the signal blocked no row is torn by a !, sigsuspend lets one ! out
\* per row (atomically: a signal that came during the row is not missed),
\* and signals are merged only where they do not queue.
RowsWhole ==
  place # "killed" =>
    /\ exercise # "star" => ~torn
    /\ exercise \in {"susp", "rt"} => bangs =< rows /\ rows =< bangs + 1
    /\ exercise = "rt" => bangs + pending = sent
    /\ sent > 0 => bangs + pending > 0
=============================================================================
