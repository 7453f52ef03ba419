----------------------------- MODULE MCRelayer -----------------------------
(***************************************************************************)
(* The relays: the engine (Relayer) or one of the loops (Relays) is        *)
(* started.  The properties of the engine are asked of the loops too.      *)
(***************************************************************************)
EXTENDS Relayer, TLC

CONSTANTS a1, a2, d1, d2, d3, d4

\* Each caller relays descriptors of its own, as in relayer/main.c.
DisjointPairs == (a1 :> {<<d1, d2>>}) @@ (a2 :> {<<d3, d4>>})

VARIABLES engine,  \* TRUE: the engine, FALSE: a loop
          loop, at, fsm12, fsm21, flags, saved, watched, reported  \* as in Relays

Loops == INSTANCE Relays

loops == <<loop, at, fsm12, fsm21, flags, saved, watched, reported>>

RelayInit == engine \in BOOLEAN /\ Init /\ Loops!Init

RelayNext == \/ engine /\ Next /\ UNCHANGED <<engine, loops>>
             \/ ~engine /\ Loops!Next /\ UNCHANGED <<engine, vars>>

RelaySpec == RelayInit /\ [][RelayNext]_<<engine, vars, loops>>
-----------------------------------------------------------------------------
\* Each direction delivers exactly the bytes it read (Relayer, Relays).
AllBytesFaithful == BytesFaithful /\ Loops!LoopFaithful

\* A relay is over only when both directions have ended (Relayer, Relays).
OverMeansEnded == OverIsFinal /\ Loops!LoopOver

\* The descriptors' flags come back (Relayer, Relays).
AllFlagsRestored == FlagsRestored /\ Loops!LoopRestored

\* No machine is driven on a descriptor that can block (Relayer, Relays).
NoneBlocks == NeverBlocks /\ Loops!LoopNeverBlocks

\* Sleeping on, and driven by, the right events (Relays).
EventsMatch == Loops!EventsMatch

\* "when status < STATE)AUTO then watch" (004relay_epoll.c:169): a loop that
\* sleeps has asked for every event its machines wait for.
WatchesAll == at = "sleep" => Loops!Needs12 \cup Loops!Needs21 \subseteq watched

\* One direction of the job in slot s has ended and the other one not, or not
\* in the same visit: drive21 is the middle of a visit, where the first
\* machine may just have ended.
EndedAlone(s) ==
  /\ rel_job[s] # NoJob /\ rel_job[s].state = "running"
  /\ LET ended12 == rel_job[s].fsm12.state = "T"
         ended21 == rel_job[s].fsm21.state = "T"
     IN  IF thr = "drive21" /\ i = s THEN ended21 ELSE ended12 # ended21

\* The same of a loop, in the midst of its rounds.
LoopEndedAlone ==
  LET ended12 == fsm12.state = "T"
      ended21 == fsm21.state = "T"
  IN  \/ at = "drive21" /\ ended21
      \/ at \in {"loop", "sleep", "drive12"} /\ ended12 # ended21

\* Both directions of a relay end, and in the same visit, or it never comes to
\* its end: no other thread, scan, event or error leads from one direction's
\* end to STATE_OVER or out of the loop; the next visit aborts
\* (relayer.c:104-106), or an error of the wait ends the process before.
EndsTogether ==
  [][/\ OverMeansEnded'
     /\ \A s \in Slot : EndedAlone(s) => EndedAlone(s)'
     /\ LoopEndedAlone => LoopEndedAlone' \/ at' \in {"failed", "aborted"}]_<<engine, vars, loops>>
=============================================================================
