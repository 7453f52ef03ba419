------------------------------- MODULE Relays -------------------------------
(***************************************************************************)
(* The relays with one loop and no threads: 001relay.c drives both         *)
(* machines all the time, 002relay_select.c, 003relay_poll.c and           *)
(* 004relay_epoll.c sleep until an event one of them waits for.  Each file *)
(* has its own copy of fsm_driver (RelayFsm).  Writing the banners on the  *)
(* terminals is left out.                                                  *)
(***************************************************************************)
EXTENDS RelayFsm

VARIABLES loop,     \* busy, select, poll or epoll
          at,       \* open, flags, loop, sleep, drive12, drive21; ended, failed, aborted
          fsm12, fsm21,
          flags,    \* the descriptors with O_NONBLOCK
          saved,    \* fd1_save and fd2_save
          watched,  \* the events asked for
          reported  \* the events the last wait reported

loopVars == <<loop, at, fsm12, fsm21, flags, saved, watched, reported>>
machines == <<fsm12, fsm21>>

Both == {"fd1", "fd2"}

Init == /\ loop \in {"busy", "select", "poll", "epoll"}
        /\ at = "open" /\ fsm12 = NewFsm /\ fsm21 = NewFsm
        /\ flags = {} /\ saved = {} /\ watched = {} /\ reported = {}

\* main of each file: fd2 is opened with O_NONBLOCK; an error is exit(1).
Open(l) == /\ loop = l /\ at = "open"
           /\ \/ at' = "flags" /\ flags' = {"fd2"}
              \/ at' = "failed" /\ UNCHANGED flags
           /\ UNCHANGED <<loop, machines, saved, watched, reported>>
main_busy == Open("busy")
main_select == Open("select")
main_poll == Open("poll")
main_epoll == Open("epoll")

\* relay: save the flags and set O_NONBLOCK (epoll_create may fail).
Flags == /\ at = "flags"
         /\ saved' = flags /\ flags' = Both
         /\ at' \in {"loop"} \cup {x \in {"failed"} : loop = "epoll"}
         /\ UNCHANGED <<loop, machines, watched, reported>>

\* relay, after its loop.
Restore == /\ at = "loop" /\ fsm12.state = "T" /\ fsm21.state = "T"
           /\ flags' = saved /\ at' = "ended"
           /\ UNCHANGED <<loop, machines, saved, watched, reported>>
-----------------------------------------------------------------------------
Auto(f) == f.state \in {"Ex", "T"}  \* state > STATE_AUTO

\* The event a machine from src to dst cannot go on without.
Needs(f, src, dst) == CASE f.state = "R" -> {<<src, "in">>}
                        [] f.state = "W" -> {<<dst, "out">>}
                        [] OTHER -> {}
Needs12 == Needs(fsm12, "fd1", "fd2")
Needs21 == Needs(fsm21, "fd2", "fd1")

Running == at = "loop" /\ ~(fsm12.state = "T" /\ fsm21.state = "T")

\* The events are computed anew in each round; the call is made when a
\* machine waits for one.  revents keeps its value when it is not.
Ask(l, events) ==
  /\ loop = l /\ Running
  /\ watched' = events
  /\ at' = IF Auto(fsm12) /\ Auto(fsm21) THEN "drive12" ELSE "sleep"
  /\ reported' = IF l = "poll" THEN reported ELSE {}
  /\ UNCHANGED <<loop, machines, flags, saved>>

\* 001relay.c asks for nothing.
AskNothing == /\ loop = "busy" /\ Running
              /\ at' = "drive12"
              /\ UNCHANGED <<loop, machines, flags, saved, watched, reported>>

AskSelect == Ask("select", Needs12 \cup Needs21)

\* Mutant: the second |= is an assignment.
AskPollLast == Ask("poll", IF Needs21 # {} THEN Needs21 ELSE Needs12)

AskPoll == Ask("poll", Needs12 \cup Needs21)

\* The mask for fd2 is computed and never given to epoll_ctl.
AskEpoll == Ask("epoll", {e \in Needs12 \cup Needs21 : e[1] = "fd1"})

\* The call returns what is ready, or fails and the process exits.
Report(l, possible) ==
  /\ loop = l /\ at = "sleep"
  /\ \/ \E r \in possible \ {{}} : reported' = r /\ at' = "drive12"
     \/ at' = "failed" /\ UNCHANGED reported
  /\ UNCHANGED <<loop, machines, flags, saved, watched>>

Hup(fd) == <<fd, "hup">>  \* reported without being asked for

Select == Report("select", SUBSET watched)
Poll == Report("poll", SUBSET (watched \cup {Hup("fd1"), Hup("fd2")}))
EpollWait == Report("epoll", (SUBSET (watched \cup {Hup("fd1")})) \cup {{Hup("fd2")}})

\* select interrupted: ask again (poll and epoll_wait are only called again).
SelectInterrupted ==
  /\ loop = "select" /\ at = "sleep" /\ at' = "loop"
  /\ UNCHANGED <<loop, machines, flags, saved, watched, reported>>
-----------------------------------------------------------------------------
Chosen12 == loop = "busy" \/ <<"fd1", "in">> \in reported
            \/ <<"fd2", "out">> \in reported \/ Auto(fsm12)
Chosen21 == loop = "busy" \/ <<"fd2", "in">> \in reported
            \/ <<"fd1", "out">> \in reported \/ Auto(fsm21)

\* The loop drives the machines one after the other; STATE_T aborts.
Drive12(l) ==
  /\ loop = l /\ at = "drive12"
  /\ \/ Chosen12 /\ fsm12' \in Driven(fsm12) /\ at' = "drive21"
     \/ Chosen12 /\ Aborts(fsm12) /\ UNCHANGED fsm12 /\ at' = "aborted"
     \/ ~Chosen12 /\ UNCHANGED fsm12 /\ at' = "drive21"
  /\ UNCHANGED <<loop, fsm21, flags, saved, watched, reported>>

Drive21(l) ==
  /\ loop = l /\ at = "drive21"
  /\ \/ Chosen21 /\ fsm21' \in Driven(fsm21) /\ at' = "loop"
     \/ Chosen21 /\ Aborts(fsm21) /\ UNCHANGED fsm21 /\ at' = "aborted"
     \/ ~Chosen21 /\ UNCHANGED fsm21 /\ at' = "loop"
  /\ UNCHANGED <<loop, fsm12, flags, saved, watched, reported>>

fsm_driver_busy == Drive12("busy") \/ Drive21("busy")
fsm_driver_select == Drive12("select") \/ Drive21("select")
fsm_driver_poll == Drive12("poll") \/ Drive21("poll")
fsm_driver_epoll == Drive12("epoll") \/ Drive21("epoll")

Over == at \in {"ended", "failed", "aborted"} /\ UNCHANGED loopVars

Next == \/ main_busy \/ main_select \/ main_poll \/ main_epoll
        \/ Flags \/ Restore
        \/ AskNothing \/ AskSelect \/ AskPoll \/ AskEpoll
        \/ Select \/ Poll \/ EpollWait \/ SelectInterrupted
        \/ fsm_driver_busy \/ fsm_driver_select \/ fsm_driver_poll \/ fsm_driver_epoll
        \/ Over
-----------------------------------------------------------------------------
\* No relay sleeps without having asked for every event a machine waits for
\* (in 004relay_epoll.c: of fd1 only), and none drives a machine that reads
\* or writes on an event that is not its own.
EventsMatch ==
  /\ at = "sleep" => \A e \in Needs12 \cup Needs21 :
                       e \in watched \/ (loop = "epoll" /\ e[1] = "fd2")
  /\ at = "drive12" /\ loop # "busy" /\ Chosen12 => Needs12 \subseteq reported
  /\ at = "drive21" /\ loop # "busy" /\ Chosen21 => Needs21 \subseteq reported

\* As in the engine (Relayer): bytes arrive once and in order; no descriptor
\* a machine is driven on can block; the flags come back, and only when both
\* directions have ended.
LoopFaithful == Faithful(fsm12) /\ Faithful(fsm21)
LoopNeverBlocks == at \in {"drive12", "drive21"} => flags = Both
LoopRestored == at = "ended" => flags = {"fd2"}
LoopOver == at = "ended" => fsm12.state = "T" /\ fsm21.state = "T"

TypeOK == /\ loop \in {"busy", "select", "poll", "epoll"}
          /\ at \in {"open", "flags", "loop", "sleep", "drive12", "drive21",
                     "ended", "failed", "aborted"}
          /\ fsm12 \in Fsm /\ fsm21 \in Fsm

\* The parts of the inductive invariant behind these: the flags on the way; a
\* sleeping loop has asked for what the machines wait for; and of the events
\* that make it drive a machine, only those the machine waits for were reported.
FlagsOnWay == /\ at = "flags" => flags = {"fd2"}
              /\ at \in {"loop", "sleep", "drive12", "drive21"} =>
                   flags = Both /\ saved = {"fd2"}
AskedFor == at = "sleep" =>
              /\ loop # "busy"
              /\ watched = {e \in Needs12 \cup Needs21 : loop = "epoll" => e[1] = "fd1"}
OwnEvents(f, needs, events) == Auto(f) \/ reported \cap events \subseteq needs
ReportedFor ==
  /\ at = "drive12" /\ loop # "busy" =>
       OwnEvents(fsm12, Needs12, {<<"fd1", "in">>, <<"fd2", "out">>})
  /\ at \in {"drive12", "drive21"} /\ loop # "busy" =>
       OwnEvents(fsm21, Needs21, {<<"fd2", "in">>, <<"fd1", "out">>})

IInv == /\ TypeOK /\ LoopFaithful /\ LoopRestored /\ LoopOver
        /\ FlagsOnWay /\ AskedFor /\ ReportedFor
=============================================================================
