------------------------------- MODULE Client -------------------------------
(***************************************************************************)
(* client.c: the client waits for a list of channels, asks for a number    *)
(* and writes what comes from the list's sender on that channel into the   *)
(* pipe its player reads.  The network hands over any datagram at any time *)
(* (so it may lose, repeat and reorder them).                              *)
(*                                                                         *)
(* main keeps the pipe's reading end too, so a player that has ended is    *)
(* not noticed: the pipe fills and the write waits for ever.               *)
(***************************************************************************)
EXTENDS Integers, Sequences

CONSTANTS Source,    \* addresses of senders
          Channel,   \* channel ids, without LISTCHIND
          MaxData,   \* bytes of a channel message
          PIPE_BUF,  \* room in the pipe
          MaxMsgs    \* bound: messages accepted

LISTCHIND == 0

VARIABLES at,          \* where main is
          serveraddr,  \* who sent the list
          raddr_len,   \* full, or what was on the stack
          choseid,
          buf, pos,    \* writen: what it writes, what it has written of it
          pipe,        \* the bytes in the pipe
          player,      \* none, plays or gone
          played,      \* (history) the bytes the player has read
          accepted     \* (history) the messages passed on

clientVars == <<at, serveraddr, raddr_len, choseid, buf, pos, pipe, player, played, accepted>>
writes == <<buf, pos, accepted>>
feed == <<pipe, player, played>>

\* raddr_len, ret and choseid are not set.
Init == /\ at = "socket" /\ serveraddr = "stack"
        /\ raddr_len \in {"full", "short", "negative"}
        /\ choseid \in Channel \cup {LISTCHIND}
        /\ buf = <<>> /\ pos = 0 /\ pipe = <<>> /\ player = "none"
        /\ played = <<>> /\ accepted = <<>>

\* Options, socket, IP_ADD_MEMBERSHIP, IP_MULTICAST_LOOP, bind, pipe; ...
Prepare == /\ at = "socket" /\ at' \in {"fork", "ended"}
           /\ UNCHANGED <<serveraddr, raddr_len, choseid, feed, writes>>

\* ... the player, whose execl may fail; malloc.
Fork == /\ at = "fork"
        /\ \/ at' = "list" /\ player' \in {"plays", "gone"}
           \/ at' = "ended" /\ UNCHANGED player
        /\ UNCHANGED <<serveraddr, raddr_len, choseid, pipe, played, writes>>

\* A list, from anyone; what is not a list is passed over.  A receive that
\* fails with -1 is not "too small", and what malloc left may look like one.
RecvList == /\ at = "list" /\ at' = "choose"
            /\ serveraddr' \in Source \cup {"stack"}
            /\ UNCHANGED <<raddr_len, choseid, feed, writes>>

\* scanf, unless ret happens to be positive; no number is the end.
Choose == /\ at = "choose"
          /\ \/ at' = "recv" /\ choseid' \in Channel \cup {LISTCHIND}
             \/ at' \in {"recv", "ended"} /\ UNCHANGED choseid
          /\ UNCHANGED <<serveraddr, raddr_len, feed, writes>>

\* raddr as recvfrom fills it: as far as raddr_len says, which it corrects; a
\* negative one makes it fail.
Sender(s) == IF raddr_len = "full" THEN s ELSE "garbage"

Matches(s, id) == Sender(s) = serveraddr /\ id = choseid

\* A message: the chosen channel's goes to writen, the others are ignored.
RecvChannel ==
  /\ at = "recv" /\ Len(accepted) < MaxMsgs
  /\ raddr_len' = IF raddr_len = "negative" THEN raddr_len ELSE "full"
  /\ \E s \in Source, id \in Channel \cup {LISTCHIND}, len \in 1 .. MaxData :
       IF Matches(s, id)
       THEN /\ accepted' = Append(accepted, [from |-> s, chnid |-> id, len |-> len])
            /\ buf' = [k \in 1 .. len |-> <<Len(accepted'), k>>] /\ pos' = 0
            /\ at' = "write"
       ELSE UNCHANGED <<at, writes>>
  /\ UNCHANGED <<serveraddr, choseid, feed>>

\* recvfrom fails after a message that was passed on: -1 is not "too small",
\* what is left of that message matches, no write takes that length, and
\* main exits with 1.
RecvFails == /\ at = "recv" /\ accepted # <<>>
             /\ at' = "ended"
             /\ UNCHANGED <<serveraddr, raddr_len, choseid, feed, writes>>

\* Mutant: buf + pos is buf.
writen_start ==
  /\ at = "write"
  /\ \E k \in 1 .. Len(buf) - pos :
       /\ Len(pipe) + k =< PIPE_BUF
       /\ pipe' = pipe \o SubSeq(buf, 1, k)
       /\ pos' = pos + k
  /\ at' = IF pos' = Len(buf) THEN "recv" ELSE "write"
  /\ UNCHANGED <<serveraddr, raddr_len, choseid, player, played, buf, accepted>>

\* writen: a write takes what the pipe has room for.
writen ==
  /\ at = "write"
  /\ \E k \in 1 .. Len(buf) - pos :
       /\ Len(pipe) + k =< PIPE_BUF
       /\ pipe' = pipe \o SubSeq(buf, pos + 1, pos + k)
       /\ pos' = pos + k
  /\ at' = IF pos' = Len(buf) THEN "recv" ELSE "write"
  /\ UNCHANGED <<serveraddr, raddr_len, choseid, player, played, buf, accepted>>

\* The player reads the pipe; it may end at any time.
Play == /\ player = "plays" /\ pipe # <<>>
        /\ played' = Append(played, Head(pipe)) /\ pipe' = Tail(pipe)
        /\ UNCHANGED <<at, serveraddr, raddr_len, choseid, player, writes>>

PlayerEnds == /\ player = "plays" /\ player' = "gone"
              /\ UNCHANGED <<at, serveraddr, raddr_len, choseid, pipe, played, writes>>

Next == \/ Prepare \/ Fork \/ RecvList \/ Choose \/ RecvChannel \/ RecvFails \/ writen
        \/ Play \/ PlayerEnds
-----------------------------------------------------------------------------
\* The bytes of the first n messages.
Passed[n \in 0 .. Len(accepted)] ==
  IF n = 0 THEN <<>> ELSE Passed[n - 1] \o [k \in 1 .. accepted[n].len |-> <<n, k>>]

\* What the player has read, and what is on its way to it, is the messages of
\* the chosen channel of the list's sender, whole and in the order they came;
\* and a client that never saw the sender of its list passes on nothing.
PlayerFed ==
  /\ played \o pipe \o SubSeq(buf, pos + 1, Len(buf)) = Passed[Len(accepted)]
  /\ \A i \in 1 .. Len(accepted) :
       accepted[i].from = serveraddr /\ accepted[i].chnid = choseid
=============================================================================
