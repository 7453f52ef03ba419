------------------------------- MODULE Server -------------------------------
(***************************************************************************)
(* The multicast server from its options to daemon_exit: server.c,         *)
(* medialib.c, thr_channel.c and thr_list.c.  The token buckets            *)
(* are those of TokenBucket, which mytbf.c implements; a bucket is named   *)
(* after the directory it was made for.  SIGTERM is taken by main, as      *)
(* Linux prefers, and not once an exit() has begun.                        *)
(*                                                                         *)
(* A program that reads or writes where it must not goes on as if nothing  *)
(* had happened, or nothing more is said of it (crash): mlib_getchnlist    *)
(* shrinks the list to its first entry, and the tables have CHNNR places.  *)
(***************************************************************************)
EXTENDS Integers, Sequences, FiniteSetsExt

CONSTANTS Dirs,    \* entries of media_dir
          Files,   \* files of a channel, numbered from 0
          FileLen, \* bytes of a file
          Rate, Burst, \* MP3_BITRATE/8 and ten times that
          MAX_DATA, \* the size of a read
          CHNNR,   \* channels there is room for: 200
          CHNIDS   \* values of chnid_t, a uint8_t: 256

ASSUME SizesAssumption == {Dirs, Files, FileLen, Rate, Burst, MAX_DATA} \subseteq Nat \ {0}
ASSUME IdsAssumption == CHNNR \in Nat \ {0} /\ CHNIDS \in Nat /\ CHNNR < CHNIDS

Dir == 1 .. Dirs
Id == 0 .. CHNIDS - 1

MINCHNID == 1
MAXCHINID == MINCHNID + CHNNR - 1

VARIABLES main,        \* where main is; after SIGTERM, in daemon_exit; ended or crash
          dir,         \* the next directory of the search
          curr_id,     \* the next channel id, before Chnid cuts it to its width
          channel,     \* the context of each channel id; past CHNNR, what lies behind the table
          list,        \* the ids main found
          listAlive,   \* the list is allocated
          lister,      \* thr_list: none, build, send, sleep or gone
          snder,       \* thr_channel_snder of list + i: none, start, fetch, asleep, read or gone
          tbfsize,     \* the tokens it has fetched
          thr_channel, \* the table of channel threads
          open, level  \* the token buckets

vars == <<main, dir, curr_id, channel, list, listAlive, lister, snder, tbfsize, thr_channel,
          open, level>>
scanVars == <<dir, curr_id, list, listAlive>>
buckets == <<open, level>>
threads == <<lister, snder, tbfsize, thr_channel>>

TB == INSTANCE TokenBucket WITH
        Bucket <- Dir, MaxCps <- Rate, MaxBurst <- Burst, MaxSize <- MAX_DATA,
        cps <- [b \in Dir |-> Rate], burst <- [b \in Dir |-> Burst]

NoContext == [bucket |-> 0, pos |-> 0, fd |-> -1, offset |-> 0]

Init == /\ main = "options" /\ dir = 1 /\ curr_id = MINCHNID
        /\ channel = [c \in Id |-> NoContext]
        /\ list = <<>> /\ listAlive = TRUE
        /\ lister = "none" /\ thr_channel = <<>>
        /\ snder = [i \in Dir |-> "none"] /\ tbfsize = [i \in Dir |-> 0]
        /\ open = {} /\ level = [b \in Dir |-> 0]

\* The process is there, and with it every thread.
Lives == main \notin {"ended", "crash"}

Goes(m, Then) == main = m /\ main' \in Then /\ UNCHANGED <<scanVars, channel, threads, buckets>>

\* The options, of which -H ends the program; ...
Options == Goes("options", {"daemonize", "socket", "ended"})

\* ... fork, whose parent ends, and /dev/null; ...
daemonize == Goes("daemonize", {"socket", "ended"})

\* ... a socket without which IP_MULTICAST_IF cannot be set.
socketinit == Goes("socket", {"scan", "ended"})

\* mlib_getchnlist: glob finds nothing.  main goes on with a list size that
\* was never set.
ScanFails ==
  /\ main = "scan" /\ dir = 1
  /\ main' \in {"list", "crash"}
  /\ dir' = Dirs + 1
  /\ UNCHANGED <<curr_id, channel, list, listAlive, threads, buckets>>

\* pathtoentry: no desc.text in the directory; ...
NotAChannel ==
  /\ main = "scan" /\ dir =< Dirs
  /\ dir' = dir + 1
  /\ UNCHANGED <<main, curr_id, channel, list, listAlive, threads, buckets>>

\* ... no mp3 files: the id is used up and the bucket stays; ...
NoFiles ==
  /\ main = "scan" /\ dir =< Dirs
  /\ TB!Open(dir)
  /\ curr_id' = curr_id + 1 /\ dir' = dir + 1
  /\ UNCHANGED <<main, channel, list, listAlive, threads>>

\* ... the first file cannot be opened: the bucket stays; ...
NoFirstFile ==
  /\ main = "scan" /\ dir =< Dirs
  /\ TB!Open(dir)
  /\ dir' = dir + 1
  /\ UNCHANGED <<main, curr_id, channel, list, listAlive, threads>>

Chnid(id) == id % CHNIDS

\* The context goes to its place, or behind the table, and the id to the list.
Enter(c) ==
  /\ channel' = [channel EXCEPT ![c] = [NoContext EXCEPT !.bucket = dir, !.fd = 0]]
  /\ list' = Append(list, c)
  /\ main' \in (IF c =< CHNNR THEN {main} ELSE {main, "crash"})

\* Mutant: curr_id++ is missing.
FoundSameId ==
  /\ main = "scan" /\ dir =< Dirs
  /\ TB!Open(dir)
  /\ Enter(Chnid(curr_id))
  /\ dir' = dir + 1
  /\ UNCHANGED <<curr_id, listAlive, threads>>

\* ... or a channel.
Found ==
  /\ main = "scan" /\ dir =< Dirs
  /\ TB!Open(dir)
  /\ Enter(Chnid(curr_id))
  /\ curr_id' = curr_id + 1 /\ dir' = dir + 1
  /\ UNCHANGED <<listAlive, threads>>

ScanDone ==
  /\ main = "scan" /\ dir > Dirs
  /\ main' = "list"
  /\ UNCHANGED <<scanVars, channel, threads, buckets>>

\* thr_list_create; main does not look at its result.
ListCreate ==
  /\ main = "list"
  /\ lister' \in {"build", "none"}
  /\ main' = "create"
  /\ UNCHANGED <<scanVars, channel, snder, tbfsize, thr_channel, buckets>>

\* thr_channel_create: the thread, and an entry whose tid the channel id
\* replaces and whose chnid stays 0 ...
ChannelCreate ==
  /\ main = "create" /\ Len(thr_channel) < Len(list)
  /\ LET i == Len(thr_channel) + 1 IN
       /\ snder' = [snder EXCEPT ![i] = "start"]
       /\ thr_channel' = Append(thr_channel, [chnid |-> 0, tid |-> list[i]])
       /\ main' \in (IF i = 1 THEN {"create"} ELSE {"create", "crash"})
  /\ UNCHANGED <<scanVars, channel, lister, tbfsize, buckets>>

\* ... or no thread, and main exits with 1.
ChannelCreateFails ==
  /\ main = "create" /\ Len(thr_channel) < Len(list)
  /\ main' = "unload"
  /\ UNCHANGED <<scanVars, channel, threads, buckets>>

ChannelsCreated ==
  /\ main = "create" /\ Len(thr_channel) = Len(list)
  /\ main' = "pause"
  /\ UNCHANGED <<scanVars, channel, threads, buckets>>
-----------------------------------------------------------------------------
\* thr_list: build the message from the list, past its first entry too, ...
ListerBuild ==
  /\ Lives /\ lister = "build"
  /\ lister' = "send"
  /\ main' \in (IF Len(list) > 1 THEN {main, "crash"} ELSE {main})
  /\ UNCHANGED <<scanVars, channel, snder, tbfsize, thr_channel, buckets>>

\* ... then send it every second.
ListerSend ==
  /\ Lives /\ lister \in {"send", "sleep"}
  /\ lister' = IF lister = "send" THEN "sleep" ELSE "send"
  /\ UNCHANGED <<main, scanVars, channel, snder, tbfsize, thr_channel, buckets>>

\* thr_channel_snder: the id, from an entry of the list that may be lost or freed.
SnderStart(i) ==
  /\ Lives /\ snder[i] = "start"
  /\ snder' = [snder EXCEPT ![i] = "fetch"]
  /\ main' \in (IF i = 1 /\ listAlive THEN {main} ELSE {main, "crash"})
  /\ UNCHANGED <<scanVars, channel, lister, tbfsize, thr_channel, buckets>>

\* No memory for the message: exit(1), perhaps while another thread goes on or
\* is in exit() itself.
SnderNoMemory(i) ==
  /\ Lives /\ snder[i] = "start"
  /\ snder' = [snder EXCEPT ![i] = "gone"]
  /\ main' \in CASE main = "pause" -> {"unload"}
                [] main \in {"unload", "destroy"} -> {main, "crash"}
                [] OTHER -> {"unload", "crash"}
  /\ UNCHANGED <<scanVars, channel, lister, tbfsize, thr_channel, buckets>>

Bucket(i) == channel[list[i]].bucket

\* mlib_readchn: mytbf_fetchtoken waits for tokens ...
SnderSleep(i) ==
  /\ Lives /\ snder[i] = "fetch" /\ Bucket(i) \in open
  /\ level[Bucket(i)] = 0
  /\ snder' = [snder EXCEPT ![i] = "asleep"]
  /\ UNCHANGED <<main, scanVars, channel, lister, tbfsize, thr_channel, buckets>>

\* (POSIX lets the wait return without a signal)
SpuriousWakeup(i) ==
  /\ Lives /\ snder[i] = "asleep"
  /\ snder' = [snder EXCEPT ![i] = "fetch"]
  /\ UNCHANGED <<main, scanVars, channel, lister, tbfsize, thr_channel, buckets>>

\* ... and takes them; ...
SnderTake(i) ==
  /\ Lives /\ snder[i] = "fetch" /\ Bucket(i) \in open
  /\ LET n == Min({level[Bucket(i)], MAX_DATA}) IN
       /\ TB!Take(Bucket(i), n)
       /\ tbfsize' = [tbfsize EXCEPT ![i] = n]
  /\ snder' = [snder EXCEPT ![i] = "read"]
  /\ UNCHANGED <<main, scanVars, channel, lister, thr_channel>>

\* ... from a bucket that module_unload has freed, anything may happen.
SnderLate(i) ==
  /\ Lives /\ snder[i] = "fetch" /\ Bucket(i) \notin open
  /\ main' = "crash"
  /\ UNCHANGED <<scanVars, channel, threads, buckets>>

\* open_next: the first of the files after pos that opens; after the last
\* one pos is 0 again, but no file is opened.
OpenNext(c) ==
  {[c EXCEPT !.pos = k, !.fd = k, !.offset = 0] : k \in c.pos + 1 .. Files - 1}
  \cup {[c EXCEPT !.pos = 0, !.fd = IF c.pos + 1 < Files THEN -1 ELSE @]}

\* mlib_readchn's loop: pread, open_next at the end of a file or on an error,
\* and round again whatever it returned.  Nothing keeps two threads whose ids
\* are the same apart.
SnderRead(i) ==
  /\ Lives /\ snder[i] = "read"
  /\ LET c == channel[list[i]]
         data == IF c.fd = -1 THEN {}
                 ELSE {[c EXCEPT !.offset = @ + k] :
                         k \in 1 .. Min({tbfsize[i], FileLen - c.offset})}
     IN \E d \in data \cup OpenNext(c) : channel' = [channel EXCEPT ![list[i]] = d]
  /\ main' \in (IF \E j \in 1 .. Len(list) \ {i} : list[j] = list[i] THEN {main, "crash"}
               ELSE {main})
  /\ UNCHANGED <<scanVars, threads, buckets>>

\* thr_alarm, from the first mytbf_init to module_unload: tokens, broadcast.
Alarm(b) ==
  /\ Lives /\ main # "destroy"
  /\ TB!Credit(b)
  /\ snder' = [i \in Dir |-> IF snder[i] = "asleep" /\ Bucket(i) = b THEN "fetch" ELSE snder[i]]
  /\ UNCHANGED <<main, scanVars, channel, lister, tbfsize, thr_channel>>
-----------------------------------------------------------------------------
\* daemon_exit: pthread_cancel of the list thread, if there ever was one, ...
Sigterm ==
  /\ main \in {"options", "daemonize", "socket", "scan", "list", "create", "pause"}
  /\ main' \in CASE lister = "none" -> {"crash"}
                [] main = "create" -> {"term", "term in syslog"}
                [] OTHER -> {"term"}
  /\ UNCHANGED <<scanVars, channel, threads, buckets>>

Frees == [m \in {"term", "term in syslog"} |-> IF m = "term" THEN "free" ELSE "free in syslog"]

\* ... which ends it in sendto or sleep, ...
ListerCancelled ==
  /\ main \in DOMAIN Frees /\ lister \in {"send", "sleep"}
  /\ lister' = "gone"
  /\ UNCHANGED <<main, scanVars, channel, snder, tbfsize, thr_channel, buckets>>

\* Mutant: daemon_exit frees the list first.
DestroyEarly ==
  /\ main \in DOMAIN Frees
  /\ main' = Frees[main]
  /\ UNCHANGED <<scanVars, channel, threads, buckets>>

\* ... pthread_join; thr_channel_destroyall, for the entries with a chnid; ...
DestroyAll ==
  /\ main \in DOMAIN Frees /\ lister = "gone"
  /\ snder' = [i \in Dir |-> IF i =< Len(thr_channel) /\ i =< CHNNR /\ thr_channel[i].chnid > 0
                             THEN "gone" ELSE snder[i]]
  /\ main' = Frees[main]
  /\ UNCHANGED <<scanVars, channel, lister, tbfsize, thr_channel, buckets>>

\* ... mlib_freechnlist; syslog, which never returns if it was main's call of
\* it that SIGTERM interrupted; exit(0), ...
FreeList ==
  /\ main \in {"free", "free in syslog"}
  /\ listAlive' = FALSE
  /\ main' = IF main = "free" THEN "unload" ELSE "stuck"
  /\ UNCHANGED <<dir, curr_id, list, channel, threads, buckets>>

\* ... which cancels and joins thr_alarm in module_unload, ...
UnloadAlarm ==
  /\ main = "unload"
  /\ main' = "destroy"
  /\ UNCHANGED <<scanVars, channel, threads, buckets>>

\* ... and destroys the buckets in turn: pthread_cond_destroy does not return
\* while a thread sleeps on the condition.
UnloadDestroy ==
  /\ main = "destroy" /\ open # {}
  /\ LET b == Min(open) IN
       /\ \A i \in Dir : snder[i] = "asleep" => Bucket(i) # b
       /\ TB!Close(b)
  /\ UNCHANGED <<main, scanVars, channel, threads>>

UnloadDone ==
  /\ main = "destroy" /\ open = {}
  /\ main' = "ended"
  /\ UNCHANGED <<scanVars, channel, threads, buckets>>

Prepare == Options \/ daemonize \/ socketinit
Scan == ScanFails \/ NotAChannel \/ NoFiles \/ NoFirstFile \/ Found \/ ScanDone
Create == ListCreate \/ ChannelCreate \/ ChannelCreateFails \/ ChannelsCreated
Exit == DestroyAll \/ FreeList \/ UnloadAlarm \/ UnloadDestroy \/ UnloadDone
Lister == ListerBuild \/ ListerSend
Snder(i) == SnderStart(i) \/ SnderNoMemory(i) \/ SnderSleep(i) \/ SnderTake(i)
            \/ SnderLate(i) \/ SnderRead(i)

Next == \/ Prepare \/ Scan \/ Create \/ Sigterm \/ Exit
        \/ Lister \/ ListerCancelled
        \/ \E i \in Dir : Snder(i) \/ SpuriousWakeup(i) \/ Alarm(i)

\* Every thread is scheduled again and again, a cancelled thread ends at its
\* next cancellation point, and the seconds go by.
Spec == /\ Init /\ [][Next]_vars
        /\ WF_vars(Prepare \/ Scan \/ Create \/ Exit) /\ WF_vars(Lister) /\ WF_vars(ListerCancelled)
        /\ \A i \in Dir : WF_vars(Snder(i)) /\ WF_vars(Alarm(i))
-----------------------------------------------------------------------------
\* Whatever directories fail half-way, as long as they have used up no more
\* than CHNNR ids each entry of the list has an id of the table and a context
\* and a bucket of its own, open until module_unload.
ListBacked ==
  curr_id =< MAXCHINID + 1 =>
    /\ \A i \in 1 .. Len(list) : /\ list[i] \in MINCHNID .. MAXCHINID
                                 /\ Lives /\ main # "destroy" => Bucket(i) \in open
    /\ \A i, j \in 1 .. Len(list) : Bucket(i) = Bucket(j) => i = j

\* "[MINCHNID, MAXCHINID]", as proto.h:21 says of a channel's id.
ChnidInRange == \A i \in 1 .. Len(list) : list[i] \in MINCHNID .. MAXCHINID

\* daemon_exit frees the list when the list thread, which reads it, is gone.
ListerReadsLive == ~listAlive => lister = "gone"

\* SIGTERM ends the server, unless it came inside syslog or a channel sleeps in
\* mytbf_fetchtoken: only then does module_unload wait for ever, though no
\* channel is cancelled.  TermReleases is about the two exceptions.
TermEnds ==
  main = "term" ~> \/ ~Lives
                   \/ main = "destroy" /\ \E i \in Dir : snder[i] = "asleep"

\* SIGTERM releases the token buckets, as mytbf.c:50-52 says of module_unload
\* ("called in the handling of exceptions"); a crash is another matter.
TermReleases ==
  main \in {"term", "term in syslog"} ~> open = {} \/ main = "crash"

\* "via socket to send" (thr_channel.c:31): a channel in the loop of
\* mlib_readchn comes to its sendto, which would be the location "send".
ChannelSends == \A i \in Dir : snder[i] = "read" ~> snder[i] = "send" \/ ~Lives
=============================================================================
