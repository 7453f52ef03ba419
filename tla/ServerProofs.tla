---------------------------- MODULE ServerProofs ----------------------------
(***************************************************************************)
(* Proofs about the multicast server, for any number of directories, files *)
(* and channel threads, and about its client, for any senders, channels,   *)
(* messages and sizes of the pipe.                                         *)
(***************************************************************************)
EXTENDS MCServer, SequenceTheorems, WellFoundedInduction, TLAPS

(* The server. *)

Contexts == [bucket : 0 .. Dirs, pos : 0 .. Files - 1, fd : -1 .. Files - 1,
             offset : 0 .. FileLen]

ServerTypeOK ==
  /\ dir \in 1 .. Dirs + 1 /\ curr_id \in 1 .. dir
  /\ channel \in [Id -> Contexts] /\ list \in Seq(Id)
  /\ open \subseteq 1 .. dir - 1 /\ level \in [Dir -> Nat] /\ tbfsize \in [Dir -> 0 .. MAX_DATA]
  /\ listAlive \in BOOLEAN

\* The ids used so far fit the table.
Fits == curr_id =< MAXCHINID + 1

\* The buckets are made before their module_unload, in the order of the scan.
Entries ==
  Fits => \A i \in 1 .. Len(list) :
    /\ list[i] \in MINCHNID .. curr_id - 1
    /\ Bucket(i) \in 1 .. dir - 1
    /\ Lives /\ main # "destroy" => Bucket(i) \in open

Apart == Fits => \A i, j \in 1 .. Len(list) : Bucket(i) = Bucket(j) => i = j

\* The list thread starts once, after the list is made, and is joined before
\* the list is freed.
ListerOnce ==
  /\ main \in {"options", "daemonize", "socket", "scan", "list"} => lister = "none" /\ listAlive
  /\ main \in {"free", "free in syslog"} => lister = "gone"
  /\ ~listAlive => lister = "gone"

ServerIInv == ServerTypeOK /\ Entries /\ Apart /\ ListerOnce

-----------------------------------------------------------------------------
\* The server starts with no channel, no bucket and no thread.
LEMMA ServerStart == Init => ServerIInv
<1> SUFFICES ASSUME Init PROVE ServerIInv
  OBVIOUS
<1>1. NoContext \in [bucket : {0}, pos : {0}, fd : {-1}, offset : {0}]
  BY DEF NoContext
<1>2. NoContext \in Contexts
  BY <1>1, SizesAssumption DEF Contexts
<1>3. ServerTypeOK
  BY <1>2, SizesAssumption, EmptySeq DEF Init, ServerTypeOK, MINCHNID
<1>4. Len(list) = 0
  BY DEF Init
<1> QED
  BY <1>3, <1>4 DEF Init, ServerIInv, Entries, Apart, ListerOnce

\* The entries of the list stay backed when no bucket is closed and no context
\* changes its bucket.
LEMMA EntriesKept ==
  ASSUME ServerIInv, UNCHANGED <<dir, curr_id, list>>,
         \A c \in Id : channel'[c].bucket = channel[c].bucket,
         Lives' /\ main' # "destroy" => Lives /\ main # "destroy" /\ open \subseteq open'
  PROVE  Entries' /\ Apart'
<1>1. \A i \in 1 .. Len(list) : list[i] \in Id
  BY ElementOfSeq DEF ServerIInv, ServerTypeOK
<1>2. \A i \in 1 .. Len(list) : Bucket(i)' = Bucket(i)
  BY <1>1 DEF Bucket
<1> QED
  BY <1>2 DEF ServerIInv, Entries, Apart, Fits

\* The server's invariant speaks of its variables only.
LEMMA Same ==
  ASSUME ServerIInv, UNCHANGED vars
  PROVE  ServerIInv'
<1>1. Entries' /\ Apart'
  BY EntriesKept DEF vars, Lives
<1> QED
  BY <1>1 DEF vars, ServerIInv, ServerTypeOK, ListerOnce

\* A step of main or of the list thread that leaves the contexts and the
\* buckets as they are.
LEMMA Moves ==
  ASSUME ServerIInv, UNCHANGED <<dir, curr_id, list, channel, open, level, tbfsize>>,
         Lives' /\ main' # "destroy" => Lives /\ main # "destroy",
         listAlive' \in BOOLEAN, ListerOnce'
  PROVE  ServerIInv'
<1>1. Entries' /\ Apart'
  BY EntriesKept
<1> QED
  BY <1>1 DEF ServerIInv, ServerTypeOK

\* Options, daemonize and socketinit keep the invariant.
LEMMA PrepareStep ==
  ASSUME ServerIInv, Prepare
  PROVE  ServerIInv'
<1>1. ListerOnce'
  BY DEF Prepare, Options, daemonize, socketinit, Goes, scanVars, threads, ServerIInv, ListerOnce
<1> QED
  BY <1>1, Moves
  DEF Prepare, Options, daemonize, socketinit, Goes, scanVars, threads, buckets, Lives, ServerIInv, ServerTypeOK

\* The scan: a directory more, and perhaps a bucket more.
LEMMA Scanned ==
  ASSUME ServerIInv, main = "scan", main' \in {"scan", "list", "crash"},
         dir' \in dir .. Dirs + 1, curr_id' \in curr_id .. dir',
         open \subseteq open', open' \subseteq 1 .. dir' - 1,
         UNCHANGED <<channel, list, listAlive, level, lister, tbfsize>>
  PROVE  ServerIInv'
<1>1. ServerTypeOK'
  <2>1. dir \in 1 .. Dirs + 1 /\ curr_id \in 1 .. dir /\ Dirs \in Nat
    BY SizesAssumption DEF ServerIInv, ServerTypeOK
  <2>2. dir' \in 1 .. Dirs + 1 /\ curr_id' \in 1 .. dir' /\ dir =< dir' /\ curr_id =< curr_id'
    BY <2>1
  <2> QED
    BY <2>2 DEF ServerIInv, ServerTypeOK
<1>2. ListerOnce'
  BY DEF ServerIInv, ListerOnce
<1>3. \A i \in 1 .. Len(list) : Bucket(i)' = Bucket(i)
  BY ElementOfSeq DEF ServerIInv, ServerTypeOK, Bucket
<1>4. Lives /\ main # "destroy"
  BY DEF Lives
<1>5. Fits' => Fits
  BY <1>1, SizesAssumption, IdsAssumption DEF ServerIInv, ServerTypeOK, Fits, MAXCHINID, MINCHNID
<1>6. Entries'
  <2> SUFFICES ASSUME Fits, NEW i \in 1 .. Len(list)
               PROVE  /\ list[i] \in MINCHNID .. curr_id' - 1 /\ Bucket(i)' \in 1 .. dir' - 1
                      /\ Bucket(i)' \in open'
    BY <1>5 DEF Entries
  <2>1. dir \in Int /\ curr_id \in Int /\ dir' \in Int /\ curr_id' \in Int
    BY <1>1, SizesAssumption DEF ServerIInv, ServerTypeOK
  <2>2. list[i] \in MINCHNID .. curr_id - 1 /\ Bucket(i) \in 1 .. dir - 1 /\ Bucket(i) \in open
    BY <1>4 DEF ServerIInv, Entries
  <2>3. dir =< dir' /\ curr_id =< curr_id'
    BY <2>1
  <2> QED
    BY <1>3, <2>1, <2>2, <2>3 DEF MINCHNID
<1>7. Apart'
  BY <1>3, <1>5 DEF ServerIInv, Apart
<1> QED
  BY <1>1, <1>2, <1>6, <1>7 DEF ServerIInv

\* A channel found by pathtoentry has an id and a bucket that no other has, as
\* long as the table has room for it.
LEMMA FoundStep ==
  ASSUME ServerIInv, Found
  PROVE  ServerIInv'
<1> DEFINE id == Chnid(curr_id)
           found == [NoContext EXCEPT !.bucket = dir, !.fd = 0]
<1>1. /\ main = "scan" /\ main' \in {"scan", "crash"} /\ dir \in Dir /\ curr_id \in 1 .. dir
      /\ dir' = dir + 1 /\ curr_id' = curr_id + 1 /\ open' = open \cup {dir}
      /\ channel' = [channel EXCEPT ![id] = found] /\ list' = Append(list, id)
      /\ UNCHANGED <<level, listAlive, lister, tbfsize>>
  <2>1. main' \in {"scan", "crash"}
    BY DEF Found, Enter
  <2> QED
    BY <2>1, SizesAssumption DEF Found, Enter, TB!Open, threads, ServerIInv, ServerTypeOK, Dir
<1>2. id \in Id /\ (Fits' => id = curr_id /\ Fits)
  <2>1. curr_id \in Nat /\ CHNIDS \in Nat /\ CHNNR < CHNIDS /\ CHNNR \in Nat \ {0}
    BY <1>1, SizesAssumption, IdsAssumption DEF Dir
  <2>2. curr_id % CHNIDS \in 0 .. CHNIDS - 1
    BY <2>1
  <2>3. curr_id < CHNIDS => curr_id % CHNIDS = curr_id
    BY <2>1
  <2> QED
    BY <1>1, <2>1, <2>2, <2>3 DEF Chnid, Id, Fits, MAXCHINID, MINCHNID
<1>3. found \in [bucket : {dir}, pos : {0}, fd : {0}, offset : {0}]
  BY DEF NoContext
<1> HIDE DEF found, id
<1>4. found \in Contexts /\ found.bucket = dir
  BY <1>1, <1>3, SizesAssumption DEF Contexts, Dir
<1>5. /\ list \in Seq(Id) /\ channel \in [Id -> Contexts]
      /\ \A i \in 1 .. Len(list) : list[i] \in Id
  BY ElementOfSeq DEF ServerIInv, ServerTypeOK
<1>6. /\ list' \in Seq(Id) /\ Len(list') = Len(list) + 1
      /\ \A i \in 1 .. Len(list) : list'[i] = list[i]
      /\ list'[Len(list) + 1] = id /\ Len(list) \in Nat
  BY <1>1, <1>2, <1>5, AppendProperties, LenProperties
<1>7. \A i : i = Len(list) + 1 => Bucket(i)' = dir
  BY <1>1, <1>2, <1>4, <1>5, <1>6 DEF Bucket
<1>8. ASSUME Fits', NEW i \in 1 .. Len(list)
      PROVE  /\ list[i] \in MINCHNID .. curr_id - 1 /\ Bucket(i) \in 1 .. dir - 1
             /\ Bucket(i) \in open /\ Bucket(i)' = Bucket(i)
  <2>1. Lives /\ main # "destroy"
    BY <1>1 DEF Lives
  <2>2. list[i] \in MINCHNID .. curr_id - 1 /\ Bucket(i) \in 1 .. dir - 1 /\ Bucket(i) \in open
    BY <1>2, <1>8, <2>1 DEF ServerIInv, Entries
  <2>3. list'[i] = list[i] /\ list[i] \in Id /\ list[i] # id
    BY <1>1, <1>2, <1>5, <1>6, <1>8, <2>2 DEF Dir
  <2> QED
    BY <1>1, <1>5, <2>2, <2>3 DEF Bucket
<1>9. ServerTypeOK'
  <2>1. dir' \in 1 .. Dirs + 1 /\ curr_id' \in 1 .. dir'
    BY <1>1, SizesAssumption DEF Dir
  <2>2. channel' \in [Id -> Contexts]
    BY <1>1, <1>2, <1>4, <1>5
  <2>3. open' \subseteq 1 .. dir' - 1
    BY <1>1, SizesAssumption DEF ServerIInv, ServerTypeOK, Dir
  <2> QED
    BY <1>1, <1>6, <2>1, <2>2, <2>3 DEF ServerIInv, ServerTypeOK
<1>10. Fits' => \A i \in 1 .. Len(list') : i \in 1 .. Len(list) \/ i = Len(list) + 1
  BY <1>6
<1>11. Entries'
  <2> SUFFICES ASSUME Fits', NEW i \in 1 .. Len(list')
               PROVE  /\ list'[i] \in MINCHNID .. curr_id' - 1 /\ Bucket(i)' \in 1 .. dir' - 1
                      /\ Bucket(i)' \in open'
    BY DEF Entries
  <2>1. curr_id \in Nat /\ dir \in Nat /\ curr_id >= 1 /\ dir >= 1
    BY <1>1, SizesAssumption DEF Dir
  <2>2. CASE i \in 1 .. Len(list)
    BY <1>1, <1>6, <1>8, <2>1, <2>2 DEF MINCHNID
  <2>3. CASE i = Len(list) + 1
    BY <1>1, <1>2, <1>6, <1>7, <2>1, <2>3 DEF MINCHNID
  <2> QED
    BY <1>10, <2>2, <2>3
<1>12. Apart'
  <2>1. Fits' => \A i \in 1 .. Len(list) : Bucket(i)' = Bucket(i) /\ Bucket(i)' # dir
    BY <1>1, <1>8 DEF Dir
  <2>2. Fits' => \A i, j \in 1 .. Len(list) : Bucket(i) = Bucket(j) => i = j
    BY <1>2 DEF ServerIInv, Apart
  <2> QED
    BY <1>7, <1>10, <2>1, <2>2 DEF Apart
<1>13. ListerOnce'
  BY <1>1 DEF ServerIInv, ListerOnce
<1> QED
  BY <1>9, <1>11, <1>12, <1>13 DEF ServerIInv

\* A directory of mlib_getchnlist, whichever way it fails.
LEMMA ScanStep ==
  ASSUME ServerIInv, Scan
  PROVE  ServerIInv'
<1> USE DEF TB!Open, threads, scanVars, buckets
<1>1. /\ dir \in 1 .. Dirs + 1 /\ curr_id \in 1 .. dir /\ Dirs \in Nat
      /\ open \subseteq 1 .. dir - 1
  BY SizesAssumption DEF ServerIInv, ServerTypeOK
<1>2. CASE ScanFails
  BY <1>1, <1>2, Scanned DEF ScanFails
<1>3. CASE NotAChannel \/ NoFiles \/ NoFirstFile
  <2>1. /\ main = "scan" /\ main' = main /\ dir' = dir + 1 /\ dir =< Dirs
        /\ curr_id' \in {curr_id, curr_id + 1} /\ open' \in {open, open \cup {dir}}
        /\ UNCHANGED <<channel, list, listAlive, level, lister, tbfsize>>
    BY <1>3 DEF NotAChannel, NoFiles, NoFirstFile
  <2>2. dir' \in dir .. Dirs + 1 /\ curr_id' \in curr_id .. dir' /\ open' \subseteq 1 .. dir' - 1
    BY <1>1, <2>1
  <2> QED
    BY <2>1, <2>2, Scanned
<1>4. CASE ScanDone
  BY <1>1, <1>4, Scanned DEF ScanDone
<1> QED
  BY <1>2, <1>3, <1>4, FoundStep DEF Scan

\* thr_list_create and thr_channel_create keep the invariant.
LEMMA CreateStep ==
  ASSUME ServerIInv, Create
  PROVE  ServerIInv'
<1> USE DEF scanVars, threads, buckets, ListCreate, ChannelCreate, ChannelCreateFails, ChannelsCreated
<1>1. UNCHANGED <<dir, curr_id, list, channel, open, level, listAlive, tbfsize>>
  BY DEF Create
<1>2. Lives /\ main # "destroy"
  BY DEF Create, Lives
<1>3. ListerOnce'
  BY DEF Create, ServerIInv, ListerOnce
<1> QED
  BY <1>1, <1>2, <1>3, Moves DEF ServerIInv, ServerTypeOK

\* The list thread, its cancellation and SIGTERM keep the invariant.
LEMMA ListerStep ==
  ASSUME ServerIInv, Lister \/ ListerCancelled \/ Sigterm
  PROVE  ServerIInv'
<1> USE DEF scanVars, threads, buckets, ListerBuild, ListerSend, ListerCancelled, Sigterm, Frees
<1>1. UNCHANGED <<dir, curr_id, list, channel, open, level, listAlive, tbfsize>>
  BY DEF Lister
<1>2. Lives' /\ main' # "destroy" => Lives /\ main # "destroy"
  BY DEF Lister, Lives
<1>3. ListerOnce'
  <2>1. CASE Lister
    BY <2>1 DEF Lister, ServerIInv, ListerOnce
  <2>2. CASE ListerCancelled
    BY <2>2 DEF ServerIInv, ListerOnce
  <2>3. CASE Sigterm
    BY <2>3 DEF ServerIInv, ListerOnce
  <2> QED
    BY <2>1, <2>2, <2>3
<1> QED
  BY <1>1, <1>2, <1>3, Moves DEF ServerIInv, ServerTypeOK

\* daemon_exit and module_unload, where the buckets go at last.
LEMMA ExitStep ==
  ASSUME ServerIInv, Exit
  PROVE  ServerIInv'
<1> USE DEF scanVars, threads, buckets, Frees
<1>1. CASE DestroyAll \/ FreeList
  <2>1. ListerOnce'
    BY <1>1 DEF DestroyAll, FreeList, ServerIInv, ListerOnce
  <2> QED
    BY <1>1, <2>1, Moves DEF DestroyAll, FreeList, Lives, ServerIInv, ServerTypeOK
<1>2. CASE UnloadAlarm \/ UnloadDone
  <2>1. ListerOnce'
    BY <1>2 DEF UnloadAlarm, UnloadDone, ServerIInv, ListerOnce
  <2> QED
    BY <1>2, <2>1, Moves DEF UnloadAlarm, UnloadDone, Lives, ServerIInv, ServerTypeOK
<1>3. CASE UnloadDestroy
  <2>1. main' = "destroy" /\ UNCHANGED <<main, scanVars, channel, threads, level>>
    BY <1>3 DEF UnloadDestroy, TB!Close
  <2>2. Entries' /\ Apart'
    BY <2>1, EntriesKept
  <2>3. open' \subseteq open
    BY <1>3 DEF UnloadDestroy, TB!Close
  <2> QED
    BY <2>1, <2>2, <2>3 DEF ServerIInv, ServerTypeOK, ListerOnce
<1> QED
  BY <1>1, <1>2, <1>3 DEF Exit

-----------------------------------------------------------------------------
(* The channel threads and the ticks. *)

\* A context goes on to another with the same bucket.
LEMMA SnderMoves ==
  ASSUME ServerIInv, UNCHANGED <<dir, curr_id, list, listAlive, lister, open>>,
         main' \in {main, "unload", "crash"}, Lives, main = "destroy" => main' # "unload",
         level' \in [Dir -> Nat], tbfsize' \in [Dir -> 0 .. MAX_DATA],
         channel' \in [Id -> Contexts],
         \A c \in Id : channel'[c].bucket = channel[c].bucket
  PROVE  ServerIInv'
<1>1. Entries' /\ Apart'
  BY EntriesKept DEF Lives
<1>2. ListerOnce'
  BY DEF ServerIInv, ListerOnce
<1> QED
  BY <1>1, <1>2 DEF ServerIInv, ServerTypeOK

\* min of two integers is one of them, and at most each.
LEMMA MinOfTwo ==
  ASSUME NEW a \in Int, NEW b \in Int
  PROVE  Min({a, b}) \in {a, b} /\ Min({a, b}) =< a /\ Min({a, b}) =< b
<1>1. \E x \in {a, b} : \A y \in {a, b} : x =< y
  OBVIOUS
<1> QED
  BY <1>1 DEF Min

\* A channel thread in mlib_readchn and open_next keeps the invariant.
LEMMA SnderStep ==
  ASSUME ServerIInv, NEW i \in Dir, Snder(i) \/ SpuriousWakeup(i)
  PROVE  ServerIInv'
<1> USE DEF scanVars, threads, buckets
<1>1. /\ channel \in [Id -> Contexts] /\ level \in [Dir -> Nat]
      /\ tbfsize \in [Dir -> 0 .. MAX_DATA]
  BY DEF ServerIInv, ServerTypeOK
<1>2. CASE SnderStart(i) \/ SnderNoMemory(i) \/ SnderSleep(i) \/ SnderLate(i) \/ SpuriousWakeup(i)
  <2>1. /\ Lives /\ main' \in {main, "unload", "crash"} /\ (main = "destroy" => main' # "unload")
        /\ UNCHANGED <<dir, curr_id, list, listAlive, lister, open, level, tbfsize, channel>>
    BY <1>2 DEF SnderStart, SnderNoMemory, SnderSleep, SnderLate, SpuriousWakeup, Lives
  <2> QED
    BY <1>1, <2>1, SnderMoves
<1>3. CASE SnderTake(i)
  <2> DEFINE n == Min({level[Bucket(i)], MAX_DATA})
             b == Bucket(i)
  <2>1. /\ b \in open /\ n \in 1 .. level[b] /\ level' = [level EXCEPT ![b] = @ - n]
        /\ tbfsize' = [tbfsize EXCEPT ![i] = n] /\ Lives
        /\ UNCHANGED <<main, dir, curr_id, list, listAlive, lister, open, channel>>
    BY <1>3 DEF SnderTake, TB!Take
  <2>2. b \in Dir
    <3>1. open \subseteq 1 .. dir - 1 /\ dir \in 1 .. Dirs + 1 /\ Dirs \in Nat
      BY SizesAssumption DEF ServerIInv, ServerTypeOK
    <3>2. b \in open
      BY <2>1
    <3> HIDE DEF n, b
    <3> QED
      BY <3>1, <3>2 DEF Dir
  <2>3. level[b] \in Nat /\ MAX_DATA \in Nat
    BY <1>1, <2>2, SizesAssumption
  <2>4. n \in 0 .. MAX_DATA
    BY <2>1, <2>3, MinOfTwo
  <2> HIDE DEF n, b
  <2>5. level' \in [Dir -> Nat]
    BY <1>1, <2>1, <2>2, <2>3
  <2>6. tbfsize' \in [Dir -> 0 .. MAX_DATA]
    BY <1>1, <2>1, <2>4
  <2> QED
    BY <1>1, <2>1, <2>5, <2>6, SnderMoves
<1>4. CASE SnderRead(i)
  <2> DEFINE c == channel[list[i]]
             data == IF c.fd = -1 THEN {}
                     ELSE {[c EXCEPT !.offset = @ + k] :
                             k \in 1 .. Min({tbfsize[i], FileLen - c.offset})}
  <2>1. PICK d \in data \cup OpenNext(c) : channel' = [channel EXCEPT ![list[i]] = d]
    BY <1>4 DEF SnderRead
  <2>2. list[i] \in Id => d \in Contexts /\ d.bucket = c.bucket
    <3> SUFFICES ASSUME list[i] \in Id PROVE d \in Contexts /\ d.bucket = c.bucket
      OBVIOUS
    <3>1. c \in Contexts
      BY <1>1
    <3>2. Files \in Nat \ {0} /\ FileLen \in Nat
      BY SizesAssumption
    <3> HIDE DEF c
    <3>3. CASE d \in OpenNext(c)
      <4>1. c.pos \in Nat /\ c.fd \in -1 .. Files - 1
        BY <3>1, <3>2 DEF Contexts
      <4>2. CASE d = [c EXCEPT !.pos = 0, !.fd = IF c.pos + 1 < Files THEN -1 ELSE @]
        <5> DEFINE f == IF c.pos + 1 < Files THEN -1 ELSE c.fd
        <5>1. 0 \in 0 .. Files - 1 /\ f \in -1 .. Files - 1
          BY <3>2, <4>1
        <5>2. d = [c EXCEPT !.pos = 0, !.fd = f]
          BY <4>2
        <5> HIDE DEF f
        <5> QED
          BY <3>1, <5>1, <5>2 DEF Contexts
      <4>3. ASSUME NEW k \in c.pos + 1 .. Files - 1, d = [c EXCEPT !.pos = k, !.fd = k, !.offset = 0]
            PROVE  d \in Contexts /\ d.bucket = c.bucket
        <5>1. k \in 0 .. Files - 1 /\ k \in -1 .. Files - 1 /\ 0 \in 0 .. FileLen
          BY <3>2, <4>1
        <5> QED
          BY <3>1, <4>3, <5>1 DEF Contexts
      <4> QED
        BY <3>3, <4>2, <4>3 DEF OpenNext
    <3>4. CASE d \in data
      <4>1. /\ tbfsize[i] \in Int /\ c.offset \in Nat /\ FileLen - c.offset \in Int
        BY <1>1, <3>1, <3>2, SizesAssumption DEF Contexts
      <4>2. Min({tbfsize[i], FileLen - c.offset}) \in Int
            /\ Min({tbfsize[i], FileLen - c.offset}) =< FileLen - c.offset
        BY <4>1, MinOfTwo
      <4>3. PICK k \in 1 .. Min({tbfsize[i], FileLen - c.offset}) : d = [c EXCEPT !.offset = @ + k]
        BY <3>4
      <4>4. c.offset + k \in 0 .. FileLen
        BY <3>2, <4>1, <4>2, <4>3
      <4> QED
        BY <3>1, <4>3, <4>4 DEF Contexts
    <3> QED
      BY <2>1, <3>3, <3>4
  <2> HIDE DEF data
  <2>3. channel' \in [Id -> Contexts] /\ \A x \in Id : channel'[x].bucket = channel[x].bucket
    BY <1>1, <2>1, <2>2
  <2>4. /\ Lives /\ main' \in {main, "crash"}
        /\ UNCHANGED <<dir, curr_id, list, listAlive, lister, open, level, tbfsize>>
    BY <1>4 DEF SnderRead
  <2> QED
    BY <1>1, <2>3, <2>4, SnderMoves
<1> QED
  BY <1>2, <1>3, <1>4 DEF Snder

\* A refill by thr_alarm keeps the invariant.
LEMMA AlarmStep ==
  ASSUME ServerIInv, NEW b \in Dir, Alarm(b)
  PROVE  ServerIInv'
<1>1. /\ channel \in [Id -> Contexts] /\ level \in [Dir -> Nat] /\ Rate \in Nat /\ Burst \in Nat
      /\ tbfsize \in [Dir -> 0 .. MAX_DATA]
  BY SizesAssumption DEF ServerIInv, ServerTypeOK
<1>2. /\ level' = [level EXCEPT ![b] = TB!Clamp(@ + Rate, Burst)]
      /\ UNCHANGED <<main, dir, curr_id, list, listAlive, lister, open, channel, tbfsize>> /\ Lives
  BY DEF Alarm, TB!Credit, scanVars
<1>3. level' \in [Dir -> Nat]
  BY <1>1, <1>2 DEF TB!Clamp
<1> QED
  BY <1>1, <1>2, <1>3, SnderMoves

\* Every step of the server keeps its invariant.
LEMMA ServerStep ==
  ASSUME ServerIInv, [Next]_vars
  PROVE  ServerIInv'
  BY Same, PrepareStep, ScanStep, CreateStep, ListerStep, ExitStep, SnderStep, AlarmStep DEF Next

\* What another program does is no step of the server.
LEMMA ServerSteps == [SocketNext]_socketVars => [Next]_vars
  BY DEF SocketNext, ServerRuns, DaemonRuns, StreamRuns, ClientRuns, socketVars

\* The server keeps its invariant, whichever program runs.
THEOREM ServerInvariant == SocketSpec => []ServerIInv
<1>1. SocketInit => ServerIInv
  BY ServerStart DEF SocketInit
<1>2. ServerIInv /\ [SocketNext]_socketVars => ServerIInv'
  BY ServerStep, ServerSteps
<1> QED
  BY <1>1, <1>2, PTL DEF SocketSpec

\* As long as the scan has used up no more ids than the table has places, each
\* entry of the list has an id of the table and a context and a bucket of its
\* own, open until module_unload, whichever of the directories fail half-way
\* in mlib_getchnlist and however many there are.
THEOREM EntriesBacked == SocketSpec => []ListBacked
<1>1. ServerIInv => ListBacked
  <2> SUFFICES ASSUME ServerIInv, Fits PROVE ListBacked
    BY DEF ListBacked, Fits
  <2>1. curr_id \in Int /\ MAXCHINID \in Int /\ curr_id - 1 =< MAXCHINID
    BY SizesAssumption, IdsAssumption DEF ServerIInv, ServerTypeOK, Fits, MAXCHINID, MINCHNID
  <2> QED
    BY <2>1 DEF ServerIInv, Entries, Apart, ListBacked, MINCHNID
<1> QED
  BY <1>1, ServerInvariant, PTL

\* daemon_exit does not free the list under thr_list, at whatever point of
\* main SIGTERM comes.
THEOREM ListOutlivesReader == SocketSpec => []ListerReadsLive
<1>1. ServerIInv => ListerReadsLive
  BY DEF ServerIInv, ListerOnce, ListerReadsLive
<1> QED
  BY <1>1, ServerInvariant, PTL

-----------------------------------------------------------------------------
(* The client.  Its invariant speaks of any function that satisfies the    *)
(* equation of Passed, and says that there is one: both follow from the    *)
(* same for one message less.                                              *)

Message == [from : Source, chnid : Channel \cup {C!LISTCHIND}, len : Nat]
Byte == Nat \X Nat

ClientTypeOK ==
  /\ cat \in {"socket", "fork", "list", "choose", "recv", "write", "ended"}
  /\ serveraddr \in Source \cup {"stack"} /\ accepted \in Seq(Message)
  /\ buf \in Seq(Byte) /\ pipe \in Seq(Byte) /\ played \in Seq(Byte) /\ pos \in 0 .. Len(buf)

BytesOf(acc, n) == [k \in 1 .. acc[n].len |-> <<n, k>>]

IsPassed(f, acc) ==
  f = [n \in 0 .. Len(acc) |-> IF n = 0 THEN <<>> ELSE f[n - 1] \o BytesOf(acc, n)]

Fed == (played \o pipe) \o SubSeq(buf, pos + 1, Len(buf))

InOrderFed ==
  /\ \E f : IsPassed(f, accepted)
  /\ \A f : IsPassed(f, accepted) => f[Len(accepted)] = Fed
  /\ cat # "write" => pos = Len(buf)

FromTheSender ==
  /\ cat \in {"socket", "fork", "list", "choose"} => accepted = <<>>
  /\ \A i \in 1 .. Len(accepted) :
       accepted[i].from = serveraddr /\ accepted[i].chnid = choseid

ClientIInv == ClientTypeOK /\ InOrderFed /\ FromTheSender

\* The bytes of no message are none.
LEMMA NonePassed == \A f : IsPassed(f, <<>>) <=> f = [n \in {0} |-> <<>>]
<1>1. 0 .. Len(<<>>) = {0}
  OBVIOUS
<1>2. ASSUME NEW f, f = [n \in {0} |-> <<>>] PROVE IsPassed(f, <<>>)
  BY <1>1, <1>2 DEF IsPassed
<1>3. ASSUME NEW f, IsPassed(f, <<>>) PROVE f = [n \in {0} |-> <<>>]
  BY <1>1, <1>3 DEF IsPassed
<1> QED
  BY <1>2, <1>3

\* A message more.
LEMMA OnePassedMore ==
  ASSUME NEW acc \in Seq(Message), NEW m \in Message
  PROVE  LET more == Append(acc, m) IN
           /\ (\E f : IsPassed(f, acc)) => \E g : IsPassed(g, more)
           /\ \A g : IsPassed(g, more) =>
                \E f : /\ IsPassed(f, acc)
                       /\ g[Len(more)] = f[Len(acc)] \o BytesOf(more, Len(more))
<1> DEFINE more == Append(acc, m)
<1>1. /\ Len(acc) \in Nat /\ Len(more) = Len(acc) + 1
      /\ \A n \in 1 .. Len(acc) : more[n] = acc[n]
  BY AppendProperties, LenProperties
<1>2. \A n \in 1 .. Len(acc) : BytesOf(more, n) = BytesOf(acc, n)
  BY <1>1 DEF BytesOf
<1> HIDE DEF more
<1>3. ASSUME NEW f, IsPassed(f, acc) PROVE \E g : IsPassed(g, more)
  <2> DEFINE g == [n \in 0 .. Len(more) |-> IF n = Len(more) THEN f[Len(acc)] \o BytesOf(more, n)
                                            ELSE f[n]]
  <2>1. \A n \in 0 .. Len(acc) :
          f[n] = IF n = 0 THEN <<>> ELSE f[n - 1] \o BytesOf(acc, n)
    BY <1>3 DEF IsPassed
  <2>2. ASSUME NEW n \in 0 .. Len(more)
        PROVE  g[n] = IF n = 0 THEN <<>> ELSE g[n - 1] \o BytesOf(more, n)
    <3>1. CASE n = Len(more)
      <4>1. n # 0 /\ n - 1 = Len(acc) /\ n - 1 \in 0 .. Len(more) /\ n - 1 # Len(more)
        BY <1>1, <3>1
      <4>2. g[n - 1] = f[Len(acc)] /\ g[n] = f[Len(acc)] \o BytesOf(more, n)
        BY <3>1, <4>1
      <4> QED
        BY <4>1, <4>2
    <3>2. CASE n = 0
      BY <1>1, <2>1, <3>2
    <3>3. CASE n \in 1 .. Len(acc)
      <4>1. g[n] = f[n] /\ g[n - 1] = f[n - 1]
        BY <1>1, <3>3
      <4> QED
        BY <1>1, <1>2, <2>1, <3>3, <4>1
    <3> QED
      BY <1>1, <3>1, <3>2, <3>3
  <2>3. g = [n \in 0 .. Len(more) |-> g[n]]
    OBVIOUS
  <2> HIDE DEF g
  <2>4. g = [n \in 0 .. Len(more) |-> IF n = 0 THEN <<>> ELSE g[n - 1] \o BytesOf(more, n)]
    BY <2>2, <2>3
  <2> QED
    BY <2>4 DEF IsPassed
<1>4. ASSUME NEW g, IsPassed(g, more)
      PROVE  \E f : /\ IsPassed(f, acc)
                    /\ g[Len(more)] = f[Len(acc)] \o BytesOf(more, Len(more))
  <2> DEFINE f == [n \in 0 .. Len(acc) |-> g[n]]
  <2>1. \A n \in 0 .. Len(more) :
          g[n] = IF n = 0 THEN <<>> ELSE g[n - 1] \o BytesOf(more, n)
    BY <1>4 DEF IsPassed
  <2>2. ASSUME NEW n \in 0 .. Len(acc)
        PROVE  f[n] = IF n = 0 THEN <<>> ELSE f[n - 1] \o BytesOf(acc, n)
    <3>1. CASE n = 0
      BY <1>1, <2>1, <3>1
    <3>2. CASE n \in 1 .. Len(acc)
      <4>1. f[n] = g[n] /\ f[n - 1] = g[n - 1]
        BY <1>1, <3>2
      <4> QED
        BY <1>1, <1>2, <2>1, <3>2, <4>1
    <3> QED
      BY <1>1, <3>1, <3>2
  <2>3. f[Len(acc)] = g[Len(acc)] /\ g[Len(more)] = g[Len(acc)] \o BytesOf(more, Len(more))
    <3>1. /\ Len(acc) \in 0 .. Len(acc) /\ Len(more) \in 0 .. Len(more)
          /\ Len(more) # 0 /\ Len(more) - 1 = Len(acc)
      BY <1>1
    <3>2. f[Len(acc)] = g[Len(acc)]
      BY <3>1
    <3> HIDE DEF f
    <3>3. g[Len(more)] = g[Len(more) - 1] \o BytesOf(more, Len(more))
      BY <2>1, <3>1
    <3> QED
      BY <3>1, <3>2, <3>3
  <2>4. f = [n \in 0 .. Len(acc) |-> f[n]]
    OBVIOUS
  <2> HIDE DEF f
  <2>5. IsPassed(f, acc)
    BY <2>2, <2>4 DEF IsPassed
  <2> QED
    BY <2>3, <2>5
<1> QED
  BY <1>3, <1>4 DEF more

\* The client has passed nothing on before its first message.
LEMMA ClientStart == C!Init => ClientIInv
<1> SUFFICES ASSUME C!Init PROVE ClientIInv
  OBVIOUS
<1>1. /\ cat = "socket" /\ serveraddr = "stack" /\ accepted = <<>>
      /\ buf = <<>> /\ pipe = <<>> /\ played = <<>> /\ pos = 0
  BY DEF C!Init
<1>2. ClientTypeOK
  BY <1>1, EmptySeq DEF ClientTypeOK
<1>3. Fed = <<>>
  <2>1. SubSeq(buf, pos + 1, Len(buf)) = <<>>
    BY <1>1, SubSeqEmpty, EmptySeq
  <2> QED
    BY <1>1, <2>1 DEF Fed
<1>4. Len(accepted) = 0 /\ Len(buf) = 0
  BY <1>1
<1>5. InOrderFed
  <2>1. \A f : IsPassed(f, accepted) <=> f = [n \in {0} |-> <<>>]
    BY <1>1, NonePassed
  <2> QED
    BY <1>1, <1>3, <1>4, <2>1 DEF InOrderFed
<1>6. FromTheSender
  BY <1>1, <1>4 DEF FromTheSender
<1> QED
  BY <1>2, <1>5, <1>6 DEF ClientIInv

\* A step that receives no channel message, writes nothing and reads nothing
\* keeps the invariant, if the choice is made before the first message.
LEMMA ClientSame ==
  ASSUME ClientIInv, UNCHANGED <<buf, pos, pipe, played, accepted>>,
         serveraddr' \in Source \cup {"stack"},
         cat' \in {"socket", "fork", "list", "choose", "recv", "write", "ended"},
         cat' = "write" <=> cat = "write",
         cat' \in {"socket", "fork", "list", "choose"} => accepted = <<>>,
         accepted = <<>> \/ UNCHANGED <<serveraddr, choseid>>
  PROVE  ClientIInv'
<1>1. ClientTypeOK'
  BY DEF ClientIInv, ClientTypeOK
<1>2. Fed' = Fed
  BY DEF Fed
<1>3. InOrderFed'
  BY <1>2 DEF ClientIInv, InOrderFed
<1>4. FromTheSender'
  BY DEF ClientIInv, FromTheSender
<1> QED
  BY <1>1, <1>3, <1>4 DEF ClientIInv

\* A message of the chosen channel of the list's sender goes whole to writen;
\* any other is passed over.
LEMMA RecvChannelStep ==
  ASSUME ClientIInv, C!RecvChannel
  PROVE  ClientIInv'
<1> USE DEF C!feed
<1>1. PICK s \in Source, id \in Channel \cup {C!LISTCHIND}, len \in 1 .. MAX_DATA :
        IF C!Matches(s, id)
        THEN /\ accepted' = Append(accepted, [from |-> s, chnid |-> id, len |-> len])
             /\ buf' = [k \in 1 .. len |-> <<Len(accepted'), k>>] /\ pos' = 0
             /\ cat' = "write"
        ELSE UNCHANGED <<cat, C!writes>>
  BY DEF C!RecvChannel
<1>2. cat = "recv" /\ UNCHANGED <<serveraddr, choseid, pipe, played>>
  BY DEF C!RecvChannel
<1>3. CASE ~C!Matches(s, id)
  BY <1>1, <1>2, <1>3, ClientSame DEF C!writes, ClientIInv, ClientTypeOK
<1>4. CASE C!Matches(s, id)
  <2> DEFINE m == [from |-> s, chnid |-> id, len |-> len]
  <2>1. /\ accepted' = Append(accepted, m) /\ pos' = 0 /\ cat' = "write"
        /\ buf' = [k \in 1 .. len |-> <<Len(accepted'), k>>]
    BY <1>1, <1>4
  <2>2. m \in Message /\ m.len = len /\ m.from = s /\ m.chnid = id /\ len \in Nat
    BY DEF Message
  <2> HIDE DEF m
  <2>3. /\ accepted \in Seq(Message) /\ buf \in Seq(Byte) /\ pipe \in Seq(Byte) /\ played \in Seq(Byte)
        /\ pos = Len(buf) /\ serveraddr \in Source \cup {"stack"}
    BY <1>2 DEF ClientIInv, ClientTypeOK, InOrderFed
  <2>4. /\ accepted' \in Seq(Message) /\ Len(accepted') = Len(accepted) + 1 /\ Len(accepted) \in Nat
        /\ accepted'[Len(accepted')] = m
        /\ \A i \in 1 .. Len(accepted) : accepted'[i] = accepted[i]
    BY <2>1, <2>2, <2>3, AppendProperties, LenProperties
  <2>5. buf' = BytesOf(accepted', Len(accepted'))
    BY <2>1, <2>2, <2>4 DEF BytesOf
  <2>6. buf' \in Seq(Byte) /\ Len(buf') = len
    BY <2>1, <2>2, <2>4 DEF Byte
  <2>7. SubSeq(buf', pos' + 1, Len(buf')) = buf' /\ SubSeq(buf, pos + 1, Len(buf)) = <<>>
    BY <2>1, <2>3, <2>6, SubSeqFull, SubSeqEmpty, LenProperties
  <2>8. Fed = played \o pipe /\ Fed' = (played \o pipe) \o buf'
    <3>1. played \o pipe \in Seq(Byte)
      BY <2>3, ConcatProperties
    <3>2. (played \o pipe) \o <<>> = played \o pipe
      BY <3>1, ConcatEmptySeq
    <3> QED
      BY <1>2, <2>7, <3>2 DEF Fed
  <2>9. InOrderFed'
    <3>1. \E f : IsPassed(f, accepted')
      BY <2>1, <2>2, <2>3, OnePassedMore DEF ClientIInv, InOrderFed
    <3>2. ASSUME NEW g, IsPassed(g, accepted') PROVE g[Len(accepted')] = Fed'
      <4>1. PICK f : /\ IsPassed(f, accepted)
                     /\ g[Len(accepted')] = f[Len(accepted)] \o BytesOf(accepted', Len(accepted'))
        BY <2>1, <2>2, <2>3, <3>2, OnePassedMore
      <4>2. f[Len(accepted)] = Fed
        BY <4>1 DEF ClientIInv, InOrderFed
      <4> QED
        BY <2>5, <2>8, <4>1, <4>2
    <3> QED
      BY <2>1, <3>1, <3>2 DEF InOrderFed
  <2>10. FromTheSender'
    <3>1. s = serveraddr /\ id = choseid
      BY <1>4, <2>3, SourceAssumption DEF C!Matches, C!Sender
    <3>2. \A i \in 1 .. Len(accepted') : i \in 1 .. Len(accepted) \/ i = Len(accepted')
      BY <2>4
    <3> QED
      BY <1>2, <2>1, <2>2, <2>4, <3>1, <3>2 DEF ClientIInv, FromTheSender
  <2>11. ClientTypeOK'
    BY <1>2, <2>1, <2>3, <2>4, <2>6 DEF ClientTypeOK
  <2> QED
    BY <2>9, <2>10, <2>11 DEF ClientIInv
<1> QED
  BY <1>3, <1>4

\* What a write takes from the buffer is in the pipe.
LEMMA writenStep ==
  ASSUME ClientIInv, C!writen
  PROVE  ClientIInv'
<1>1. /\ accepted \in Seq(Message) /\ buf \in Seq(Byte) /\ pipe \in Seq(Byte) /\ played \in Seq(Byte)
      /\ pos \in 0 .. Len(buf) /\ Len(buf) \in Nat
  BY LenProperties DEF ClientIInv, ClientTypeOK
<1>2. PICK k \in 1 .. Len(buf) - pos : /\ pipe' = pipe \o SubSeq(buf, pos + 1, pos + k)
                                       /\ pos' = pos + k
  BY DEF C!writen
<1>3. /\ cat = "write" /\ cat' = IF pos' = Len(buf) THEN "recv" ELSE "write"
      /\ UNCHANGED <<serveraddr, choseid, played, buf, accepted>>
  BY DEF C!writen
<1>4. pos + 1 \in 1 .. Len(buf) + 1 /\ pos + k \in pos .. Len(buf) /\ Len(buf) \in pos + k .. Len(buf)
      /\ pos' \in 0 .. Len(buf)
  BY <1>1, <1>2
<1>5. SubSeq(buf, pos + 1, pos + k) \o SubSeq(buf, pos + k + 1, Len(buf)) = SubSeq(buf, pos + 1, Len(buf))
  <2>1. pos = (pos + 1) - 1
    BY <1>1
  <2> QED
    BY <1>1, <1>4, <2>1, ConcatAdjacentSubSeq
<1>6. \A i \in 1 .. Len(buf) : buf[i] \in Byte
  BY <1>1, ElementOfSeq
<1>7. SubSeq(buf, pos + 1, pos + k) \in Seq(Byte) /\ SubSeq(buf, pos + k + 1, Len(buf)) \in Seq(Byte)
  BY <1>1, <1>4, <1>6, SubSeqProperties
<1>8. PICK next \in Seq(Byte), rest \in Seq(Byte) :
        next = SubSeq(buf, pos + 1, pos + k) /\ rest = SubSeq(buf, pos + k + 1, Len(buf))
  BY <1>7
<1>9. Fed' = Fed
  <2>1. PICK heard \in Seq(Byte), coming \in Seq(Byte) :
          heard = played \o pipe /\ coming = pipe \o next
    BY <1>1, ConcatProperties
  <2>2. played \o coming = heard \o next
    <3>1. played \in Seq(Byte) /\ pipe \in Seq(Byte)
      BY <1>1
    <3>2. played \o (pipe \o next) = (played \o pipe) \o next
      BY <3>1
    <3> QED
      BY <2>1, <3>2
  <2>3. heard \o (next \o rest) = (heard \o next) \o rest
    OBVIOUS
  <2>4. Fed = heard \o (next \o rest)
    BY <1>5, <1>8, <2>1 DEF Fed
  <2>5. Fed' = (played \o coming) \o rest
    BY <1>2, <1>3, <1>8, <2>1 DEF Fed
  <2> QED
    BY <2>2, <2>3, <2>4, <2>5
<1>10. ClientTypeOK'
  <2>1. pipe \o next \in Seq(Byte)
    BY <1>1, ConcatProperties
  <2> QED
    BY <1>1, <1>2, <1>3, <1>4, <1>8, <2>1 DEF ClientIInv, ClientTypeOK
<1>11. InOrderFed' /\ FromTheSender'
  BY <1>3, <1>9 DEF ClientIInv, InOrderFed, FromTheSender
<1> QED
  BY <1>10, <1>11 DEF ClientIInv

\* The player's read moves a byte from the pipe to what it has heard.
LEMMA PlayStep ==
  ASSUME ClientIInv, C!Play
  PROVE  ClientIInv'
<1>1. /\ pipe \in Seq(Byte) /\ played \in Seq(Byte) /\ pipe # <<>> /\ Len(pipe) \in Nat \ {0}
      /\ Len(pipe) \in Nat
  BY EmptySeq DEF C!Play, ClientIInv, ClientTypeOK
<1>2. /\ played' = Append(played, Head(pipe)) /\ pipe' = Tail(pipe)
      /\ UNCHANGED <<cat, serveraddr, choseid, buf, pos, accepted>>
  BY DEF C!Play, C!writes
<1>3. Head(pipe) \in Byte /\ Tail(pipe) \in Seq(Byte) /\ Head(pipe) = pipe[1]
  BY <1>1, HeadTailProperties
<1>4. pipe = <<Head(pipe)>> \o Tail(pipe)
  <2>1. SubSeq(pipe, 1, Len(pipe)) = <<pipe[1]>> \o SubSeq(pipe, 1 + 1, Len(pipe))
    BY <1>1, SubSeqRecursiveFirst
  <2> QED
    BY <1>1, <1>3, <2>1, SubSeqFull, TailIsSubSeq
<1>5. played' = played \o <<Head(pipe)>> /\ played' \in Seq(Byte)
  BY <1>1, <1>2, <1>3, AppendIsConcat, AppendProperties
<1>6. Fed' = Fed
  <2>1. <<Head(pipe)>> \in Seq(Byte)
    BY <1>3
  <2>2. (played \o <<Head(pipe)>>) \o Tail(pipe) = played \o (<<Head(pipe)>> \o Tail(pipe))
    BY <1>1, <1>3, <2>1, ConcatAssociative
  <2> QED
    BY <1>2, <1>4, <1>5, <2>2 DEF Fed
<1>7. ClientTypeOK'
  BY <1>2, <1>3, <1>5 DEF ClientIInv, ClientTypeOK
<1>8. InOrderFed' /\ FromTheSender'
  BY <1>2, <1>6 DEF ClientIInv, InOrderFed, FromTheSender
<1> QED
  BY <1>7, <1>8 DEF ClientIInv

\* Every step of the client keeps its invariant.
LEMMA ClientStep ==
  ASSUME ClientIInv, C!Next
  PROVE  ClientIInv'
<1> USE DEF C!feed, C!writes
<1>1. /\ serveraddr \in Source \cup {"stack"}
      /\ cat \in {"socket", "fork", "list", "choose", "recv", "write", "ended"}
      /\ cat \in {"socket", "fork", "list", "choose"} => accepted = <<>>
  BY DEF ClientIInv, ClientTypeOK, FromTheSender
<1>2. CASE C!Prepare
  BY <1>1, <1>2, ClientSame DEF C!Prepare
<1>3. CASE C!Fork
  BY <1>1, <1>3, ClientSame DEF C!Fork
<1>4. CASE C!RecvList
  BY <1>1, <1>4, ClientSame DEF C!RecvList
<1>5. CASE C!Choose
  BY <1>1, <1>5, ClientSame DEF C!Choose
<1>6. CASE C!PlayerEnds \/ C!RecvFails
  BY <1>1, <1>6, ClientSame DEF C!PlayerEnds, C!RecvFails
<1> QED
  BY <1>2, <1>3, <1>4, <1>5, <1>6, RecvChannelStep, writenStep, PlayStep DEF C!Next

\* The client keeps its invariant, whichever program runs.
THEOREM ClientInvariant == SocketSpec => []ClientIInv
<1>1. SocketInit => ClientIInv
  BY ClientStart DEF SocketInit
<1>2. ClientIInv /\ [SocketNext]_socketVars => ClientIInv'
  <2>1. ClientIInv /\ UNCHANGED clientVars => ClientIInv'
    BY ClientSame DEF clientVars, ClientIInv, ClientTypeOK, FromTheSender
  <2> QED
    BY <2>1, ClientStep DEF SocketNext, ServerRuns, DaemonRuns, StreamRuns, ClientRuns, socketVars
<1> QED
  BY <1>1, <1>2, PTL DEF SocketSpec

\* The player hears the messages of the chosen channel of the list's sender,
\* whole and in order, however the network mixes the senders and however
\* little of a message each write puts into the pipe.
THEOREM PlayerHearsItsChannel == SocketSpec => []PlayerFed
<1>1. ClientIInv => PlayerFed
  <2> SUFFICES ASSUME ClientIInv PROVE PlayerFed
    OBVIOUS
  <2>1. IsPassed(C!Passed, accepted)
    <3>1. PICK f : IsPassed(f, accepted)
      BY DEF ClientIInv, InOrderFed
    <3> QED
      BY <3>1 DEF IsPassed, BytesOf, C!Passed
  <2> QED
    BY <2>1 DEF ClientIInv, InOrderFed, FromTheSender, Fed, PlayerFed, C!PlayerFed
<1> QED
  BY <1>1, ClientInvariant, PTL

-----------------------------------------------------------------------------
(* The stream servers. *)

\* The first free process is a free one.
LEMMA FirstFree ==
  ASSUME S!Free # {}
  PROVE  S!Min(S!Free) \in S!Free
<1>1. S!Free \subseteq Nat
  BY ChildrenAssumption DEF S!Free, S!Proc
<1>2. \E x \in S!Free : \A y \in S!Free : <<y, x>> \notin OpToRel(<, Nat)
  <2>1. IsWellFoundedOn(OpToRel(<, Nat), Nat)
    BY NatLessThanWellFounded
  <2> DEFINE R == OpToRel(<, Nat)
  <2> HIDE DEF R
  <2>2. IsWellFoundedOn(R, Nat)
    BY <2>1 DEF R
  <2>3. \E x \in S!Free : \A y \in S!Free : ~(<<y, x>> \in R)
    BY <1>1, <2>2, WFMin, Zenon
  <2> QED
    BY <2>3 DEF R
<1>3. ASSUME NEW x \in S!Free, NEW y \in S!Free, <<y, x>> \notin OpToRel(<, Nat) PROVE x =< y
  <2>1. ~(y < x)
    BY <1>1, <1>3 DEF OpToRel
  <2> QED
    BY <1>1, <2>1
<1>4. \E x \in S!Free : \A y \in S!Free : x =< y
  BY <1>2, <1>3
<1> QED
  BY <1>4 DEF S!Min

\* Nothing is open, no client has connected.
LEMMA StreamStart == S!Init => S!IInv
<1> SUFFICES ASSUME S!Init PROVE S!IInv
  OBVIOUS
<1>1. 0 \in S!Proc /\ PROCNUM \in S!Proc \ {0}
  BY ChildrenAssumption DEF S!Proc
<1>2. S!TypeOK
  BY EmptySeq DEF S!Init, S!TypeOK
<1>3. S!NotOpenYet
  BY <1>1 DEF S!Init, S!NotOpenYet
<1> QED
  BY <1>2, <1>3 DEF S!Init, S!IInv, S!StampToCome, S!NoneTurnedAway

\* The invariant speaks of these variables only.
LEMMA StreamSame ==
  ASSUME S!IInv, UNCHANGED streamVars
  PROVE  S!IInv'
  BY DEF streamVars, S!IInv, S!TypeOK, S!NotOpenYet, S!StampToCome, S!InHand, S!NoneTurnedAway

\* A process may end that has no stamp left to send; so may main.
LEMMA ProcessEnds ==
  ASSUME S!IInv, NEW p \in S!Proc, S!Ends(p), sat[p] # "none",
         \/ p = 0 \/ sat[p] \notin {"child", "job", "fork"}
         \/ sat[p] = "job" /\ client[newsd[p]] = "gone"
  PROVE  S!IInv'
<1>1. /\ sat' = [sat EXCEPT ![p] = "over"] /\ newsd' = [newsd EXCEPT ![p] = 0]
      /\ listeners' = listeners \ {p} /\ holders' = [c \in S!Client |-> holders[c] \ {p}]
      /\ UNCHANGED <<kind, backlog, sent, client>>
  BY DEF S!Ends
<1>2. 0 \in S!Proc /\ PROCNUM \in S!Proc \ {0}
  BY ChildrenAssumption DEF S!Proc
<1>3. S!TypeOK'
  <2>1. newsd' \in [S!Proc -> S!Client \cup {0}] /\ holders' \in [S!Client -> SUBSET S!Proc]
    BY <1>1 DEF S!IInv, S!TypeOK
  <2> QED
    BY <1>1, <2>1 DEF S!IInv, S!TypeOK
<1>4. S!NotOpenYet'
  BY <1>1, <1>2 DEF S!IInv, S!TypeOK, S!NotOpenYet
<1>5. S!StampToCome'
  <2> SUFFICES ASSUME NEW c \in S!Client, client[c] = "reads", 0 \in listeners',
                      c \notin S!ToSet(backlog), c \notin sent
               PROVE  S!InHand(c)'
    BY <1>1 DEF S!StampToCome, S!ToSet
  <2>1. p # 0 /\ S!InHand(c)
    BY <1>1 DEF S!IInv, S!StampToCome
  <2>2. PICK r \in holders[c] : /\ newsd[r] = c
                                /\ sat[r] \in {"child", "job"} \/ (sat[r] = "fork" /\ kind = "para")
    BY <2>1 DEF S!InHand
  <2>3. r # p
    BY <2>1, <2>2
  <2>4. r \in holders'[c] /\ newsd'[r] = newsd[r] /\ sat'[r] = sat[r]
    BY <1>1, <2>2, <2>3 DEF S!IInv, S!TypeOK
  <2> QED
    BY <1>1, <2>2, <2>4 DEF S!InHand
<1>6. S!NoneTurnedAway'
  BY <1>1 DEF S!IInv, S!NoneTurnedAway
<1> QED
  BY <1>3, <1>4, <1>5, <1>6 DEF S!IInv

\* A step that neither opens nor closes and leaves the clients as they are
\* keeps the invariant if the connections in hand stay in hand.
LEMMA HandsOn ==
  ASSUME S!IInv, S!TypeOK', S!NotOpenYet', UNCHANGED client,
         0 \in listeners' => 0 \in listeners, sent \subseteq sent',
         \A c \in S!Client : c \in S!ToSet(backlog) =>
                               c \in S!ToSet(backlog)' \/ S!InHand(c)',
         \A c \in S!Client : S!InHand(c) => c \in sent' \/ S!InHand(c)'
  PROVE  S!IInv'
<1>1. S!StampToCome'
  BY DEF S!IInv, S!StampToCome
<1>2. S!NoneTurnedAway'
  BY DEF S!IInv, S!NoneTurnedAway
<1> QED
  BY <1>1, <1>2 DEF S!IInv

\* Who has the client's connection in hand still has after a step that takes it
\* from nobody and moves nobody who has something to send.
LEMMA StillInHand ==
  ASSUME S!TypeOK, NEW c \in S!Client, S!InHand(c), kind' = kind, holders[c] \subseteq holders'[c],
         \A r \in S!Proc :
           newsd[r] = c /\ (sat[r] \in {"child", "job"} \/ (sat[r] = "fork" /\ kind = "para")) =>
             newsd'[r] = newsd[r] /\ sat'[r] = sat[r]
  PROVE  S!InHand(c)'
  BY DEF S!TypeOK, S!InHand

\* socket to listen: no client has come yet.
LEMMA ListenStep ==
  ASSUME S!IInv, S!Listen
  PROVE  S!IInv'
<1>1. 0 \in S!Proc /\ PROCNUM \in S!Proc \ {0}
  BY ChildrenAssumption DEF S!Proc
<1>2. \A c \in S!Client : client'[c] \in {"out", "refused"}
  BY DEF S!Listen, S!IInv, S!NotOpenYet
<1>3. S!TypeOK'
  BY <1>1 DEF S!Listen, S!IInv, S!TypeOK
<1>4. S!NotOpenYet'
  BY <1>1 DEF S!Listen, S!IInv, S!TypeOK, S!NotOpenYet
<1> QED
  BY <1>2, <1>3, <1>4 DEF S!IInv, S!StampToCome, S!NoneTurnedAway

\* A child for the pool; main has no connection in hand.
LEMMA PoolForkStep ==
  ASSUME S!IInv, S!PoolFork
  PROVE  S!IInv'
<1>1. 0 \in S!Proc /\ PROCNUM \in S!Proc \ {0} /\ sat[0] = "fork" /\ kind = "pool"
      /\ UNCHANGED <<kind, newsd, holders, backlog, sent, client>>
  BY ChildrenAssumption DEF S!Proc, S!PoolFork
<1>2. PICK q \in S!Free :
        /\ listeners' = listeners \cup {q}
        /\ sat' = [sat EXCEPT ![q] = "accept", ![0] = IF q = PROCNUM THEN "wait" ELSE @]
  <2>1. PROCNUM \in S!Free
    BY <1>1 DEF S!Free, S!IInv, S!NotOpenYet
  <2> QED
    BY <2>1, FirstFree DEF S!PoolFork
<1>3. q \in S!Proc /\ sat[q] = "none" /\ q # 0
  BY <1>1, <1>2 DEF S!Free
<1>4. S!TypeOK'
  BY <1>1, <1>2, <1>3 DEF S!IInv, S!TypeOK
<1>5. S!NotOpenYet'
  BY <1>1, <1>2, <1>3 DEF S!IInv, S!TypeOK, S!NotOpenYet
<1>6. ASSUME NEW c \in S!Client, S!InHand(c) PROVE S!InHand(c)'
  <2>1. \A r \in S!Proc : sat[r] \in {"child", "job"} => sat'[r] = sat[r]
    BY <1>1, <1>2, <1>3 DEF S!IInv, S!TypeOK
  <2> QED
    BY <1>1, <1>6, <2>1, StillInHand DEF S!IInv
<1> QED
  BY <1>1, <1>2, <1>3, <1>4, <1>5, <1>6, HandsOn DEF S!ToSet

\* A child for the client: the connection is in its hands when main's copy
\* of it is closed.
LEMMA ParaForkStep ==
  ASSUME S!IInv, S!ParaFork
  PROVE  S!IInv'
<1>1. 0 \in S!Proc /\ sat[0] = "fork" /\ kind = "para" /\ UNCHANGED <<kind, backlog, sent, client>>
  BY ChildrenAssumption DEF S!Proc, S!ParaFork
<1>2. PICK q \in S!Free :
        /\ newsd' = [newsd EXCEPT ![q] = newsd[0]]
        /\ holders' = [holders EXCEPT ![newsd[0]] = @ \cup {q}]
        /\ listeners' = listeners \cup {q}
        /\ sat' = [sat EXCEPT ![q] = "child", ![0] = "close"]
  BY FirstFree DEF S!ParaFork
<1>3. q \in S!Proc /\ sat[q] = "none" /\ q # 0
  BY <1>1, <1>2 DEF S!Free
<1>4. S!TypeOK'
  <2>1. newsd' \in [S!Proc -> S!Client \cup {0}] /\ holders' \in [S!Client -> SUBSET S!Proc]
    BY <1>1, <1>2, <1>3 DEF S!IInv, S!TypeOK
  <2> QED
    BY <1>1, <1>2, <1>3, <2>1 DEF S!IInv, S!TypeOK
<1>5. S!NotOpenYet'
  BY <1>1, <1>2, <1>3 DEF S!IInv, S!TypeOK, S!NotOpenYet
<1>6. ASSUME NEW c \in S!Client, S!InHand(c) PROVE S!InHand(c)'
  <2>1. CASE newsd[0] = c
    <3>1. q \in holders'[c] /\ newsd'[q] = c /\ sat'[q] = "child"
      BY <1>1, <1>2, <1>3, <2>1 DEF S!IInv, S!TypeOK
    <3> QED
      BY <3>1 DEF S!InHand
  <2>2. CASE newsd[0] # c
    <3>1. holders[c] \subseteq holders'[c]
      BY <1>2 DEF S!IInv, S!TypeOK
    <3>2. \A r \in S!Proc : r # 0 /\ r # q => newsd'[r] = newsd[r] /\ sat'[r] = sat[r]
      BY <1>2 DEF S!IInv, S!TypeOK
    <3> QED
      BY <1>1, <1>3, <1>6, <2>2, <3>1, <3>2, StillInHand DEF S!IInv
  <2> QED
    BY <2>1, <2>2
<1> QED
  BY <1>1, <1>2, <1>3, <1>4, <1>5, <1>6, HandsOn DEF S!ToSet

\* The child closes sd.
LEMMA ParaChildStep ==
  ASSUME S!IInv, NEW q \in S!Proc, S!ParaChild(q)
  PROVE  S!IInv'
<1>1. /\ sat[q] = "child" /\ sat' = [sat EXCEPT ![q] = "job"] /\ listeners' = listeners \ {q}
      /\ UNCHANGED <<kind, newsd, holders, backlog, sent, client>>
      /\ 0 \in S!Proc /\ PROCNUM \in S!Proc \ {0}
  BY ChildrenAssumption DEF S!ParaChild, S!Proc
<1>2. S!TypeOK'
  BY <1>1 DEF S!IInv, S!TypeOK
<1>3. S!NotOpenYet'
  BY <1>1 DEF S!IInv, S!TypeOK, S!NotOpenYet
<1>4. ASSUME NEW c \in S!Client, S!InHand(c) PROVE S!InHand(c)'
  <2>1. \A r \in S!Proc : sat'[r] = sat[r] \/ (r = q /\ sat'[r] = "job")
    BY <1>1 DEF S!IInv, S!TypeOK
  <2> QED
    BY <1>1, <1>4, <2>1 DEF S!IInv, S!TypeOK, S!InHand
<1> QED
  BY <1>1, <1>2, <1>3, <1>4, HandsOn DEF S!ToSet

\* The first client in the queue goes into the hands of the process.
LEMMA AcceptStep ==
  ASSUME S!IInv, NEW p \in S!Proc, S!Accept(p)
  PROVE  S!IInv'
<1>0. PICK c \in S!Client : c = Head(backlog)
  BY HeadTailProperties DEF S!Accept, S!IInv, S!TypeOK
<1>1. /\ sat[p] = "accept" /\ backlog # <<>> /\ newsd' = [newsd EXCEPT ![p] = c]
      /\ holders' = [holders EXCEPT ![c] = {p}] /\ backlog' = Tail(backlog)
      /\ sat' = [sat EXCEPT ![p] = IF kind = "para" THEN "fork" ELSE "job"]
      /\ UNCHANGED <<kind, listeners, sent, client>>
      /\ 0 \in S!Proc /\ PROCNUM \in S!Proc \ {0}
  BY <1>0, ChildrenAssumption DEF S!Accept, S!Proc
<1>2. /\ backlog \in Seq(S!Client) /\ c \in S!Client /\ backlog' \in Seq(S!Client)
      /\ Len(backlog') = Len(backlog) - 1 /\ Len(backlog) \in Nat
      /\ \A i \in 1 .. Len(backlog') : backlog'[i] = backlog[i + 1]
      /\ c = backlog[1]
  BY <1>0, <1>1, HeadTailProperties DEF S!IInv, S!TypeOK
<1>3. S!TypeOK'
  <2>1. newsd' \in [S!Proc -> S!Client \cup {0}] /\ holders' \in [S!Client -> SUBSET S!Proc]
    BY <1>1, <1>2 DEF S!IInv, S!TypeOK
  <2> QED
    BY <1>1, <1>2, <2>1 DEF S!IInv, S!TypeOK
<1>4. S!NotOpenYet'
  BY <1>1 DEF S!IInv, S!TypeOK, S!NotOpenYet
<1>5. S!InHand(c)'
  <2>1. /\ p \in holders'[c] /\ newsd'[p] = c
        /\ sat'[p] = "job" \/ (sat'[p] = "fork" /\ kind' = "para")
    BY <1>1, <1>2 DEF S!IInv, S!TypeOK
  <2> QED
    BY <2>1 DEF S!InHand
<1>6. ASSUME NEW d \in S!Client, d \in S!ToSet(backlog) PROVE d = c \/ d \in S!ToSet(backlog)'
  <2>1. PICK i \in 1 .. Len(backlog) : d = backlog[i]
    BY <1>2, <1>6 DEF S!ToSet
  <2>2. CASE i = 1
    BY <1>2, <2>1, <2>2
  <2>3. CASE i # 1
    <3>1. i - 1 \in 1 .. Len(backlog') /\ backlog'[i - 1] = d
      BY <1>2, <2>1, <2>3
    <3>2. i - 1 \in DOMAIN backlog'
      BY <1>2, <3>1
    <3> QED
      BY <3>1, <3>2 DEF S!ToSet
  <2> QED
    BY <2>2, <2>3
<1>7. ASSUME NEW d \in S!Client, S!InHand(d) PROVE S!InHand(d)'
  <2>1. CASE d = c
    BY <1>5, <2>1
  <2>2. CASE d # c
    <3>1. holders'[d] = holders[d]
      BY <1>1, <2>2 DEF S!IInv, S!TypeOK
    <3>2. \A r \in S!Proc : r # p => newsd'[r] = newsd[r] /\ sat'[r] = sat[r]
      BY <1>1 DEF S!IInv, S!TypeOK
    <3> QED
      BY <1>1, <1>7, <3>1, <3>2, StillInHand DEF S!IInv
  <2> QED
    BY <2>1, <2>2
<1> QED
  BY <1>1, <1>3, <1>4, <1>5, <1>6, <1>7, HandsOn

\* The stamp is sent, or the process ends with a client that is gone.
LEMMA JobStep ==
  ASSUME S!IInv, NEW p \in S!Proc, S!server_job(p)
  PROVE  S!IInv'
<1>1. CASE client[newsd[p]] = "gone" /\ S!Ends(p)
  BY <1>1, ProcessEnds DEF S!server_job
<1>2. CASE /\ sent' = sent \cup {newsd[p]} /\ sat' = [sat EXCEPT ![p] = "close"]
           /\ UNCHANGED <<kind, newsd, listeners, holders, backlog, client>>
  <2>1. sat[p] = "job" /\ 0 \in S!Proc /\ PROCNUM \in S!Proc \ {0}
    BY ChildrenAssumption DEF S!server_job, S!Proc
  <2>2. S!TypeOK'
    BY <1>2 DEF S!IInv, S!TypeOK
  <2>3. S!NotOpenYet'
    BY <1>2, <2>1 DEF S!IInv, S!TypeOK, S!NotOpenYet
  <2>4. ASSUME NEW c \in S!Client, S!InHand(c) PROVE c \in sent' \/ S!InHand(c)'
    <3>1. CASE newsd[p] = c
      BY <1>2, <3>1
    <3>2. CASE newsd[p] # c
      <4>1. \A r \in S!Proc : r # p => sat'[r] = sat[r]
        BY <1>2 DEF S!IInv, S!TypeOK
      <4> QED
        BY <1>2, <2>4, <3>2, <4>1, StillInHand DEF S!IInv
    <3> QED
      BY <3>1, <3>2
  <2> QED
    BY <1>2, <2>2, <2>3, <2>4, HandsOn DEF S!ToSet
<1> QED
  BY <1>1, <1>2 DEF S!server_job

\* A process closes a connection only after server_job, or in main of 02para,
\* when its child has it.
LEMMA CloseStep ==
  ASSUME S!IInv, NEW p \in S!Proc, S!Close(p)
  PROVE  S!IInv'
<1>1. CASE S!ChildOfPara(p)
  BY <1>1, ProcessEnds DEF S!Close
<1>2. CASE ~S!ChildOfPara(p)
  <2>1. /\ sat[p] = "close" /\ 0 \in S!Proc /\ PROCNUM \in S!Proc \ {0}
        /\ holders' = [holders EXCEPT ![newsd[p]] = @ \ {p}]
        /\ newsd' = [newsd EXCEPT ![p] = 0] /\ sat' = [sat EXCEPT ![p] = "accept"]
        /\ UNCHANGED <<kind, listeners, backlog, sent, client>>
    BY <1>2, ChildrenAssumption DEF S!Close, S!Proc, S!sockets
  <2>2. S!TypeOK'
    <3>1. newsd' \in [S!Proc -> S!Client \cup {0}] /\ holders' \in [S!Client -> SUBSET S!Proc]
      BY <2>1 DEF S!IInv, S!TypeOK
    <3> QED
      BY <2>1, <3>1 DEF S!IInv, S!TypeOK
  <2>3. S!NotOpenYet'
    BY <2>1 DEF S!IInv, S!TypeOK, S!NotOpenYet
  <2>4. ASSUME NEW c \in S!Client, S!InHand(c) PROVE S!InHand(c)'
    <3>1. PICK r \in holders[c] :
            /\ newsd[r] = c
            /\ sat[r] \in {"child", "job"} \/ (sat[r] = "fork" /\ kind = "para")
      BY <2>4 DEF S!InHand
    <3>2. r # p /\ r \in S!Proc
      BY <2>1, <3>1 DEF S!IInv, S!TypeOK
    <3>3. r \in holders'[c] /\ newsd'[r] = c /\ sat'[r] = sat[r]
      BY <2>1, <3>1, <3>2 DEF S!IInv, S!TypeOK
    <3> QED
      BY <2>1, <3>1, <3>3 DEF S!InHand
  <2> QED
    BY <2>1, <2>2, <2>3, <2>4, HandsOn DEF S!ToSet
<1> QED
  BY <1>1, <1>2

\* connect: into the queue, if anybody listens.
LEMMA ConnectStep ==
  ASSUME S!IInv, NEW c \in S!Client, S!Connect(c)
  PROVE  S!IInv'
<1>1. /\ client[c] = "out" /\ UNCHANGED <<kind, sat, newsd, listeners, holders, sent>>
      /\ backlog \in Seq(S!Client) /\ client \in [S!Client ->
                      {"out", "reads", "stamp", "bad", "refused", "gone"}]
  BY DEF S!Connect, S!IInv, S!TypeOK
<1>2. \A d \in S!Client : S!InHand(d)' <=> S!InHand(d)
  BY <1>1 DEF S!InHand
<1>3. CASE listeners = {} /\ client' = [client EXCEPT ![c] = "refused"] /\ backlog' = backlog
  <2>1. S!TypeOK' /\ S!NotOpenYet'
    BY <1>1, <1>3 DEF S!IInv, S!TypeOK, S!NotOpenYet
  <2>2. S!StampToCome' /\ S!NoneTurnedAway'
    BY <1>1, <1>3 DEF S!IInv, S!StampToCome, S!NoneTurnedAway
  <2> QED
    BY <2>1, <2>2 DEF S!IInv
<1>4. CASE /\ listeners # {} /\ client' = [client EXCEPT ![c] = "reads"]
           /\ backlog' = Append(backlog, c)
  <2>1. /\ backlog' \in Seq(S!Client) /\ Len(backlog') = Len(backlog) + 1
        /\ Len(backlog) \in Nat /\ backlog'[Len(backlog) + 1] = c
        /\ \A i \in 1 .. Len(backlog) : backlog'[i] = backlog[i]
    BY <1>1, <1>4, AppendProperties, LenProperties
  <2>2. S!TypeOK' /\ S!NotOpenYet'
    BY <1>1, <1>4, <2>1 DEF S!IInv, S!TypeOK, S!NotOpenYet
  <2>3. DOMAIN backlog = 1 .. Len(backlog) /\ DOMAIN backlog' = 1 .. Len(backlog) + 1
    BY <1>1, <2>1, LenProperties
  <2>4. c \in S!ToSet(backlog)' /\ S!ToSet(backlog) \subseteq S!ToSet(backlog)'
    BY <2>1, <2>3 DEF S!ToSet
  <2>5. S!StampToCome'
    BY <1>1, <1>2, <1>4, <2>4 DEF S!IInv, S!StampToCome
  <2>6. S!NoneTurnedAway'
    BY <1>1, <1>4 DEF S!IInv, S!NoneTurnedAway
  <2> QED
    BY <2>2, <2>5, <2>6 DEF S!IInv
<1> QED
  BY <1>3, <1>4 DEF S!Connect

\* A connection that hangs up while main listens is one the stamp was sent on.
LEMMA ReadsStep ==
  ASSUME S!IInv, NEW c \in S!Client, S!Reads(c) \/ S!Leaves(c)
  PROVE  S!IInv'
<1>1. /\ client[c] = "reads" /\ UNCHANGED <<kind, sat, newsd, listeners, holders, backlog, sent>>
      /\ \E x \in {"stamp", "bad", "gone"} :
           /\ client' = [client EXCEPT ![c] = x]
           /\ x = "bad" => S!Hangup(c) /\ c \notin sent
  BY DEF S!Reads, S!Leaves
<1>2. S!TypeOK' /\ S!NotOpenYet'
  BY <1>1 DEF S!IInv, S!TypeOK, S!NotOpenYet
<1>3. S!StampToCome'
  <2>1. \A d \in S!Client : S!InHand(d)' <=> S!InHand(d)
    BY <1>1 DEF S!InHand
  <2>2. S!ToSet(backlog)' = S!ToSet(backlog)
    BY <1>1 DEF S!ToSet
  <2>3. \A d \in S!Client : client'[d] = "reads" => client[d] = "reads"
    BY <1>1 DEF S!IInv, S!TypeOK
  <2> QED
    BY <1>1, <2>1, <2>2, <2>3 DEF S!IInv, S!StampToCome
<1>4. S!Hangup(c) /\ c \notin sent => 0 \notin listeners
  BY <1>1 DEF S!IInv, S!StampToCome, S!Hangup, S!InHand
<1>5. S!NoneTurnedAway'
  BY <1>1, <1>4 DEF S!IInv, S!TypeOK, S!NoneTurnedAway
<1> QED
  BY <1>2, <1>3, <1>5 DEF S!IInv

\* Every step of a stream server or its clients keeps the invariant.
LEMMA StreamStep ==
  ASSUME S!IInv, S!Next
  PROVE  S!IInv'
<1>1. 0 \in S!Proc
  BY ChildrenAssumption DEF S!Proc
<1>2. CASE S!Main
  BY <1>1, <1>2, ListenStep, PoolForkStep, ParaForkStep, ProcessEnds
  DEF S!Main, S!PoolWait, S!ForkFails
<1>3. CASE S!StartFails
  BY <1>1, <1>3, ProcessEnds DEF S!StartFails
<1>4. ASSUME NEW p \in S!Proc, S!Process(p) \/ S!AcceptFails(p) PROVE S!IInv'
  <2>1. CASE S!AcceptFails(p)
    BY <2>1, ProcessEnds DEF S!AcceptFails
  <2> QED
    BY <1>4, <2>1, ParaChildStep, AcceptStep, JobStep, CloseStep DEF S!Process
<1>5. ASSUME NEW c \in S!Client, S!Connect(c) \/ S!Reads(c) \/ S!Leaves(c) PROVE S!IInv'
  BY <1>5, ConnectStep, ReadsStep
<1> QED
  BY <1>2, <1>3, <1>4, <1>5 DEF S!Next

\* The stream servers keep their invariant, whichever program runs.
THEOREM StreamInvariant == SocketSpec => []S!IInv
<1>1. SocketInit => S!IInv
  BY StreamStart DEF SocketInit
<1>2. S!IInv /\ [SocketNext]_socketVars => S!IInv'
  BY StreamStep, StreamSame
  DEF SocketNext, ServerRuns, DaemonRuns, StreamRuns, ClientRuns, socketVars
<1> QED
  BY <1>1, <1>2, PTL DEF SocketSpec

\* In 01basic, 02para and 03staticpool, with any number of clients and
\* children, no client loses its connection before its stamp as long as main
\* listens: not by another that leaves, nor by the end of a child, nor by a
\* close that comes too early.
THEOREM StampsArrive == SocketSpec => []S!NoneTurnedAway
<1>1. S!IInv => S!NoneTurnedAway
  BY DEF S!IInv
<1> QED
  BY <1>1, StreamInvariant, PTL
=============================================================================
