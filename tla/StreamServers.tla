--------------------------- MODULE StreamServers ---------------------------
(***************************************************************************)
(* The servers of socket/STREAM and their client, which reads one time     *)
(* stamp: 01basic serves in main, 02para in a child for each client, which *)
(* nobody waits for, 03staticpool in PROCNUM children that accept on one   *)
(* socket; main of 04dynamicpool writes to memory it mapped for reading    *)
(* only, which kills it.  Process 0 is the one the server was started as.  *)
(***************************************************************************)
EXTENDS Naturals, Sequences, FiniteSetsExt, SequencesExt

CONSTANTS PROCNUM, \* children: of 03staticpool; that may exist, of 02para
          Clients  \* number of clients

Proc == 0 .. PROCNUM
Client == 1 .. Clients

VARIABLES kind,      \* basic, para, pool or dynamic
          at,        \* where the process is
          newsd,     \* the client it has accepted, or 0
          listeners, \* the processes that have sd open
          holders,   \* the processes that have the client's connection open
          backlog,   \* clients not accepted yet
          sent,      \* the clients whose stamp was sent
          client     \* out, reads, stamp, bad, refused or gone

streamVars == <<kind, at, newsd, listeners, holders, backlog, sent, client>>
sockets == <<listeners, backlog, sent>>

Init == /\ kind \in {"basic", "para", "pool", "dynamic"}
        /\ at = [p \in Proc |-> IF p = 0 THEN "start" ELSE "none"]
        /\ newsd = [p \in Proc |-> 0]
        /\ listeners = {} /\ holders = [c \in Client |-> {}]
        /\ backlog = <<>> /\ sent = {} /\ client = [c \in Client |-> "out"]

\* The process ends, and with it its descriptors; until its parent waits for
\* it, it still counts as one.
Ends(p) == /\ at' = [at EXCEPT ![p] = "over"]
           /\ newsd' = [newsd EXCEPT ![p] = 0]
           /\ listeners' = listeners \ {p}
           /\ holders' = [c \in Client |-> holders[c] \ {p}]
           /\ UNCHANGED <<kind, backlog, sent, client>>

\* socket, setsockopt, bind, listen.
Listen == /\ at[0] = "start" /\ kind # "dynamic"
          /\ listeners' = {0}
          /\ at' = [at EXCEPT ![0] = IF kind = "pool" THEN "fork" ELSE "accept"]
          /\ UNCHANGED <<kind, newsd, holders, backlog, sent, client>>

StartFails == at[0] = "start" /\ Ends(0)

Free == {q \in Proc : at[q] = "none"}

\* 03staticpool: the loop of forks; wait for every child.
PoolFork == /\ kind = "pool" /\ at[0] = "fork"
            /\ LET q == Min(Free) IN
                 /\ listeners' = listeners \cup {q}
                 /\ at' = [at EXCEPT ![q] = "accept", ![0] = IF q = PROCNUM THEN "wait" ELSE @]
            /\ UNCHANGED <<kind, newsd, holders, backlog, sent, client>>

PoolWait == /\ kind = "pool" /\ at[0] = "wait"
            /\ \A q \in Proc \ {0} : at[q] = "over"
            /\ Ends(0)

\* accept; an error ends the process.
Accept(p) == /\ at[p] = "accept" /\ backlog # <<>>
             /\ newsd' = [newsd EXCEPT ![p] = Head(backlog)]
             /\ holders' = [holders EXCEPT ![Head(backlog)] = {p}]
             /\ backlog' = Tail(backlog)
             /\ at' = [at EXCEPT ![p] = IF kind = "para" THEN "fork" ELSE "job"]
             /\ UNCHANGED <<kind, listeners, sent, client>>

AcceptFails(p) == at[p] = "accept" /\ Ends(p)

\* 02para: a child for the client, with copies of both sockets, if there may
\* be one more process; ...
ParaFork == /\ kind = "para" /\ at[0] = "fork" /\ Free # {}
            /\ LET q == Min(Free) IN
                 /\ newsd' = [newsd EXCEPT ![q] = newsd[0]]
                 /\ holders' = [holders EXCEPT ![newsd[0]] = @ \cup {q}]
                 /\ listeners' = listeners \cup {q}
                 /\ at' = [at EXCEPT ![q] = "child", ![0] = "close"]
            /\ UNCHANGED <<kind, backlog, sent, client>>

ForkFails == at[0] = "fork" /\ Ends(0)

\* ... the child closes sd.
ParaChild(q) == /\ at[q] = "child"
                /\ listeners' = listeners \ {q} /\ at' = [at EXCEPT ![q] = "job"]
                /\ UNCHANGED <<kind, newsd, holders, backlog, sent, client>>

\* server_job: one send; to a client that is gone it may end the process, by
\* SIGPIPE or by exit(1).
server_job(p) ==
  /\ at[p] = "job"
  /\ \/ /\ sent' = sent \cup {newsd[p]} /\ at' = [at EXCEPT ![p] = "close"]
        /\ UNCHANGED <<kind, newsd, listeners, holders, backlog, client>>
     \/ client[newsd[p]] = "gone" /\ Ends(p)

ChildOfPara(p) == kind = "para" /\ p # 0

\* Mutant: the parent of 02para leaves its copy of the connection open.
CloseForgotten(p) ==
  /\ at[p] = "close"
  /\ IF ChildOfPara(p) THEN Ends(p)
     ELSE /\ at' = [at EXCEPT ![p] = "accept"]
          /\ UNCHANGED <<kind, newsd, sockets, holders, client>>

\* close(newsd), and round again; a child of 02para exits.
Close(p) ==
  /\ at[p] = "close"
  /\ IF ChildOfPara(p) THEN Ends(p)
     ELSE /\ holders' = [holders EXCEPT ![newsd[p]] = @ \ {p}]
          /\ newsd' = [newsd EXCEPT ![p] = 0]
          /\ at' = [at EXCEPT ![p] = "accept"]
          /\ UNCHANGED <<kind, sockets, client>>
-----------------------------------------------------------------------------
\* The client: connect, ...
Connect(c) == /\ client[c] = "out"
              /\ client' = [client EXCEPT ![c] = IF listeners = {} THEN "refused" ELSE "reads"]
              /\ backlog' = IF listeners = {} THEN backlog ELSE Append(backlog, c)
              /\ UNCHANGED <<kind, at, newsd, listeners, holders, sent>>

\* ... and fscanf, whose format ends in white space: it goes on reading until
\* the connection is closed, or reset with the listening socket.
Hangup(c) == IF c \in ToSet(backlog) THEN listeners = {} ELSE holders[c] = {}

Reads(c) == /\ client[c] = "reads" /\ Hangup(c)
            /\ client' = [client EXCEPT ![c] = IF c \in sent THEN "stamp" ELSE "bad"]
            /\ UNCHANGED <<kind, at, newsd, listeners, holders, backlog, sent>>

\* A client that is stopped.
Leaves(c) == /\ client[c] = "reads"
             /\ client' = [client EXCEPT ![c] = "gone"]
             /\ UNCHANGED <<kind, at, newsd, listeners, holders, backlog, sent>>

Process(p) == Accept(p) \/ ParaChild(p) \/ server_job(p) \/ Close(p)
Main == Listen \/ PoolFork \/ PoolWait \/ ParaFork \/ ForkFails

Next == \/ Main \/ StartFails \/ \E p \in Proc : Process(p) \/ AcceptFails(p)
        \/ \E c \in Client : Connect(c) \/ Reads(c) \/ Leaves(c)
-----------------------------------------------------------------------------
\* No client is turned away without its stamp as long as the process that was
\* started listens.
NoneTurnedAway == \A c \in Client : client[c] = "bad" => 0 \notin listeners

\* A client that has connected and stays gets its stamp, unless the process
\* that was started has ended first: neither another client that leaves nor
\* the end of one child of a pool keeps it waiting or turns it away.  (Each
\* client connects once.)
Served == []<>(\A c \in Client : client[c] # "reads") /\ []NoneTurnedAway

\* The second half rests on this: a client that reads waits in the queue, has
\* been sent its stamp, or is in the hands of a process that is to send it.
TypeOK ==
  /\ at \in [Proc -> {"none", "start", "accept", "fork", "wait", "child", "job", "close", "over"}]
  /\ newsd \in [Proc -> Client \cup {0}] /\ listeners \subseteq Proc
  /\ holders \in [Client -> SUBSET Proc] /\ backlog \in Seq(Client)
  /\ client \in [Client -> {"out", "reads", "stamp", "bad", "refused", "gone"}]

NotOpenYet == /\ at[0] # "none"
              /\ at[0] = "start" => /\ listeners = {}
                                    /\ \A c \in Client : client[c] \in {"out", "refused"}
              /\ at[0] = "start" \/ (at[0] = "fork" /\ kind = "pool") => at[PROCNUM] = "none"

InHand(c) == \E p \in holders[c] :
               /\ newsd[p] = c
               /\ at[p] \in {"child", "job"} \/ (at[p] = "fork" /\ kind = "para")

StampToCome == \A c \in Client : client[c] = "reads" /\ 0 \in listeners =>
                                   c \in ToSet(backlog) \/ c \in sent \/ InHand(c)

IInv == TypeOK /\ NotOpenYet /\ StampToCome /\ NoneTurnedAway
=============================================================================
