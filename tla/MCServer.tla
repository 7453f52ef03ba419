------------------------------ MODULE MCServer ------------------------------
(***************************************************************************)
(* The programs at the two ends of a socket, and the daemons: any of them  *)
(* is started.                                                             *)
(***************************************************************************)
EXTENDS Server

CONSTANTS PROCNUM, Clients, Source, Channel, PIPE_BUF, MaxMsgs

\* What was on the stack of the client is not the address of a sender.
ASSUME SourceAssumption == "garbage" \notin Source

\* A server has a child.
ASSUME ChildrenAssumption == PROCNUM \in Nat \ {0} /\ Clients \in Nat

VARIABLES program,                                    \* server or the module's
          at, fp, from,                               \* Daemons
          kind, sat, newsd, listeners, holders, backlog, sent, client, \* StreamServers
          cat, serveraddr, raddr_len, choseid, buf, pos, pipe, player, played, accepted \* Client

D == INSTANCE Daemons
S == INSTANCE StreamServers WITH at <- sat
C == INSTANCE Client WITH at <- cat, MaxData <- MAX_DATA

daemonVars == <<at, fp, from>>
streamVars == <<kind, sat, newsd, listeners, holders, backlog, sent, client>>
clientVars == <<cat, serveraddr, raddr_len, choseid, buf, pos, pipe, player, played, accepted>>
socketVars == <<program, vars, daemonVars, streamVars, clientVars>>

ServerRuns(A) == /\ program = "server" /\ A
                 /\ UNCHANGED <<program, daemonVars, streamVars, clientVars>>
DaemonRuns(A) == /\ A /\ UNCHANGED <<program, vars, streamVars, clientVars>>
StreamRuns(A) == /\ program = "stream" /\ A
                 /\ UNCHANGED <<program, vars, daemonVars, clientVars>>
ClientRuns(A) == /\ program = "client" /\ A
                 /\ UNCHANGED <<program, vars, daemonVars, streamVars>>

\* The choices of a program's Init count in that program only.
SocketInit == /\ program \in {"server", "daemon", "siactiondeamon", "stream", "client"}
              /\ Init /\ D!Init /\ S!Init /\ C!Init
              /\ program # "stream" => kind = "basic"
              /\ program # "client" => raddr_len = "full" /\ choseid = 0

Daemon == \/ program = "daemon" /\ D!daemon
          \/ program = "siactiondeamon" /\ D!siactiondeamon

SocketNext == ServerRuns(Next) \/ DaemonRuns(Daemon) \/ StreamRuns(S!Next) \/ ClientRuns(C!Next)

\* The main thread of each program, its other threads and processes, and what
\* they wait for; only one program runs, so one fairness serves them all.
Mains == \/ ServerRuns(Prepare \/ Scan \/ Create \/ Exit) \/ StreamRuns(S!Main)
         \/ DaemonRuns(program = "siactiondeamon" /\ D!deamon_exit)
Threads(i) == \/ ServerRuns((i \in Dir /\ Snder(i)) \/ (i = 0 /\ Lister))
              \/ StreamRuns(i \in S!Proc /\ S!Process(i))
Others(i) == \/ ServerRuns((i \in Dir /\ Alarm(i)) \/ (i = 0 /\ ListerCancelled))
             \/ StreamRuns(i \in S!Client /\ S!Reads(i))

Index == Dir \cup S!Proc \cup S!Client

SocketSpec == /\ SocketInit /\ [][SocketNext]_socketVars
              /\ WF_socketVars(Mains)
              /\ \A i \in Index :
                   WF_socketVars(Threads(i)) /\ WF_socketVars(Others(i))
-----------------------------------------------------------------------------
\* SIGTERM ends the server and the daemon (Server, Daemons).
TermEndsAll == TermEnds /\ D!DaemonEnds

\* "normal end the program" (013siactiondeamon.c:21): SIGTERM brings the daemon
\* to its exit(0) whenever it comes (Daemons).
SigtermNormal == D!DaemonEndsNormally

\* A client that waits gets its stamp (StreamServers).
ClientsServed == S!Served

\* The player hears its channel, whole and in order (Client).
PlayerFed == C!PlayerFed
=============================================================================
