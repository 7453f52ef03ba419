------------------------------ MODULE Daemons ------------------------------
(***************************************************************************)
(* daemon.c and 013siactiondeamon.c: a process leaves its terminal and     *)
(* writes a line a second to a file and to the system log.  The second one *)
(* takes SIGTERM in deamon_exit, which closes both; SIGINT | SIGQUIT |     *)
(* SIGTERM is the number of SIGTERM, so the others keep their default.     *)
(***************************************************************************)
EXTENDS Naturals

VARIABLES at,   \* where main is
          fp,   \* NULL, open or closed
          from  \* where main was when SIGTERM came, in deamon_exit

daemonVars == <<at, fp, from>>

\* main is in syslog; the process is over.
Logging == {"log failure", "log start", "log open", "log line"}
Over == {"exited", "ended", "killed", "crash"}

Init == at = "openlog" /\ fp = "NULL" /\ from = "none"

Goes(a, B) == at = a /\ at' \in B /\ UNCHANGED <<fp, from>>

\* openlog; sigaction in the second program.
Begin == Goes("openlog", {"fork"})

\* fork, then /dev/null for the three standard descriptors; setsid, chdir and
\* umask are not looked at.  The parent's exit(0) is no part of the model.
daemonize == \/ Goes("fork", {"null", "log failure"})
             \/ Goes("null", {"log start", "log failure"})

Fopen == \/ /\ at = "fopen" /\ fp' = "open" /\ at' = "log open" /\ UNCHANGED from
         \/ Goes("fopen", {"log failure"})

Loop == Goes("print", {"log line"}) \/ Goes("sleep", {"print"})

Syslog == \/ Goes("log failure", {"exited"}) \/ Goes("log start", {"fopen"})
          \/ Goes("log open", {"print"}) \/ Goes("log line", {"sleep"})

Main == daemonize \/ Fopen \/ Loop \/ Syslog

\* A signal with its default action.
Dies == at \notin Over /\ at' = "killed" /\ UNCHANGED <<fp, from>>

\* SIGTERM, once its handler is there.
Sigterm == /\ from = "none" /\ at \notin Over \cup {"openlog"}
           /\ from' = at /\ at' = "fclose"
           /\ UNCHANGED fp

\* Mutant: deamon_exit does not exit.
ExitForgotten ==
  \/ /\ at = "fclose" /\ fp = "NULL" /\ at' = "crash" /\ UNCHANGED <<fp, from>>
  \/ /\ at = "fclose" /\ fp = "open"
     /\ fp' = "closed" /\ at' = "closelog" /\ UNCHANGED from
  \/ Goes("closelog", {from})

\* The rest of deamon_exit: fclose of a stream that may not be open yet, then
\* closelog, which waits for ever if main was interrupted inside syslog with
\* its lock.
deamon_exit ==
  \/ /\ at = "fclose" /\ fp = "NULL" /\ at' = "crash" /\ UNCHANGED <<fp, from>>
  \/ /\ at = "fclose" /\ fp = "open"
     /\ fp' = "closed" /\ at' = "closelog" /\ UNCHANGED from
  \/ Goes("closelog", IF from \in Logging THEN {"ended", "stuck"} ELSE {"ended"})

\* main of each program.
daemon == Begin \/ Main \/ Dies
siactiondeamon == Begin \/ Main \/ deamon_exit \/ Sigterm \/ Dies
-----------------------------------------------------------------------------
\* Whenever SIGTERM comes, the daemon ends, unless it came inside syslog; and
\* it ends with its file closed, unless it came before the file was open.
DaemonEnds ==
  from # "none" ~>
    \/ at = "killed"
    \/ at = "ended" /\ fp = "closed"
    \/ at = "crash" /\ from \in {"fork", "null", "log failure", "log start", "fopen"}
    \/ at = "stuck" /\ from \in Logging

\* "normal end the program" (013siactiondeamon.c:21): deamon_exit comes to its
\* exit(0), at whatever point SIGTERM came.
DaemonEndsNormally == from # "none" ~> at \in {"ended", "killed"}
=============================================================================
