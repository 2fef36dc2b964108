------------------------------- MODULE Daemon -------------------------------
(***************************************************************************)
(* The stream handler daemon: main() reads its own options, creates the    *)
(* stream handler, lets the configuration plug-in set it up, starts the    *)
(* command service in a thread of its own, starts the engines and then     *)
(* waits for signals until one of them ends it.                            *)
(*                                                                         *)
(* Signals are delivered at any time and only set shutdownReason, which    *)
(* main() reads once before it starts the engines and whenever             *)
(* sigsuspend() has returned. sigsuspend() returns for a signal that is    *)
(* delivered while it waits, so one that comes in between is not seen, and *)
(* one that comes before the last was read replaces it. Module Configuration is the set-  *)
(* up, module CommandService the service thread and the clients.           *)
(***************************************************************************)
EXTENDS Configuration, CommandService

CONSTANT MaxBoots  \* bound: starts of the daemon

VARIABLES
  main,           \* where main() is; "off": no process
  boots,          \* how often the daemon was started
  shutdownReason, \* the last signal, or "none"
  running,        \* the engines are started
  ready,          \* the ready file exists
  due             \* ghost: a terminating signal has come where main() still reads it

daemonVars == <<main, boots, shutdownReason, running, ready, due>>
allVars == <<configVars, commandVars, daemonVars>>

Terminating == {"TERM"}
Signals == {"TERM", "USR1", "USR2"}

\* --noipc: SIGUSR1 and SIGUSR2 stop and start the engines; otherwise nothing is left of them
NoIpc == "noipc" \in line.main

----------------------------------------------------------------------------
(* main()                                                                  *)

\* a process starts; a ready file that a killed one left behind stays. A client that was called
\* without a daemon has been refused and has ended by then
Launch ==
  /\ main = "off" /\ boots < MaxBoots
  /\ \A c \in Clients : client[c] = "idle"
  /\ boots' = boots + 1
  /\ main' = "options"
  /\ line' \in CommandLines
  /\ shutdownReason' = "none" /\ running' = FALSE /\ due' = FALSE
  /\ UNCHANGED <<ready, phase, pos, cursor, tables, selected, flags, registry, handler, ok, refused, commandVars>>

\* the process is gone, and with it the configuration and the service
ProcessEnds ==
  /\ main' = "off" /\ running' = FALSE /\ shutdownReason' = "none" /\ due' = FALSE
  /\ line' \in {CHOOSE l \in CommandLines : TRUE}
  /\ phase' = "off" /\ pos' = 1 /\ cursor' = <<"rx", 1>> /\ tables' = DefaultTables
  /\ selected' = {} /\ flags' = {} /\ registry' = <<>> /\ handler' = Empty /\ ok' = TRUE /\ refused' = FALSE
  /\ StopService
  /\ UNCHANGED boots

\* --help, an unknown option, and words other than "setup"
ShowUsage == {"help", "?", "words"} \cap line.main # {}

\* the usage is printed and the process ends; or the handler is created; or daemon() fails, and main()
\* goes on without a handler
ReadOptions ==
  /\ main = "options"
  /\ \/ ShowUsage /\ ProcessEnds
     \/ /\ ~ShowUsage
        /\ main' = "init"
        /\ phase' = IF "daemon" \in line.main THEN "no handler" ELSE "parse"
        /\ UNCHANGED <<boots, shutdownReason, running, due, line, pos, cursor, tables, selected, flags, registry,
                       handler, ok, refused, commandVars>>
  /\ UNCHANGED ready

\* init() reads the options of the plug-in and runs its setup()
InitStep == main = "init" /\ ConfigNext /\ UNCHANGED <<commandVars, daemonVars>>

InitDone == phase \in {"done", "no handler"} \/ (phase = "failed" /\ handler = Empty)

\* the service thread is started, also for a stream handler that could not be initialised or
\* does not exist
SpawnService ==
  /\ main = "init" /\ InitDone
  /\ StartService
  /\ ConfigOver
  /\ main' = "check"
  /\ UNCHANGED <<boots, shutdownReason, running, ready, due, clientVars, outcome>>

\* a terminating signal up to here aborts the start
AbortStartup == shutdownReason \in Terminating

CheckStartup ==
  /\ main = "check"
  /\ main' = IF phase = "set up" /\ ~AbortStartup THEN "start" ELSE "stopped"
  /\ UNCHANGED <<boots, shutdownReason, running, ready, due, configVars, commandVars>>

\* start() and, for the clients' sake, activateMutexHandling(); then the ready file
StartEngines ==
  /\ main = "start"
  /\ \/ running' = TRUE /\ main' = "ready"
     \/ main' = "stop" /\ UNCHANGED running
  /\ UNCHANGED <<boots, shutdownReason, ready, due, configVars, commandVars>>

WriteReadyFile ==
  /\ main = "ready"
  /\ ready' = TRUE
  /\ main' = "loop"
  /\ UNCHANGED <<boots, shutdownReason, running, due, configVars, commandVars>>

\* sigsuspend() is called
Suspend ==
  /\ main = "loop"
  /\ main' = "suspended"
  /\ UNCHANGED <<boots, shutdownReason, running, ready, due, configVars, commandVars>>

\* sigsuspend() has returned
HandleReason ==
  /\ main = "woken"
  /\ \/ /\ shutdownReason = "USR1" /\ NoIpc
        /\ running' = FALSE /\ main' \in {"loop", "stop"}
     \/ /\ shutdownReason = "USR2" /\ NoIpc
        /\ \/ running' = TRUE /\ main' = "loop"
           \/ main' = "stop" /\ UNCHANGED running
     \/ /\ shutdownReason \in {"USR1", "USR2"} /\ ~NoIpc
        /\ main' = "loop" /\ UNCHANGED running
     \/ shutdownReason \in Terminating /\ main' = "stop" /\ UNCHANGED running
  /\ UNCHANGED <<boots, shutdownReason, ready, due, configVars, commandVars>>

\* stop(false)
StopEngines ==
  /\ main = "stop"
  /\ running' = FALSE /\ main' = "stopped"
  /\ UNCHANGED <<boots, shutdownReason, ready, due, configVars, commandVars>>

\* the ready file is removed, the stream handler deleted, the process ends
Exit ==
  /\ main = "stopped"
  /\ ready' = FALSE
  /\ ProcessEnds

----------------------------------------------------------------------------
(* Signals                                                                 *)

\* mutant: the signal is noted but nobody is woken
DeliverQuietly(s) == shutdownReason' = s /\ UNCHANGED main

\* handleSignal(), and what it does to a sigsuspend()
Deliver(s) == shutdownReason' = s /\ main' = IF main = "suspended" THEN "woken" ELSE main

\* main() will not read the reason again before sigsuspend() has returned
Window == {"start", "ready", "loop"}
WillEnd == {"stop", "stopped"}

Signal(s) ==
  /\ main \notin {"off", "options"}
  /\ Deliver(s)
  /\ due' = IF main \in WillEnd THEN due ELSE s \in Terminating /\ main \notin Window
  /\ UNCHANGED <<boots, running, ready, configVars, commandVars>>

\* SIGKILL or a power failure
Kill ==
  /\ main # "off"
  /\ ProcessEnds
  /\ UNCHANGED ready

----------------------------------------------------------------------------
Init ==
  /\ ConfigInit /\ line = (CHOOSE l \in CommandLines : TRUE)
  /\ CommandInit
  /\ main = "off" /\ boots = 0 /\ shutdownReason = "none" /\ running = FALSE /\ ready = FALSE /\ due = FALSE

MainStep ==
  \/ ReadOptions \/ InitStep \/ SpawnService \/ CheckStartup \/ StartEngines \/ WriteReadyFile
  \/ Suspend \/ HandleReason \/ StopEngines \/ Exit

\* a command that needs the stream handler faults when there is none, and faults again whenever the
\* handler of SIGSEGV has returned: the thread gets no further
Faults == phase = "no handler" /\ service = "read" /\ request[conn].cmd \notin Unimplemented
Serve == ServiceStep /\ (Faults => service' # "write") /\ UNCHANGED <<configVars, daemonVars>>

\* until init() has returned there is no service, and a client fares as when there is no daemon:
\* its steps are left out then
CommandStep ==
  /\ main \notin {"options", "init"}
  /\ \/ \E c \in Clients : ClientStep(c) /\ UNCHANGED <<configVars, daemonVars>>
     \/ Serve

Next ==
  \/ Launch \/ MainStep \/ Kill \/ CommandStep
  \/ \E s \in Signals : Signal(s)

Spec == Init /\ [][Next]_allVars

\* threads and processes run; nobody has to start or kill the daemon, call a client, or send a signal
Fairness ==
  /\ WF_allVars(MainStep)
  /\ WF_allVars(main \notin {"options", "init"} /\ Serve)
  /\ \A c \in Clients : WF_allVars(main \notin {"options", "init"} /\ (Connect(c) \/ Send(c)) /\ UNCHANGED <<configVars, daemonVars>>)

FairSpec == Spec /\ Fairness

----------------------------------------------------------------------------
(* Properties                                                              *)

Gone(c) == client[c] \in {"gone", "goneSent"}

\* what may keep the service from answering: a client was interrupted, the descriptors are used
\* up, or the daemon has ended
Disturbed == service = "down" \/ files = MaxFiles \/ \E c \in Clients : Gone(c)

\* Every client that has connected gets its answer, however many others wait in the listen queue
\* before it, unless a client is interrupted, the descriptors run out or the daemon ends; and then
\* it is told: no client waits for ever.
ClientsServed ==
  /\ \A c \in Clients : client[c] = "connected" ~> (client[c] = "answered" \/ Disturbed)
  /\ \A c \in Clients : client[c] \in {"connected", "sent"} ~> client[c] \notin {"connected", "sent"}

\* A terminating signal ends the daemon, in whichever part of its start or life it comes, except in
\* two cases: it comes between a reading of shutdownReason and the sigsuspend() that follows, which then
\* waits for another one; or another signal replaces it before main() has read it. setup(),
\* the service thread, the clients, a handler that could not be created and the signals that only
\* suspend or resume do not keep main() from getting to its end.
TerminationEnds == due ~> ~due
=============================================================================
