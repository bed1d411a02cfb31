------------------------------- MODULE Servers -------------------------------
(***************************************************************************)
(* The console: a daemon whose IPC server (module IpcServer) controls the  *)
(* agents it supervises (module AgentSupervisor).  Requests to start and   *)
(* stop an agent come by HTTP; shutting down terminates the children first *)
(* and closes the server afterwards, which waits for its clients and for   *)
(* the requests in progress; a crash ends both at any time.                *)
(***************************************************************************)
EXTENDS AgentSupervisor, IpcServer

CONSTANT Restarts   \* bounds the starts of the console

ASSUME RestartsAssumption == Restarts \in Nat

VARIABLE starts

vars == <<supVars, ipcVars, starts>>

Init == SupInit /\ IpcInit /\ starts = 0

(* Daemon.start: orphans are reaped before the server listens. *)
ConsoleStarts ==
  /\ starts < Restarts
  /\ starts' = starts + 1
  /\ ReapOrphans
  /\ Listen

(* POST /api/agents/.../start, stop: served until the HTTP server closes. *)
Serves == server = "open" \/ (server = "closing" /\ ~SocketsClosed)

StartAgent(a) == Serves /\ Start(a) /\ UNCHANGED <<ipcVars, starts>>
StopAgent(a) == Serves /\ Stop(a) /\ UNCHANGED <<ipcVars, starts>>

(* Daemon.shutdown: by a signal, /stop or the stop action. *)
Shutdown == StopAll /\ CloseClients /\ UNCHANGED starts

(* The event loop hears of an exit while the process lasts. *)
Hear == /\ server # "off"
        /\ \E p \in Pids : ExitHeard(p)
        /\ UNCHANGED <<ipcVars, starts>>

(* The process exits when no client and no HTTP request is left, or crashes. *)
Exit == /\ server = "closing" /\ SocketsClosed
        /\ Reset /\ Abandon /\ UNCHANGED starts

Crash == /\ server # "off"
         /\ Reset /\ Abandon /\ UNCHANGED starts

Next ==
  \/ ConsoleStarts
  \/ \E a \in Agents : StartAgent(a) \/ StopAgent(a)
  \/ Shutdown \/ Hear \/ Exit \/ Crash
  \/ ChildStep /\ UNCHANGED <<ipcVars, starts>>
  \/ (ClientStep \/ DaemonStep) /\ UNCHANGED <<supVars, starts>>

(***************************************************************************)
(* The server's own timers run, a closing socket is closed by the peer or  *)
(* after 30 seconds, what the daemon awaits settles, and the poller ticks. *)
(***************************************************************************)
Ipc(A) == A /\ UNCHANGED <<supVars, starts>>

Fairness ==
  /\ \A c \in Clients : WF_vars(Ipc(AuthTimeout(c)))
  /\ \A c \in Clients : WF_vars(Ipc(conn[c] = "closing" /\ Leave(c)))
  /\ WF_vars(Exit)
  /\ WF_vars(Ipc(~cycle /\ PollTick))

Spec == Init /\ [][Next]_vars /\ Fairness

TypeOK == SupTypeOK /\ IpcTypeOK /\ starts \in 0..Restarts

(***************************************************************************)
(* A shutdown ends, whatever clients are connected and requests in progress*)
(* (Daemon.ts:670, IpcServer.ts:174).                                      *)
(***************************************************************************)
ShutdownEnds == (server = "closing") ~> (server = "off")

(* No process goes astray: a console knows its own, and the file knows the *)
(* orphans; and a client sees what was last told.                          *)
NoneGoesAstray == TypeOK /\ ChildrenAreTracked /\ OrphansAreListed /\ SubscribersSeeLatest

(* Clients that stay silent leave, those that listen learn of the rest,    *)
(* and a shutdown ends.                                                    *)
ServersSettle == StrangersLeave /\ IdleIsTold /\ ShutdownEnds
=============================================================================
