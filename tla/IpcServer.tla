------------------------------ MODULE IpcServer ------------------------------
(***************************************************************************)
(* The daemon's WebSocket and HTTP server                                  *)
(* (packages/daemon/src/server/IpcServer.ts): clients, their               *)
(* authentication and its timeout, the state they subscribe to and the     *)
(* chat commands they send.  Of the daemon there is what it pushes: that   *)
(* it is busy with a cycle or a chat, when it says so                      *)
(* (Daemon.broadcastIpcState), and whether its timers run.  The tools that *)
(* clients call are those of the other modules.                            *)
(***************************************************************************)
EXTENDS Naturals

CONSTANTS Clients,      \* the connections there may be at a time
          TokenNeeded   \* config.ipcToken is set

ASSUME TokenAssumption == TokenNeeded \in BOOLEAN

VARIABLES
  server,  \* "off", "open" or "closing"
  conn,    \* readyState of each socket: "none", "open", "closing"
  authenticated, authTimer, subscribed,
  shown,   \* the last snapshot sent to each client
  latest,  \* latestState: "none", "idle" or "busy"
  cycle,   \* a management or a screening cycle runs
  chat,    \* who the model works for: "nobody", "cli" (IPC), "other"
  timers   \* cron jobs and pollers are installed

clientVars == <<conn, authenticated, authTimer, subscribed>>
daemonVars == <<cycle, chat, timers>>
ipcVars == <<server, clientVars, shown, latest, daemonVars>>

Busy == cycle \/ chat # "nobody"
Label(busy) == IF busy THEN "busy" ELSE "idle"
Hears(c) == conn[c] = "open" /\ authenticated[c]

(* broadcastState: subscribers whose socket is open are sent the snapshot. *)
Broadcast(busy) ==
  /\ latest' = Label(busy)
  /\ shown' = [c \in Clients |-> IF Hears(c) /\ subscribed[c] THEN Label(busy)
                                                              ELSE shown[c]]

-----------------------------------------------------------------------------
(* Clients. *)
\* Mutant: no time limit to authenticate.
ConnectUntimed(c) ==
  /\ server = "open" /\ conn[c] = "none"
  /\ conn' = [conn EXCEPT ![c] = "open"]
  /\ authenticated' = [authenticated EXCEPT ![c] = ~TokenNeeded]
  /\ UNCHANGED <<server, authTimer, subscribed, shown, latest, daemonVars>>

Connect(c) ==
  /\ server = "open"
  /\ conn[c] = "none"
  /\ conn' = [conn EXCEPT ![c] = "open"]
  /\ authenticated' = [authenticated EXCEPT ![c] = ~TokenNeeded]
  /\ authTimer' = [authTimer EXCEPT ![c] = TokenNeeded]
  /\ UNCHANGED <<server, subscribed, shown, latest, daemonVars>>

(* Messages are handled until the socket is closed, while it closes too. *)
Authenticate(c) ==
  /\ conn[c] # "none"
  /\ authenticated' = [authenticated EXCEPT ![c] = TRUE]
  /\ authTimer' = [authTimer EXCEPT ![c] = FALSE]
  /\ UNCHANGED <<server, conn, subscribed, shown, latest, daemonVars>>

(* A wrong token ends the connection; so does an error of the socket. *)
AuthFails(c) ==
  /\ conn[c] = "open"
  /\ conn' = [conn EXCEPT ![c] = "closing"]
  /\ UNCHANGED <<server, authenticated, authTimer, subscribed, shown, latest, daemonVars>>

AuthTimeout(c) ==
  /\ conn[c] # "none" /\ authTimer[c]
  /\ authTimer' = [authTimer EXCEPT ![c] = FALSE]
  /\ conn' = IF authenticated[c] THEN conn ELSE [conn EXCEPT ![c] = "closing"]
  /\ UNCHANGED <<server, authenticated, subscribed, shown, latest, daemonVars>>

\* Mutant: a new subscriber waits for the next broadcast.
SubscribeOnly(c) ==
  /\ conn[c] # "none" /\ authenticated[c]
  /\ subscribed' = [subscribed EXCEPT ![c] = TRUE]
  /\ UNCHANGED <<server, conn, authenticated, authTimer, shown, latest, daemonVars>>

Subscribe(c) ==
  /\ conn[c] # "none" /\ authenticated[c]
  /\ subscribed' = [subscribed EXCEPT ![c] = TRUE]
  /\ shown' = IF conn[c] = "open" /\ latest # "none" THEN [shown EXCEPT ![c] = latest] ELSE shown
  /\ UNCHANGED <<server, conn, authenticated, authTimer, latest, daemonVars>>

(* The socket is closed: by the client, or by the handshake the server began. *)
Leave(c) ==
  /\ conn[c] # "none"
  /\ conn' = [conn EXCEPT ![c] = "none"]
  /\ authenticated' = [authenticated EXCEPT ![c] = FALSE]
  /\ authTimer' = [authTimer EXCEPT ![c] = FALSE]
  /\ subscribed' = [subscribed EXCEPT ![c] = FALSE]
  /\ shown' = [shown EXCEPT ![c] = "none"]
  /\ UNCHANGED <<server, latest, daemonVars>>

ClientStep == \E c \in Clients :
  \/ Connect(c) \/ Authenticate(c) \/ AuthFails(c) \/ AuthTimeout(c)
  \/ Subscribe(c) \/ Leave(c)

-----------------------------------------------------------------------------
(* What the clients ask for.  Stop and shutdown are in module Servers. *)
Asks == \E c \in Clients : conn[c] # "none" /\ authenticated[c]

(* /pause and /resume are handled whatever runs. *)
Pause ==
  /\ Asks
  /\ timers' = FALSE
  /\ Broadcast(Busy)
  /\ UNCHANGED <<server, clientVars, cycle, chat>>

Resume ==
  /\ Asks
  /\ timers' = TRUE
  /\ Broadcast(Busy)
  /\ UNCHANGED <<server, clientVars, cycle, chat>>

(* Everything else is dropped while the daemon is busy.  A command awaits  *)
(* the chain without being counted as busy, so that it may end at any time.*)
CommandEnds ==
  /\ server # "off"
  /\ Broadcast(Busy)
  /\ UNCHANGED <<server, clientVars, daemonVars>>

AskChat ==
  /\ Asks /\ ~Busy
  /\ chat' = "cli"
  /\ UNCHANGED <<server, clientVars, shown, latest, cycle, timers>>

(* A prompt from Telegram or the desktop tells the clients nothing. *)
OtherChat ==
  /\ server = "open" /\ chat = "nobody"
  /\ chat' = "other"
  /\ UNCHANGED <<server, clientVars, shown, latest, cycle, timers>>

ChatEnds ==
  /\ chat # "nobody"
  /\ chat' = "nobody"
  /\ IF chat = "cli" THEN Broadcast(cycle) ELSE UNCHANGED <<shown, latest>>
  /\ UNCHANGED <<server, clientVars, cycle, timers>>

-----------------------------------------------------------------------------
(* What the daemon pushes. *)

(* A timer starts a cycle, or a client asks for a screening. *)
CycleStarts ==
  /\ timers \/ Asks
  /\ server = "open" /\ ~cycle
  /\ cycle' = TRUE
  /\ UNCHANGED <<server, clientVars, shown, latest, chat, timers>>

CycleReports ==
  /\ cycle
  /\ Broadcast(Busy)
  /\ UNCHANGED <<server, clientVars, daemonVars>>

(* The last snapshot of a cycle is taken before its lock is released. *)
CycleEnds ==
  /\ cycle
  /\ Broadcast(Busy)
  /\ cycle' = FALSE
  /\ UNCHANGED <<server, clientVars, chat, timers>>

\* Mutant: the poller returns before it broadcasts.
PollTickQuiet == timers /\ UNCHANGED ipcVars

(* The PnL poller; it may be refused while a cycle runs. *)
PollTick ==
  /\ timers
  /\ Broadcast(Busy)
  /\ UNCHANGED <<server, clientVars, daemonVars>>

DaemonStep ==
  \/ Pause \/ Resume \/ CommandEnds \/ AskChat \/ OtherChat \/ ChatEnds
  \/ CycleStarts \/ CycleReports \/ CycleEnds \/ PollTick

-----------------------------------------------------------------------------
(* start: the server listens, and the first snapshot is published. *)
Listen ==
  /\ server = "off"
  /\ server' = "open"
  /\ latest' = "idle"
  /\ timers' = TRUE
  /\ UNCHANGED <<clientVars, shown, cycle, chat>>

\* Mutant: only the clients that broadcasts reach are closed.
CloseHearers ==
  /\ server = "open"
  /\ server' = "closing"
  /\ conn' = [c \in Clients |-> IF Hears(c) THEN "closing" ELSE conn[c]]
  /\ UNCHANGED <<authenticated, authTimer, subscribed, shown, latest, daemonVars>>

(* stop: every client is asked to leave, then the servers close in turn. *)
CloseClients ==
  /\ server = "open"
  /\ server' = "closing"
  /\ conn' = [c \in Clients |-> IF conn[c] = "open" THEN "closing" ELSE conn[c]]
  /\ UNCHANGED <<authenticated, authTimer, subscribed, shown, latest, daemonVars>>

SocketsClosed == \A c \in Clients : conn[c] = "none"

Reset ==
  /\ server' = "off" /\ latest' = "none"
  /\ conn' = [c \in Clients |-> "none"]
  /\ authenticated' = [c \in Clients |-> FALSE]
  /\ authTimer' = [c \in Clients |-> FALSE]
  /\ subscribed' = [c \in Clients |-> FALSE]
  /\ shown' = [c \in Clients |-> "none"]
  /\ cycle' = FALSE /\ chat' = "nobody"
  /\ timers' = FALSE

IpcInit ==
  /\ server = "off" /\ latest = "none"
  /\ conn = [c \in Clients |-> "none"]
  /\ authenticated = [c \in Clients |-> FALSE]
  /\ authTimer = [c \in Clients |-> FALSE]
  /\ subscribed = [c \in Clients |-> FALSE]
  /\ shown = [c \in Clients |-> "none"]
  /\ cycle = FALSE /\ chat = "nobody"
  /\ timers = FALSE

IpcTypeOK ==
  /\ server \in {"off", "open", "closing"}
  /\ conn \in [Clients -> {"none", "open", "closing"}]
  /\ authenticated \in [Clients -> BOOLEAN]
  /\ authTimer \in [Clients -> BOOLEAN]
  /\ subscribed \in [Clients -> BOOLEAN]
  /\ shown \in [Clients -> {"none", "idle", "busy"}]
  /\ latest \in {"none", "idle", "busy"}
  /\ cycle \in BOOLEAN /\ chat \in {"nobody", "cli", "other"}
  /\ timers \in BOOLEAN

(***************************************************************************)
(* A client that subscribed to the state has been sent the latest snapshot,*)
(* whenever it subscribed (IpcServer.ts:626, 681).                         *)
(***************************************************************************)
SubscribersSeeLatest ==
  \A c \in Clients :
    Hears(c) /\ subscribed[c] => shown[c] = latest

(***************************************************************************)
(* A client that does not authenticate is made to leave (IpcServer.ts:570).*)
(***************************************************************************)
StrangersLeave ==
  \A c \in Clients :
    (conn[c] # "none" /\ ~authenticated[c]) ~> (conn[c] = "none" \/ authenticated[c])

(***************************************************************************)
(* After a cycle or a chat the clients learn that the daemon is idle again:*)
(* the cycle's own last snapshot says busy, the poller's next one corrects *)
(* it.  Paused, nothing does (Daemon.ts:1320, 1822).                       *)
(***************************************************************************)
IdleIsTold ==
  (server = "open" /\ timers /\ ~Busy)
    ~> (latest = "idle" \/ Busy \/ ~timers \/ server # "open")
=============================================================================
