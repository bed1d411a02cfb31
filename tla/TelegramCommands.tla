--------------------------- MODULE TelegramCommands ---------------------------
(***************************************************************************)
(* Operator commands that reach a headless daemon through Telegram: the    *)
(* polling loop and its persisted offset (core/.../TelegramAdapter.ts), the *)
(* handler, the bounded persisted queue and its drain (daemon/Daemon.ts),   *)
(* the chats that share the `busy' flag, shutdown, crash and restart.      *)
(*                                                                         *)
(* Update ids are 1, 2, ...; kind says what each one asks for:             *)
(*   stop   /stop                                                          *)
(*   view   a read-only command that a restart may restore                 *)
(*   act    /close, /deploy, /set, /pause, /resume ... (mutating)          *)
(*   chat   free text for the model                                        *)
(*   menu   /settings and its buttons, answered even by a busy agent       *)
(* Telegram redelivers every id at or above the offset it is asked for.    *)
(* The ids at or above an offset are never in the loop's set of seen ids,  *)
(* so that test is left out.  cycle stands for the four cycle flags the    *)
(* handler reads (module DaemonCycles): releasing any of them kicks the    *)
(* queue.  Handlers answer their own errors; none of them rejects.         *)
(***************************************************************************)
EXTENDS Integers, Sequences, FiniteSets, SequencesExt

CONSTANTS MaxUpdate,   \* ids are 1..MaxUpdate
          MaxQueue,    \* MAX_TELEGRAM_QUEUE
          MaxLives,    \* bound on process starts
          Chats,       \* chat invocations from the desktop, CLI or IPC
          Desktop,     \* the desktop adapter is enabled
          Scripts      \* what the operator may send: kinds, by id

None == 0
Ids == 1..MaxUpdate
Kinds == {"stop", "view", "act", "chat", "menu"}

ASSUME CommandAssumption ==
  /\ MaxUpdate \in Nat /\ MaxQueue \in Nat \ {0} /\ MaxLives \in Nat \ {0}
  /\ Desktop \in BOOLEAN
  /\ Chats \cap 0..MaxUpdate = {}
  /\ Scripts \subseteq [Ids -> Kinds] /\ Scripts # {}

VARIABLES
  kind,                \* what the operator sent; never changes
  phase,               \* booting, up, stopping (shuttingDown), down
  stopper,             \* the /stop that called shutdown first and awaits its end, or None
  savedOffset, offset, \* telegram_offset.json and _offset
  pollPc, batch,       \* poll loop: awaiting getUpdates, or updates left of a batch
  pollRun, drainRun,   \* update each of poll and drain is executing, or None
  queue, diskQueue,    \* telegramQueue and telegram_queue.json
  busy, chatting,      \* the flag, and the chats really running
  cycle,
  (* history *)
  life,
  received, started,   \* in this life: ids handed to the handler; executions in order
  rejected,            \* in this life: told that the queue is full
  due                  \* in all lives: how often an id was put into the queue, less how often
                       \* it was executed from there; none once a stop or the filter drops it

pollVars == <<pollPc, batch, offset, savedOffset>>
queueVars == <<queue, diskQueue, drainRun, started, due>>
lifeVars == <<phase, stopper, life>>
vars == <<kind, pollVars, pollRun, queueVars, busy, chatting, cycle, lifeVars, received, rejected>>

shuttingDown == phase = "stopping"
running == phase \in {"booting", "up"}
AgentBusy == cycle \/ busy
draining == drainRun # None

-----------------------------------------------------------------------------
\* Mutant: pop instead of shift.
NextIndexNewest == Len(queue)

(* A /stop jumps the queue. *)
NextIndex ==
  LET stops == {i \in DOMAIN queue : kind[queue[i]] = "stop"} IN
  IF stops = {} THEN 1 ELSE CHOOSE i \in stops : \A j \in stops : i <= j

Execute(id) == started' = Append(started, id)
ExecuteQueued(id) == Execute(id) /\ due' = [due EXCEPT ![id] = @ - 1]

\* Mutant: the message is not removed.
RestPeeked(i) == queue

(* The queue once message i is taken from it. *)
Rest(i) == RemoveAt(queue, i)

\* Mutant: the queue file is saved after the message was executed.
DrainSavesLate(run, b, c) ==
  IF run = None /\ running /\ queue # <<>> /\ ~b /\ ~c
  THEN /\ queue' = Rest(NextIndex) /\ UNCHANGED diskQueue
       /\ drainRun' = queue[NextIndex] /\ ExecuteQueued(queue[NextIndex])
       /\ busy' = (kind[queue[NextIndex]] = "chat")
  ELSE drainRun' = run /\ busy' = b /\ diskQueue' = queue /\ UNCHANGED <<queue, started, due>>

(* drainTelegramQueue, from a kick or from its own loop, when the drain is  *)
(* executing `run', busy is b and a cycle runs iff c: it takes, saves and   *)
(* then executes the next message, or stops draining.                      *)
Drain(run, b, c) ==
  IF run = None /\ running /\ queue # <<>> /\ ~b /\ ~c
  THEN /\ queue' = Rest(NextIndex)
       /\ diskQueue' = queue'
       /\ drainRun' = queue[NextIndex]
       /\ ExecuteQueued(queue[NextIndex])
       /\ busy' = (kind[queue[NextIndex]] = "chat")
  ELSE /\ drainRun' = run
       /\ busy' = b
       /\ UNCHANGED <<queue, diskQueue, started, due>>

-----------------------------------------------------------------------------
(* getUpdates answers with the updates sent so far. *)
Fetch ==
  /\ phase \in {"up", "stopping"} /\ pollPc = "fetch"
  /\ \E n \in offset..MaxUpdate : batch' = [i \in 1..(n - offset + 1) |-> offset + i - 1]
  /\ pollPc' = "batch"
  /\ UNCHANGED <<kind, offset, savedOffset, pollRun, queueVars, busy, chatting, cycle, lifeVars,
                 received, rejected>>

PutInQueue(q, id) ==
  queue' = Append(q, id) /\ diskQueue' = queue' /\ due' = [due EXCEPT ![id] = @ + 1]

\* Mutant: no limit.
EnqueueUnbounded(id) ==
  PutInQueue(queue, id) /\ UNCHANGED rejected

\* Mutant: a full queue drops its oldest message.
EnqueueEvicting(id) ==
  PutInQueue(IF Len(queue) < MaxQueue THEN queue ELSE Tail(queue), id) /\ UNCHANGED rejected

(* A busy agent keeps the message, or answers that the queue is full. *)
Enqueue(id) ==
  IF Len(queue) < MaxQueue
  THEN PutInQueue(queue, id) /\ UNCHANGED rejected
  ELSE rejected' = rejected \cup {id} /\ UNCHANGED <<queue, diskQueue, due>>

(* The loop advances the offset in memory and hands the update to the      *)
(* handler: ignored during shutdown, queued or rejected while the agent is *)
(* busy (a menu is not), else executed at once, whatever is queued.        *)
PollNext ==
  /\ phase \in {"up", "stopping"} /\ pollPc = "batch" /\ pollRun = None /\ batch # <<>>
  /\ LET id == Head(batch) IN
     /\ offset' = id + 1
     /\ batch' = Tail(batch)
     /\ \/ shuttingDown /\ UNCHANGED <<pollRun, queueVars, busy, received, rejected>>
        \/ /\ ~shuttingDown /\ AgentBusy /\ kind[id] # "menu"
           /\ received' = received \cup {id}
           /\ Enqueue(id)
           /\ UNCHANGED <<pollRun, drainRun, started, busy>>
        \/ /\ ~shuttingDown /\ (AgentBusy => kind[id] = "menu")
           /\ received' = received \cup {id}
           /\ pollRun' = id /\ Execute(id)
           /\ busy' = (busy \/ kind[id] = "chat")
           /\ UNCHANGED <<queue, diskQueue, drainRun, due, rejected>>
  /\ UNCHANGED <<kind, pollPc, savedOffset, chatting, cycle, lifeVars>>

(* End of a batch: the offset is saved, and polling goes on unless stopped. *)
PollSaves ==
  /\ phase \in {"up", "stopping"} /\ pollPc = "batch" /\ pollRun = None /\ batch = <<>>
  /\ savedOffset' = offset
  /\ pollPc' = IF shuttingDown THEN "off" ELSE "fetch"
  /\ UNCHANGED <<kind, batch, offset, pollRun, queueVars, busy, chatting, cycle, lifeVars,
                 received, rejected>>

(* A handler's last await settles.  A /stop that finds a shutdown already   *)
(* in progress returns; the one that called it does not come back.         *)
Returns(run) == kind[run] = "stop" => shuttingDown /\ run # stopper

(* A handler called by the poll loop ends; a chat lowers busy and kicks.   *)
PollHandled ==
  /\ phase \in {"up", "stopping"} /\ pollRun # None /\ Returns(pollRun)
  /\ pollRun' = None
  /\ IF kind[pollRun] = "chat" THEN Drain(drainRun, FALSE, cycle)
                               ELSE UNCHANGED <<queueVars, busy>>
  /\ UNCHANGED <<kind, pollVars, chatting, cycle, lifeVars, received, rejected>>

\* Mutant: the drain does not loop.
DrainHandledOnePerKick ==
  /\ phase # "down" /\ draining /\ Returns(drainRun)
  /\ drainRun' = None
  /\ busy' = (kind[drainRun] # "chat" /\ busy)
  /\ UNCHANGED <<kind, pollVars, pollRun, queue, diskQueue, started, due, chatting, cycle, lifeVars,
                 received, rejected>>

(* A handler called by the drain ends and the drain loops. *)
DrainHandled ==
  /\ phase # "down" /\ draining /\ Returns(drainRun)
  /\ Drain(None, IF kind[drainRun] = "chat" THEN FALSE ELSE busy, cycle)
  /\ UNCHANGED <<kind, pollVars, pollRun, chatting, cycle, lifeVars, received, rejected>>

\* Mutant: a REPL or IPC chat does not look at the flags.
ChatStartsUnguarded(c) ==
  /\ running /\ c \notin chatting
  /\ chatting' = chatting \cup {c} /\ busy' = TRUE
  /\ UNCHANGED <<kind, pollVars, pollRun, queueVars, cycle, lifeVars, received, rejected>>

(* A desktop chat starts whatever is running; a CLI, IPC or REPL chat only *)
(* when the agent is idle.                                                 *)
ChatStarts(c) ==
  /\ running /\ c \notin chatting
  /\ Desktop \/ ~AgentBusy
  /\ chatting' = chatting \cup {c}
  /\ busy' = TRUE
  /\ UNCHANGED <<kind, pollVars, pollRun, queueVars, cycle, lifeVars, received, rejected>>

ChatEnds(c) ==
  /\ phase # "down" /\ c \in chatting
  /\ chatting' = chatting \ {c}
  /\ Drain(drainRun, FALSE, cycle)
  /\ UNCHANGED <<kind, pollVars, pollRun, cycle, lifeVars, received, rejected>>

(* The timer that drains the queue every five seconds, unless it is paused. *)
DrainTick ==
  /\ running /\ Drain(drainRun, busy, cycle)
  /\ UNCHANGED <<kind, pollVars, pollRun, chatting, cycle, lifeVars, received, rejected>>

CycleStarts ==
  /\ phase = "up" /\ ~cycle /\ cycle' = TRUE
  /\ UNCHANGED <<kind, pollVars, pollRun, queueVars, busy, chatting, lifeVars, received, rejected>>

\* Mutant: releaseLock does not kick the queue.
CycleEndsSilently ==
  /\ phase # "down" /\ cycle /\ cycle' = FALSE
  /\ UNCHANGED <<kind, pollVars, pollRun, queueVars, busy, chatting, lifeVars, received, rejected>>

(* releaseLock. *)
CycleEnds ==
  /\ phase # "down" /\ cycle /\ cycle' = FALSE
  /\ Drain(drainRun, busy, FALSE)
  /\ UNCHANGED <<kind, pollVars, pollRun, chatting, lifeVars, received, rejected>>

-----------------------------------------------------------------------------
\* Mutant: the emptied queue is not saved.
ShutdownUnsaved(by) ==
  /\ running /\ phase' = "stopping" /\ stopper' = by /\ queue' = <<>>
  /\ due' = [id \in Ids |-> 0]
  /\ UNCHANGED <<kind, pollVars, pollRun, diskQueue, drainRun, started, busy, chatting, cycle, life,
                 received, rejected>>

(* shutdown, up to its first await. *)
Shutdown(by) ==
  /\ running /\ phase' = "stopping" /\ stopper' = by
  /\ queue' = <<>> /\ diskQueue' = <<>> /\ due' = [id \in Ids |-> 0]
  /\ UNCHANGED <<kind, pollVars, pollRun, drainRun, started, busy, chatting, cycle, life,
                 received, rejected>>

\* Mutant: a queued /stop does not shut down.
StopsOfPoll == {r \in {pollRun} \ {None} : kind[r] = "stop"}

Stops == {r \in {pollRun, drainRun} \ {None} : kind[r] = "stop"}

(* A /stop whose reply was sent; a signal or another channel. *)
StopCommand == \E r \in Stops : Shutdown(r)
Signal == Shutdown(None)

(* process.exit at the end of a shutdown, or a crash at any time. *)
Dies ==
  /\ phase' = "down" /\ stopper' = None
  /\ pollPc' = "off" /\ batch' = <<>> /\ offset' = 1
  /\ pollRun' = None /\ drainRun' = None
  /\ queue' = <<>> /\ busy' = FALSE /\ chatting' = {} /\ cycle' = FALSE
  /\ received' = {} /\ started' = <<>> /\ rejected' = {}
  /\ UNCHANGED <<kind, savedOffset, diskQueue, due, life>>

Exit == shuttingDown /\ Dies
Crash == running /\ Dies

\* Mutant: no restart filter.
RestorableAll(q) == DOMAIN q

(* The messages that the restart filter lets pass. *)
Restorable(q) == {i \in DOMAIN q : kind[q[i]] = "view"}

(* loadTelegramQueue keeps these, in their order and as many as there is    *)
(* room for, and saves them.                                               *)
Restart ==
  /\ phase = "down" /\ life < MaxLives
  /\ life' = life + 1 /\ phase' = "booting"
  /\ LET n == Cardinality(Restorable(diskQueue)) IN
     \E order \in [1..n -> Restorable(diskQueue)] :
       /\ \A i, j \in 1..n : i < j => order[i] < order[j]
       /\ queue' = [i \in 1..(IF n < MaxQueue THEN n ELSE MaxQueue) |-> diskQueue[order[i]]]
  /\ diskQueue' = queue'
  /\ due' = [id \in Ids |-> IF kind[id] = "view" THEN due[id] ELSE 0]
  /\ UNCHANGED <<kind, stopper, pollVars, pollRun, drainRun, started, busy, chatting, cycle,
                 received, rejected>>

(* The end of start(): polling begins at the saved offset, the restored    *)
(* queue is drained and then the first screening cycle takes its lock.     *)
Boot ==
  /\ phase = "booting" /\ phase' = "up"
  /\ pollPc' = "fetch" /\ offset' = savedOffset
  /\ Drain(drainRun, busy, cycle)
  /\ cycle' = TRUE
  /\ UNCHANGED <<kind, stopper, batch, savedOffset, pollRun, chatting, life, received,
                 rejected>>

Init ==
  /\ kind \in Scripts
  /\ phase = "booting" /\ stopper = None /\ life = 1
  /\ savedOffset = 1 /\ offset = 1
  /\ pollPc = "off" /\ batch = <<>>
  /\ pollRun = None /\ drainRun = None
  /\ queue = <<>> /\ diskQueue = <<>>
  /\ busy = FALSE /\ chatting = {} /\ cycle = FALSE
  /\ received = {} /\ started = <<>> /\ rejected = {}
  /\ due = [id \in Ids |-> 0]

Handlers == Fetch \/ PollNext \/ PollSaves \/ PollHandled \/ DrainHandled

Next == \/ Handlers
        \/ \E c \in Chats : ChatStarts(c) \/ ChatEnds(c)
        \/ DrainTick \/ CycleStarts \/ CycleEnds
        \/ StopCommand \/ Signal \/ Exit \/ Crash \/ Restart \/ Boot

Spec == Init /\ [][Next]_vars

(* Handlers, chats and cycles end, and a shutdown and a boot proceed. *)
Fairness ==
  /\ WF_vars(PollHandled) /\ WF_vars(DrainHandled) /\ WF_vars(StopCommand)
  /\ WF_vars(CycleEnds) /\ \A c \in Chats : WF_vars(ChatEnds(c))
  /\ WF_vars(Exit) /\ WF_vars(Boot)

FairSpec == Spec /\ Fairness

-----------------------------------------------------------------------------
TypeOK ==
  /\ kind \in Scripts
  /\ phase \in {"booting", "up", "stopping", "down"} /\ stopper \in Ids \cup {None}
  /\ life \in 1..MaxLives
  /\ savedOffset \in 1..(MaxUpdate + 1) /\ offset \in 1..(MaxUpdate + 1)
  /\ pollPc \in {"off", "fetch", "batch"} /\ batch \in Seq(Ids)
  /\ pollRun \in Ids \cup {None} /\ drainRun \in Ids \cup {None}
  /\ queue \in Seq(Ids) /\ Len(queue) <= MaxQueue
  /\ diskQueue \in Seq(Ids)
  /\ busy \in BOOLEAN /\ chatting \subseteq Chats /\ cycle \in BOOLEAN
  /\ received \subseteq Ids /\ started \in Seq(Ids) /\ rejected \subseteq Ids
  /\ due \in [Ids -> Int]

Waiting == ToSet(queue)
Executing(id) == id \in {pollRun, drainRun}

(* No lost wake-up: once up, messages wait only while something runs that  *)
(* will kick the queue when it ends.  The 5-second timer is not needed.    *)
NoIdleBacklog == phase = "up" /\ queue # <<>> => draining \/ AgentBusy

(* Nothing the handler was given in this life is forgotten while it runs:  *)
(* it waits, has been executed, or was refused with an answer.             *)
NothingForgotten == running => received \subseteq Waiting \cup ToSet(started) \cup rejected

(* A message restored from disk is a read-only one: whatever mutates is    *)
(* executed only in a life that received it.                               *)
RestoredAreSafe ==
  \A id \in Waiting \cup ToSet(started) : id \in received \/ kind[id] = "view"

(* A mutating command is executed at most once per life, through the queue *)
(* or directly, never both.                                                *)
ActsOncePerLife ==
  \A i, j \in DOMAIN started : i # j /\ started[i] = started[j] => kind[started[i]] = "view"

(* Whatever crashes and restarts come, a message is executed from the      *)
(* queue no more often than it was put there, which takes a delivery by    *)
(* Telegram each time, and never once a stop or the restart filter has     *)
(* dropped it: the file never holds what was executed.                     *)
ExecutedAsDelivered == \A id \in Ids : due[id] >= 0

(* After a stop nothing is left to do for the next life. *)
StopLeavesNoBacklog == shuttingDown => queue = <<>> /\ diskQueue = <<>>

(* The free-form sessions, which share one history, run one at a time and  *)
(* always under the busy flag.                                             *)
Sessions == chatting \cup {r \in {pollRun, drainRun} \ {None} : kind[r] = "chat"}
ChatsHoldBusy == Sessions # {} => busy

(* Messages that waited in the queue are taken oldest first, except that   *)
(* /stop overtakes.  (A restored message and its redelivered copy may be   *)
(* on either side of others, so this is about the first life.)             *)
OldestFirst ==
  [][life = 1 /\ drainRun' # drainRun /\ drainRun' # None /\ kind[drainRun'] # "stop" =>
       \A id \in ToSet(queue') : id > drainRun' /\ kind[id] # "stop"]_vars

(* If the agent keeps coming to rest, the backlog is worked off again and  *)
(* again (only so many messages arrive), or the process ends.              *)
BacklogDrains == ([]<>~AgentBusy) => []<>(queue = <<>> \/ phase = "down")

(* Then a /stop that was queued does stop the process. *)
StopWaits == \E id \in Waiting : kind[id] = "stop"
QueuedStopStops == ([]<>~AgentBusy) => (StopWaits ~> phase = "down")

(* What the queue of a running daemon owes: its messages are kept, each    *)
(* one that waits will be kicked, and chats stand guard for themselves.    *)
QueueIsKept == TypeOK /\ NoIdleBacklog /\ NothingForgotten /\ ChatsHoldBusy

(* What a restart owes: of what an earlier life was given, only what is    *)
(* safe or unconfirmed is executed, and nothing twice in one life.         *)
RestartIsSafe == RestoredAreSafe /\ ActsOncePerLife /\ ExecutedAsDelivered /\ StopLeavesNoBacklog

(* The queue is worked off, and a /stop in it stops the daemon.            *)
QueueIsServed == BacklogDrains /\ QueuedStopStops
=============================================================================
