# Etemaro in TLA+

Etemaro is an autonomous agent that provides liquidity on Solana (Meteora DLMM
pools). One Node.js process runs timers, model-driven cycles, an operator's
commands from several channels, and tools that sign transactions. There are no
threads, but nearly every function awaits the network, so two activities
interleave at every `await`; state lives partly in memory, partly in JSON files,
partly on chain; and the process may stop between any two of those.

This directory holds TLA+ modules translated from that code, TLC configurations
that check them on small instances, and theorems about them that TLAPS checks
for every instance. Paths below are relative to the repository root, `core` and
`daemon` being `packages/core/src` and `packages/daemon/src`.

    tlc -config <run>.cfg <module>       # see "Runs"
    tlapm <...>Proofs.tla                # see "Theorems"

## Inventory

| Component | State | Operations | Interacts with |
|---|---|---|---|
| Daemon scheduler (`daemon/Daemon.ts`) | five busy flags, screening and starvation cooldowns, timers, `shuttingDown` | management, screening, health, PnL poll, opportunity poll, sweeper; pause, resume, reconfigure, shut down | tools, Meteora adapter, Telegram queue (kicked by `releaseLock`) |
| Telegram command queue (`daemon/Daemon.ts`) | `telegramQueue` in memory and on disk, `draining`, `busy` | handler, drain, save, restore with filter | scheduler flags, adapter, chats |
| Telegram adapter (`core/adapters/notifications`) | offset in memory and on disk, seen ids | long poll, send, start, stop | the handler of the daemon |
| Mutexes (`core/shared/mutex.ts`) | promise chain, `_locked` | `acquire`, `runExclusive`, `isLocked` | write tools, `state.json` transactions |
| Liquidation queue (`core/domain/liquidation-queue.ts`) | `pendingLiquidations` in `state.json` | enqueue, success, attempt, dust, prune, refresh | tool executor, lessons |
| Lessons and performance (`core/domain/lessons.ts`) | `lessons.json` | record, settle, abandon, reconcile, add/pin lessons, evolve thresholds | closes, liquidation queue, pool memory, HiveMind |
| Tool executor (`core/adapters/ToolExecutor.ts`) | write-tool mutex, cron restarter | dispatch, swap with retry, swap all, sweep, close all, update config | every adapter |
| Position registry (`core/domain/state.ts`) | tracked positions, peaks, exit signals, circuit breaker | track, close, mark in/out of range, confirm peak and exit, sync, reconcile | Meteora adapter, daemon cycles |
| Meteora adapter (`core/adapters/blockchain`) | positions cache, shared in-flight read | deploy, claim, close with verification, list | registry, wallet, RPC |
| Wallet adapter | balance cache, shared in-flight read | balances, swap | RPC, Jupiter, prices |
| Deploy safety (`core/adapters/tooling/deploySafety.ts`) | none | gate of `deploy_position` | registry, positions, wallet, circuit breaker |
| Agent loop (`core/application/agent-loop.ts`) | fired-once set, steps | model call, parallel tool calls, retries | tool executor |
| Smart-wallet screening | snapshot of followed wallets | diff, deploy, save | Meteora adapter (directly) |
| IPC server, agent supervisor (`daemon/server`) | clients, history; children, registry | authenticate, invoke tool, broadcast; start, stop, list | daemon, web application |
| Configuration and strategy library (`core/config`, `core/domain/strategy-library.ts`) | one file for each agent, the live values, a library all agents share | load, validate, update, evolve, activate, add, remove, edit by console and command line | timers, screening, supervisor, HiveMind |
| Pool memory, signal weights, blacklists, decision log | one JSON file each | record, recall, adjust | lessons, screening |
| HiveMind, prices, RPC failover, screening, study, charts | caches, cursors | remote reads and pushes | everything above |
| Keystore, logger, CLI, web application | files, presentation | load, show | everything above |

What is hard in it, and where the properties aim:

- *Interleaving at awaits.* Locks are Boolean fields tested and set by hand, and
  the five kinds of cycle do not all exclude each other. A flag tested before an
  await is acted on after it.
- *A flag with two writers.* The PnL poller borrows `managementBusy`; chats share
  `busy`.
- *Wake-ups.* The command queue is drained by whoever releases a lock last.
- *At-most-once and restart.* Two files, the offset and the queue, decide what a
  restarted daemon executes again.
- *Two files for one fact.* A sale is on chain, in `state.json` and in
  `lessons.json`, written in that order with awaits between.
- *Reads that fail quietly.* Empty lists stand for errors in several adapters, and a
  read that is shared may have begun before what its caller wants to see.
- *Memory of signals.* An exit fires after several ticks agree; ticks come from two
  cycles and may be cut short or lost with the process.
- *Files that several processes write.* The configuration, the strategy library and
  the registry of children are written whole by whoever comes.
- *Providers that refuse.* The conversation with the model retries in five ways and
  must neither run for ever, nor answer without having acted, nor act twice.

`PROJECT.json` lists the hazards at their lines with the properties that would catch
them; those that no property covers are listed under "Runs".

## Modules

| Module | Models | Proofs |
|---|---|---|
| `SingleFlight` | abstract: which cycles may start while which others run | |
| `DaemonCycles` | the scheduler; implements `SingleFlight` | `LockProofs` |
| `FifoLock` | abstract: a lock served in order of arrival | |
| `AsyncMutex` | `shared/mutex.ts`; implements `FifoLock` | `LockProofs` |
| `TelegramCommands` | Telegram polling, the command queue, chats, stop, crash, restart | `TelegramCommandsProofs` |
| `Liquidation` | unsold tokens: queue, performance records, swaps, sweeps, crashes | `RecordProofs` |
| `PositionBook` | chain, portfolio API and `state.json`: deploys, shared reads, sync, closes and their verification | `PositionProofs` |
| `ExitSignals` | peak, trailing take-profit, out-of-range clock, rules, confirmation, closes | `PositionProofs` |
| `DeployGate` | sessions, closers and the smart-wallet screening in front of a deploy | `DeployGateProofs` |
| `Learning` | lessons, performance records, pool memory, thresholds, weights | `RecordProofs` |
| `AgentLoop` | one conversation with the model | `AgentLoopProofs` |
| `AgentSupervisor` | the console's child processes and their registry | `ServersProofs` |
| `IpcServer` | connections, authentication, snapshots, chat over the socket | `ServersProofs` |
| `Servers` | composes the last two with start, shutdown and crash of the console | `ServersProofs` |
| `Settings` | configuration file, live values, timers and strategy library, and all that write them | `SettingsProofs` |
| `MC...` | symmetry sets, functions and inputs for TLC | |

A proof module extends the modules it is about, one or two that share a subject; where
two are extended together, their specifications have names of their own (`MutexSpec`,
`ExitSpec`, `LearnSpec`).

How they fit together: `DaemonCycles` says when management, screening and the pollers
run and `ExitSignals` what a run of two of them decides; `AgentLoop` is what such a run
awaits when it asks the model, and the tools it calls are `DeployGate` (deploys),
`PositionBook` (closes) and `Liquidation` (swaps), one at a time under the lock of
`AsyncMutex`. A close leaves a record that `Liquidation` settles and `Learning` learns
from. Where a module needs another's subject it takes only its result: a read that
may be wrong in `DeployGate`, whether the agent is busy in `TelegramCommands` and
`IpcServer`.

Operators that follow a line `\* Mutant:` are faulty variants of the next
definition. No specification uses them; substituting one shows that a property
would notice such a fault.

### DaemonCycles

A step is what the event loop runs between two awaits. `at[r]` names the await at
which invocation `r` of some cycle is suspended; `flag` is the five `...Busy`
fields by lock name; `RefusedOn` is the table of `acquireLock`, flag by flag.
Each cycle is a chain of actions: `ManagementTick` up to the positions read,
`ManagementSkips`, `ManagementFlat` (nothing open: a screening is started from
inside the management cycle) or `ManagementActs`, then `ManagementDone`, and so
on for screening, health check, PnL poll, opportunity poll and sweeper. What a
cycle reads from chain, wallet and model may be anything, since it changes
between reads. `Leave` is the `finally` of a cycle and may follow any await, as
an exception does. Comparisons with the clock are the Booleans `cooling` and
`starved`, which time clears. `Pause`, `Resume`, `UpdateSchedule`, `Screen` and
`Stop` are what operators do, from whatever channel. `Tty` distinguishes the two
boot paths, which differ in `cronStarted` and in whether a screening runs at once.

### AsyncMutex

The mutex has no owner. Each call awaits the promise it found and leaves its own
in its place. `queue` is the tail, `previous[c]` what call `c` awaits, `waiter`
the resolved promises, `settled` the links whose `then` has run; continuations
run in any order. `Release` covers both a callback that returns and one that
throws. Between release and grant, `_locked` is false with calls waiting; the
model keeps that gap.

### TelegramCommands

Update ids are consecutive numbers, and `kind` gives what each asks for. The
polling loop (`Fetch`, `PollNext`, `PollHandled`, `PollSaves`) hands updates to
the handler one at a time and saves the offset when a batch is done; the handler
executes a message or, with the agent busy, queues it (`Enqueue`, refusing when
full). `Drain` removes a message, saves the queue and then executes; `DrainHandled`
goes on with the next. `cycle` stands for the four flags the handler reads.
`Shutdown` empties and saves the queue; `Crash` keeps what is on disk; `Restart`
keeps, in order and as many as fit, what of the saved queue passes
`isSafeStartupTelegramCommand`; `Boot` ends the start-up. `stopper` is the `/stop`
whose `shutdown()` the handler awaits. `due` is history, and counts over all lives how
often a message was put into the queue (`PutInQueue`) less how often it was executed
from there (`ExecuteQueued`).

What follows and is not claimed: a message that a crash makes Telegram deliver again is
queued again, next to its copy in the saved queue, so that a read-only one may be
executed once for each delivery.

### Liquidation

`wallet[m]` is the balance of base mint `m`: none, dust or some. Positions are
numbered in the order of their performance records. `status`, `position`,
`attempts` and `recent` are the fields of the queue entry of a mint that decide
something; `record` is the status of each performance record. The write tools are
serialised by the mutex of `AsyncMutex`, so there is one `job`; it advances one
await at a time, and `Crash` drops it there. `unsold` says whose tokens the balance
consists of; `sold`, `owed` and `kept` of the job are history. A swap may sell all, land
unseen, fail, or sell only a part (`Sells`). Amounts are left out: what a sale brings
and what a settled record books of it.

What follows and is not claimed: after `liquidity.partial` a swap is tried again with a
half, a quarter or a tenth of the balance (ToolExecutor.ts:844), and when that succeeds
the record is settled as realized with the rest still in the wallet. `RealizedMeansGone`
leaves out the positions settled this way: they stop being `owed`. A swap that failed
by its report and sold a part is found by the sweep, as one that sold nothing is.

### PositionBook

Truth and belief are apart: `account` is the chain, `listed` what the API shows of it
(`Index` lets it catch up), `book` the entries of `state.json`. `read` is the one
request that concurrent readers share: `Ask` joins it if there is one, `Answer` takes
what is listed at that moment, `Sync` merges it into the book under the grace period
(`young`). `job` is the write tool in progress: a deploy (`DeployLands`, its failures,
the record of it) or a close (`CloseByRelay`, `CloseBySelf`, `CloseOfGone`), which looks
up to `Looks` times whether its position is gone before it accounts for it. `Crash`
drops the job; the owner may open and close positions himself. `misled` marks the
positions some answer wrongly showed as gone. Left out: the contents of the cache,
and with them the values a close falls back to; deploys through the relay, which the
code does not make.

What follows from the code and is not claimed: a degraded read counts as closed; a
crash between the transaction and its record loses the performance record; a position
that was falsely closed is not opened again.

### ExitSignals

`mem[p]` holds the fields of a position's entry that decide about exits. A reading is
what a source shows of a position: its PnL, whether a suspect one, whether it gained
in dollars, whether it is out of range by its own state (`out`) or the pool's flag
(`flag`), far above its range, poor in yield. `Evaluated` is `updatePnlAndCheckExits`
(peak, trailing, stop loss, out-of-range clock), `Rules` the management cycle's table.
`PollTick` and `ManagementTick` evaluate all positions in one step and begin the
closes; `CloseEnds` and `Closed` carry them out; `Minute` moves the clocks; `Restart`
forgets what is in memory. CLAIM, which closes nothing, is left out. A missing
percentage is a reading of 0, as in the code.

What follows and is not claimed: the confirmed peak is the last candidate, so that a
spike inflates it; `confirmPeak` does not ask whether a reading is suspect
(state.ts:291), so that a suspect gain can arm the trailing take-profit, whose close
then still waits for a reading that is not suspect; the management cycle acts on a single tick; where the pool's flag
and the position's own state disagree, the clock restarts with each read.

### DeployGate

An order is what a caller has chosen, kept from its first await to its last: a
session's through `runSafetyChecks` (`Allowed` and its guards), the lock, the checks of
`deployPosition`, the transaction and its record; a closer's through the swap that moves
the circuit breaker (`failures`) and the cooldowns. The smart-wallet screening has its
own actions: the snapshot (`ledger`), vetoes, leads and the cap on a run. Callers that
wait for the lock are left out (`AsyncMutex`), and so is the dry run. `excused` marks
runs in which a read was wrong or a landing went unrecorded: the code does not defend
itself against either.

What follows and is not claimed: beside sessions the smart-wallet screening exceeds
the limit by one (docs/CONFIGURATION.md:179 states none); a successful swap lowers the
count and so ends a halt without the operator (docs/CONFIGURATION.md:240); a token is
compared only if the model names it; a lead whose deploy landed without confirmation
may be followed twice.

### Learning

`file` is `lessons.json` and is written whole. A pass (close, settle, abandon,
reconcile) is under way from the moment it copies the file to the moment it saves it,
with an await at each record (`pass`); edits of lessons run between. `deploys`,
`poolRest` and `tokenRest` are pool memory and its cooldowns, `floors` the thresholds
that `Evolve` raises, `weights` the signal weights with their lifts. An abandoned trade
is remembered as abandoned, whatever closed it: it sets no cooldown and breaks a streak
of exits out of range. Numbers are scaled integers. Left out: boolean and categorical lifts, staging of signals, the
choice of lessons for a prompt, notes, snapshots and recall of pool memory, failing
disk writes. All pools are of one token, and its cooldowns are of the scope "token".

What follows and is not claimed: an edit during a pass is lost; a crash between the
two files counts a trade twice or never; a later, shorter cooldown of a pool replaces
a longer one; thresholds evolve from records that still wait for their swap; from a
configured `minOrganic` below 60 the clamp jumps over the worst winner. (The comment
in `lessons.ts` near line 639 also says that recent lessons are chosen by role; they
are not. Prompts are outside the model.)

### AgentLoop

A step runs from one await to the next: a request settles or a tool returns. `phase`
says what is awaited and, at the end, how the loop ended. `SystemRefused`,
`RequiredRefused`, `ThinkingRefused`, `Overloaded`, `RateLimited`, `RequestFails` are the
ways a request fails; `SaysNothing`, `Says` and `Calls` what the model may answer. `calls`
are the tool calls of its last message, which run in parallel and return in any order
(`ToolReturns`, `ToolThrows`); `messages` is the history as far as it matters, one entry
for each message, with whether a result reports something done. `firedOnce` bars what
ran before. `refusals` counts the requests repeated without counting as an attempt.
close_position and swap_token are one kind, since the loop treats them alike, each
name for itself. The hooks that the loop calls are taken not to throw.

What follows and is not claimed: a system role refused late (say, by the fallback
model) builds the messages anew, without the calls already made (`forgot`); empty
answers are retried until the steps run out, where the comment at line 551 says once;
the results of the last step's calls are never told to the model, and a rate limit in
the last step ends the loop as "Max steps"; a tool the role was not offered is run if
the model names it; after one close that succeeds, every other close of the loop is
blocked; an overload that the SDK throws as an HTTP error is not retried.

### AgentSupervisor, IpcServer, Servers

`proc` is the state of each process a console ever spawned; `children` the map of the
running console, `registry` the file of pids. A child runs the same program, so
`ChildBoots` reaps and clears the registry as the console's own start does, and
`ChildShutsDown` clears it. Exit events arrive late. Pids are not used again.
`IpcServer` keeps for each socket its state, whether it is authenticated, its timer,
and the last snapshot sent to it; of the daemon there is only what it pushes.
`Servers` lets the console start, serve, shut down and crash. HTTP requests in progress
are part of `Exit`. Answers of tools, the tool catalogue and static files are left out.

What follows and is not claimed: `hidden` and `lost` mark the processes that a late
exit event, or a child, unlisted (against the comment at `AgentSupervisor.ts:185`); a
cycle's last snapshot says busy, and while the agent is paused nothing corrects it; a
prompt sent while the agent is busy is acknowledged and dropped; a failing spawn has
no listener.

### Settings

A content of the configuration file is reduced to five fields (see the module's
head), the values the agent runs with to the same and `unsaved`, the kinds of live values
that are not where a start looks for them. The keys of `update_config` are of ten kinds,
by what the code does with them: where a key is applied, where it is saved, whether the
schema accepts what is saved, and what else it sets off (`Placed`, `Elsewhere`,
`Screening`). `LiveAfter` is what a call makes of the live values, `Persisted` what it
makes of the file, and they differ for `Elsewhere`: those keys are live at once and saved
at a path of their own, which the schema rejects. `Rejected` says when a call leaves a
file that the schema does not accept. The agent saves by rename; the console, and the agent when it writes its
identity, truncate and write, so that a read in between finds nothing (`Fragment`).
`Load`, `Identify`, `Identified`, `StartUp`, `Dies` are a start of the agent;
`UpdateConfig` and `UpdateThrows` the two ways `update_config` may go; `Evolve`,
`SetActive`, `AddStrategy`, `RemoveStrategy` change file, values and library, the last
two in two steps since other processes run between; `Pause` and `Resume` the timers.
`WebLoad`, `WebPut`, `ConsoleSetsStrategy`, `CliReads`, `CliSaves`, `OtherAdds`,
`OtherRemoves` and `PullPresets` are everybody else. The history variables name the
cases the code does not guard against: a copy out of date was written (`overtaken`), a
writer was let to break the file (`strayed`), another agent removed the strategy in use
(`bereft`, `stranded`), or the file and the running agent were made to differ (`apart`).

What follows and is not claimed: `screening.*` keys that `definitions/management.ts:300`
lists make `update_config` throw after the keys before them were applied and nothing
was saved; keys with flat paths (`binsBelow`, `pnlSource`, `pnlPollIntervalSec`, ...)
and `strategy` are applied at once and write what the strict schema rejects at the next
start; so do Booleans that `normalizeConfigValue` does not list and makes 1 or 0, three of
which the settings menu toggles, and null; bin counts are clamped in memory after they
were saved; the page's save overwrites what the agent saved since; the removal of
a shared strategy by another agent stops the timers for good; `buildConfig` drops
`rpcUrl2`; `reloadScreeningThresholds` runs after an evolution only, where
docs/CONFIGURATION.md:405 says every cycle; nested paths (docs/CONFIGURATION.md:414)
are not understood. `RestartChangesNothing` names the values it leaves out (`unsaved`) and
`BootsAgain` the calls (`strayed`); every other call is claimed to keep file and agent
alike, and the file acceptable. With `TwoFiles`, where config/agent-config.json stands
beside instances/agent-default.json, `setActiveStrategy` writes the one and the agent
loads the other: the run and the theorems are about one file (`OneFile`). Resetting the
identity with the key `hiveMindAgentId` is left out.

## Runs

| Run | Specification and bounds | Checks |
|---|---|---|
| `cycles_opportunity` | headless, opportunity poller on, 4 overlapping invocations, 2 intervals, symmetric | exclusion, flags, the poller's restore, starvation, refinement of `SingleFlight` |
| `cycles_repl` | REPL, no opportunity poller, 3 invocations, with fairness | no stuck flag, timers follow the configuration, every lock released, screening goes on |
| `mutex` | 4 overlapping calls, with fairness | exclusion, refinement of `FifoLock`, every call runs |
| `commands` | 3 updates (the order of kinds as in `MCScripts`), queue of 2, 2 lives, one chat, with fairness | backlog, nothing forgotten, restart filter, executed as often as delivered, stop, chat flag; order of service, drain, queued `/stop` |
| `liquidation` | 2 trades of one mint, 2 attempts, one crash, claim, price move or incomplete scan, with fairness | tombstones, settled records, realized means gone, every record settles |
| `loop` | 3 steps, 2 parallel calls, a fallback model, with fairness | valid history, what was done is told, answers rest on results, bounded retries, nothing runs on, the loop ends |
| `positions` | a position of the agent, one of its owner, relay, failing reads, 2 looks, one crash or move, with fairness | closed means gone, recorded once, records kept, open gets tracked, gone gets closed |
| `exits` | 2 positions, 2 confirming ticks, an instruction, a suspect gain, a wait of a minute, with fairness | confirmation, real peaks and clocks, losses and positions out of range end |
| `deploys` | a session, a closer, the smart-wallet screening, 3 pools of 2 tokens, limit 2, one wrong read | limit, one deploy a session, each lead once, baseline, fresh pools, halt, cooldowns |
| `learning` | 3 trades of one pool, 3 kinds, one note, one edit or crash | counted once and always, pending trades silent, edits hold, thresholds spare winners, tokens rest |
| `servers` | 2 agents, 2 spawns, one client, 2 lives of the console, with fairness | children tracked, orphans listed, snapshots, strangers leave, idle is told, shutdown ends |
| `settings` | 2 edits by anybody, 2 starts, 1 private and 1 bundled strategy, one configuration file | what was meant is saved, a restart changes nothing, the agent starts again, known strategy, timers, identity |

Every property has a mutant in `PROJECT.json`: a fault in one definition, under which
TLC finds the property violated in the same run.

Most properties that a run names are conjunctions of parts, defined at the end of each
module and documented one by one: `QueueIsKept`, say, is `TypeOK`, `NoIdleBacklog`,
`NothingForgotten` and `ChatsHoldBusy`. A module keeps a faulty variant ("Mutant") of
some definition for each part; `PROJECT.json` names one of them for each conjunction.
`MutexTypeOK`, `FirstComeFirstServed` and `LockedIffInside` of `AsyncMutex` and `TypeOK` of
`DaemonCycles` are proved for every value of the constants and not run.

The bounds are where the interesting cases start. Four invocations let every kind of
cycle be in progress next to any other with one more trying to enter; three updates
fill a queue of two and leave one to refuse, and let `/stop` overtake; two lives are a
crash and what follows it. Two trades of one mint give sibling records that share a
queue entry; mints do not influence one another except by sharing a scan, and an
incomplete scan shows any subset. Two attempts are a first failure and the last one.
Three steps of the conversation are a call, a refusal or a reminder after it, and an
answer; two calls are the least that run in parallel or duplicate one another. Two
looks of a close are one before and one after the API has caught up, with a joined
read in between. Two confirming ticks can be cut by a close, a restart or another
reading; two positions give a tick that closes one and leaves the other. Three pools
of two tokens let a deploy repeat a pool, repeat only its token, or neither; a limit of
two is reached by a session and the smart-wallet screening together. Three trades
reach the counts at which thresholds and weights move. Two spawns are a child and its
successor, two lives of the console a crash and the reaping that follows it. Two edits
are one that is read and one that overtakes it; two starts a crash inside one of them.
`Budget`, `Edits`, `MaxEdits` and `Restarts` bound what the environment does so that the
state space is finite and, where liveness is checked, the code gets to act in peace
eventually.

### Where code and documents disagree

No run expects a violation. These claims of the repository do not hold of its code, as
runs of the modules with other constants or a stronger property showed; they are the
reason for a bound, a constant or an excuse above.

| Claim | What the code does |
|---|---|
| docs/PERFORMANCE.md:128: a tick is skipped if the previous cycle still runs | `runScreeningCycle` (Daemon.ts:1389) takes the lock and, called silently during the starvation cooldown, returns before its `try`; the opportunity poller tests the cooldown, awaits the positions and calls it. Screening is off until a restart. `cycles_repl`, which checks `BusyMeansRunning`, and its theorem are about a daemon without that poller |
| ToolExecutor.ts:9: `update_config` restarts the timers | the restarter asks `cronStarted`, which a headless start never sets (Daemon.ts:569). `cycles_repl` and the theorem `TimersFollow` are about a daemon with a terminal |
| TelegramAdapter.ts:646, docs/ARCHITECTURE.md:223: handled updates are not replayed, `/stop` cannot loop | the process exits inside the batch, before the offset is saved (TelegramAdapter.ts:574) |
| shared/types.ts:265: realized for sold tokens, abandoned_loss for lost ones | the swap right after a close finds no queue entry and settles nothing (liquidation-queue.ts:145); the next sweep books a total loss |
| shared/types.ts:265: realized when the cash was received | after a sale of only a part (ToolExecutor.ts:844) the record is realized with the rest still in the wallet (excused in `RealizedMeansGone`) |
| docs/CONFIGURATION.md:424: changes are persisted immediately | keys with flat paths are live, and saved where no start looks for them (ToolExecutor.ts:600); the file that holds them is refused by the next start |
| Daemon.ts:2341: the settings menu toggles chart indicators | the Boolean is saved as 1 or 0 (ToolExecutor.ts:153) and `envBoolean` rejects a number (schema.ts:112): the agent does not start again until the file is repaired (excused in `BootsAgain`) |
| strategy-library.ts:262: the active strategy is saved in the agent's file | `configPath` prefers config/agent-config.json, the agent loads instances/agent-default.json first (constants.ts:225-264); the same file only if one of the two is missing or `AGENT_CONFIG_PATH` is set |
| lessons.ts:745: siblings of a settled record are zeroed | their estimated residual is booked on top of the sale (lessons.ts:761) |
| wallet scans that are incomplete are heeded | a sweep marks an entry it cannot see in the wallet as liquidated and books its record (`owed` leaves these out) |
| the chat flag serialises prompts | with `Desktop = TRUE` two desktop chats overlap and the first to end lowers the flag of the other |

The sections on the modules name those that were met while modelling them.

That a restored message is executed once by all later lives together was a property of
`TelegramCommands` until its proof was tried: with three lives TLC finds it violated,
since a message may be delivered again after each crash. `ExecutedAsDelivered` says what
the code does keep, and is proved for any number of lives.

### Hazards without a property

`PROJECT.json` lists the hazards that some property is about. These have none:

- Locks have no watchdog (Daemon.ts:369): an await that never settles holds its flag.
  Liveness is checked under the assumption that awaits settle.
- Exits are watched by a poller that is refused while a screening runs
  (Daemon.ts:811): a delay, which needs a model of time.
- When no source answers, a balance read hands out an earlier or an empty list without
  saying that it is incomplete (WalletAdapter.ts:541); with `"failed"` in `BadReads` TLC
  finds `TombstonesHold` of `Liquidation` violated.
- The Telegram queue is full (Daemon.ts:2512): a message, even `/stop`, is refused with a
  note to the sender; `TelegramCommands` counts it as handled.
- An entry marked dust is never enqueued again (ToolExecutor.ts:980), and a token that
  comes back after a sale keeps the attempts of its old entry
  (liquidation-queue.ts:92): kept in the model, nothing is claimed of it.
- The value a close falls back to is looked for in a cache that its verification has
  just replaced (MeteoraAdapter.ts:2224): the cache's contents are not modelled.
- A percentage that is missing is read as 0 (MeteoraAdapter.ts:1395), and the peak of
  a spike is confirmed by the tick after it (state.ts:319): readings are inputs.
- Positions opened in a run of the smart-wallet screening count twice
  (Daemon.ts:1988): too few deploys; the next run goes on.
- Thresholds evolve from records that wait for their swap (lessons.ts:181); lessons of
  one settlement share an id (lessons.ts:311), where the model names them by origin.
- A prompt that arrives during a cycle is acknowledged and dropped (Daemon.ts:3229); a
  spawn that fails has no listener (AgentSupervisor.ts:121); `rpcUrl2` is never
  configured (Config.ts:117).

## Fairness

- *DaemonCycles*: awaited calls settle (there is no time-out in the locks, so this
  is an assumption, and a hazard); timers fire again as long as they are
  installed; the clock moves; a shutdown proceeds. Operators owe nothing.
- *AsyncMutex*: the event loop runs every ready continuation and callbacks end.
  Calls need not be made.
- *TelegramCommands*: handlers, chats and cycles end. `BacklogDrains` and
  `QueuedStopStops` assume in their statement that the agent keeps coming to rest,
  because cycles are free to follow each other without a pause.
- *Liquidation*: an awaited step of the job in progress completes (weak fairness
  of `JobStep`); the sweeper's timer keeps asking for the write lock, which is
  FIFO (`EveryCallRuns` of `AsyncMutex`), so a sweep starts again and again although
  other tools come between (strong fairness of `Sweep`).
- *AgentLoop*: requests time out after five minutes (OpenAiChatAdapter.ts:18) and
  tools return.
- *PositionBook*: pollers read again and again; not every read fails (strong fairness
  of `Answer`); awaited calls settle; the API catches up; grace periods pass. Tools,
  the relay and the owner owe nothing.
- *ExitSignals*: both timers go on, awaited closes settle, and a position whose close
  is tried again and again is closed in the end (strong fairness of `Closed`). The
  market owes nothing, so `LossEndsIt` and `OutEndsIt` are about positions that stay as
  they are.
- *Servers*: the server's own timers run, a closing socket closes (the WebSocket
  library gives it 30 seconds), a shutdown proceeds, the poller ticks while no cycle
  runs. Clients and operators owe nothing.

## Theorems

`DaemonCycles` (in `LockProofs`), for any number of invocations, any intervals, both boot
paths, with and without the opportunity poller unless said otherwise (from
`ConfigAssumption`): `TypeCorrect`, `FlagsCoverRunningCycles`, `NoOverlap`, `PollerRestore`,
`PolledScreeningHeedsStarvation`, and `CyclesImplementSingleFlight`.

None of the safety properties is inductive alone. That a running cycle's flag is
up depends on nobody clearing it, and the one action that writes a flag it does
not own is the PnL poller's restore; that it restores *false* depends on no
management cycle having started since the poller entered, which depends on the
poller's flag still being up. `Inv` is the conjunction of the type invariant and
the three properties; it is preserved by `Enter`, `Leave`, `Goto` and
`CallScreening`, one lemma each, and by every action through them. The
refinement maps `at[r]` to the cycle it belongs to and `phase` to `closed`: a step
that takes a lock is a `Start`, one that releases it a `Finish`, a management cycle
that turns into a screening both in one step, and everything else stutters.
`TimersFollow` is for a daemon with a terminal: there `cronStarted` is right about the
timers (`StartedIsInstalled`), which is what the restarter asks. `NoFlagIsStuck` is for
a daemon without the opportunity poller: every flag that is up has an invocation inside
the `try` that lowers it (`Held`). Without these two conditions TLC finds the properties
violated, as the table above says.

`AsyncMutex` (in `LockProofs`), for any set of calls (from `NoCallAssumption`):
`MutexTypeCorrect`, `MutexExcludes`, `MutexIsFifo`, `IsLockedIsExact` and
`MutexImplementsFifoLock`. The invariant describes the chain: it links
the calls in the order of their tickets, and a call enters only when its
predecessor is done, so whoever is inside is the earliest that is not done.

`Liquidation` (in `RecordProofs`), for any number of positions, mints and attempts, and any way
in which wallet reads go wrong unless said otherwise (from `LiquidationAssumption`):
`LiquidationTypes`, `SettledRecordsStay`, `RealizedAreGone` and `TombstonesStay`. The
type says that no position's tokens are both held and sold, which needs `HeldIsClosed`:
tokens come only from a position whose record was still open until then. That no step
touches a settled record (`RecordsGrow`) rests on `TargetsArePending`: a settlement or a
write-off takes the position its entry names only if that record is still pending, and
the others of the mint otherwise.

That a realized record has no tokens left, but for the rest of a sale of only a part
(`SoldInv`), depends on what happens many awaits
earlier: an entry names a position of its own mint (`NamesItsOwn`), the tokens are away
from the moment the swap is confirmed until the record is settled (`SoldAway`), and a
sweep that settles what it does not see has seen every token it owes (`ScanShowsOwed`).
A token that was given up is left alone by a sweep, because the entries it works off
wait throughout (`QueueWaits`) and a complete scan is right about what it lacks
(`ScanIsRight`). The latter is false of balances handed out when no source answers, so
`TombstonesStay` assumes `"failed"` is not in `BadReads`; TLC finds it violated otherwise.

`AgentLoop`, for any number of steps and of parallel calls (from
`AgentLoopAssumption`): `ConversationIsBounded` and `HistoryHolds`. That repeated requests
do not add up is not inductive: the invariant counts, next to the requests refused, what
a provider may still refuse (`StillRefusable`), which no step raises, since a tool is
required in the first step only. That no tool runs on when the loop ends rests on tools
running in one phase only; that it ends at the second answer without a tool, on the
count being below two in every phase but the last (`RemindedOnce`).

The history grows by one message, or by the results of all calls at once
(`HistoryGrows`): while tools run its last message is the one that asked for them and all
before it is in order. What was done is told, or is at hand among the calls that still
run (`ToldOrAtHand`); a tool call that was seen left its result (`SawMeansTold`).

`DeployGate`, for any sessions, closers, pools, watched wallets and limits (from
`DeployGateAssumption`): `ExposureBounded`, `LeadsFollowedOnce` and `DeploysHeed`. What the
checks of a deploy found must still be so when it lands several awaits later. The
invariant therefore says of each stage what was established before it: the breaker does
not hold (`NotHalted`), neither pool nor token is cooled (`Warm`), the pool is free and so
is the token it named (`StillFresh`), there is room (`RoomIsKept`). These stay because
whoever is past its idle stage holds the lock (`OrderOK`), and because the book lags
behind the chain by what is excused only (`BookLagsBehind`). The smart-wallet screening
takes no lock; one deploy of it can be on its way (`OneLanding`), which is the one place
by which the limit is exceeded. That a lead is followed once needs that those followed
are in the snapshot or among those about to be saved there (`Recorded`, `BaselineKnown`).

`PositionBook` (in `PositionProofs`), for any positions, reads, relayed closes, crashes and moves of the
owner (from `PositionBookAssumption`): `BookStaysRight` and `RecordsAreKept`. The book
closes a position on the strength of an answer from some awaits before. The invariant
relates that answer to the chain: a position that is not on chain yet has left no trace
anywhere (`NoneIsUntouched`); while it is open, the source and any answer on its way show
it if it is watched and past its grace period (`WatchedIsShown`) or its close is being
looked for (`ClosingIsShown`), or it is one that some answer misled about; what is
recorded is gone, and what may still be recorded was not yet (`RecordedMeansGone`).
`RecordsAreKept` assumes that answers do not lack positions (`"omits"` not in `BadReads`):
such an answer may close a position in the book between its deploy and `trackPosition`,
which then writes the entry anew (`TrackedIsOpen`).

`Settings`, for any libraries, calls of `update_config`, numbers of edits and starts
(from `SettingsAssumption`): `SettingsKept`, `AgentStays` and `IdentityKept`, all where
the active strategy is written to the file that the agent loads (`OneFile`). The
properties speak of the file, but a truncated file is empty for a while. So the invariant
counts a content on its way into the file as saved (`SavedOrOnItsWay`, `NothingAmiss`),
says of every stage of a start what is in memory and in the file (`RunsOnSaved`: the same
values, and a file that no start accepts once a value was saved elsewhere), and of
the library also what it will be once a removal under way is done (`StrategyStays`).
`StartedMeansRunning` relates the note that timers were started to the timers.

`TelegramCommands`, for any messages, queue and number of lives (from
`CommandAssumption`): `RestartsAreSafe`, `OldestAreFirst`, `BacklogKept`, and `QueueKept`
where no desktop chat runs beside the guarded ones. The queue is in memory, in a file and
in the history of what was executed; the invariant relates the three. While the daemon
runs, the file equals the queue (`Saved`); every copy of a message in the file is due
(`DueCovers`); one that mutates is waiting once or was executed once in this life
(`Once`). In the first life the queue is in the order of arrival (`FirstInOrder`), which is
why the oldest is first; a later life need not keep that, since a message that is
delivered again stands behind those restored. That nothing waits on an idle daemon
(`NoIdleBacklog`) is inductive once it is known what rests when (`Resting`). The flag that
chats share is up while a session runs, and one runs at most (`SessionsAlone`); with
desktop chats TLC finds this violated, and `BacklogKept` is what remains. The lemmas on
`RemoveAt`, `Append` and the places of a message in a sequence are stated once and used
throughout.

`ExitSignals` (in `PositionProofs`), for any number of positions, any readings, limits
and number of confirming ticks (from `ExitSignalsAssumption`): `EveryExitIsJustified`. What
an entry remembers must not exceed what was seen, over ticks of two cycles, closes that
cut a tick short and restarts. The invariant bounds each entry by the history of its
position: peak, pending peak and an armed trailing stop by the best reading, the
out-of-range clock by the time the position stayed outside (`Within`), the streak of a
signal by what the poller last saw in a row (`Follows`). That a closed position's entry
is forgotten, and that the poller closes one position at a time whose streak it has
just reset (`PollAlone`), keeps a failed close from leaving a streak behind. `FirstHolds`
says of `First`, the order of the rules, that what it returns holds of the reading.

`Learning` (in `RecordProofs`), for any trades, pools, kinds, notes and results, any
counts and cooldowns (from `LearningAssumption`): `TheFilesAgree` and
`LearningKeepsMeasure`. A trade is counted in one file and final in the other, and a pass
holds a copy of the latter for many awaits. The invariant therefore speaks of the file
or, while there is one, the copy: what is pending there has not been counted
(`Silent`), what is final has been (`Counted`), both for the copy because it is what will
be saved. What a pass has still to do is pending in its copy (`TodoWaits`); an open
trade has left no trace anywhere (`OpenIsUnseen`), and one that is being recorded has a
record but no count (`RecordedIsNew`). Notes are as wanted in file and copy unless an
edit met a copy (`NotesHold`). The thresholds are read off the definitions: `Nudged` and
`Rounded` do not pass a target above the current value, and the target is below the
worst winner (`OrganicFloorRises`). Only a configured floor of 60 or more is claimed to
spare the winners: the code clamps to 60 from below, whatever they are.

`Servers` with `AgentSupervisor` and `IpcServer` (in `ServersProofs`), for any agents,
clients, numbers of children and lives of the console (from `SupervisorAssumption` and
`RestartsAssumption`): `NoProcessGoesAstray`. The map of children, the registry and the
processes change in different steps; the invariant says which of them is right about a
process at which time: the map while its console lives (`MapIsRight`), the registry of
the children the map names (`FileFollows`), and after the start of the next console no
process of the last one (`NoStrangers`). Steps of the socket server leave this alone, and
the other way round (`IpcAlone`, `IpcStays`), so that the two halves are proved apart.

## Only model-checked

- Every liveness property: `CyclesGoOn`, `EveryCallRuns`, `QueueIsServed`, `EveryCloseSettles`,
  `OpenGetsTracked`, `GoneGetsClosed`, `LossEndsIt`, `OutEndsIt`, `ServersSettle`, `LoopEnds`.
  Fairness and ENABLED are out of the prover's reach.
- Every safety property that a run checks is stated by a theorem; some under a condition.
- What is proved under a condition is not claimed without it: see the conditions of
  `TimersFollow`, `NoFlagIsStuck`, `TombstonesStay`, `RecordsAreKept`, `QueueKept`, `LearningKeepsMeasure`
  and the three of `Settings` above.

## Not modelled

- *DaemonCycles*: dry run, the briefing and backup tasks (they take no lock), and the
  REPL's own prompt. Handlers that restart the timers while a shutdown is in progress.
- *TelegramCommands*: the content of messages, handlers that reject, the set of
  seen ids and its cap, the REPL start, in which a restored queue waits for the
  5-second drain timer. `startPolling` re-enabling polling when a shutdown comes
  during boot. That the number in a queued `/close n` may mean another position.
- *Liquidation*: amounts and prices beyond none/dust/some; the single retries inside
  one swap, whose possible outcomes are one step; reads that fail and hand out a list
  that is cached or empty and not marked (see the hazard at WalletAdapter.ts:541);
  ages, so an entry may be past the abandon window at any attempt.
- The parts left out of the other modules are named in their sections.
- Screening, token data, study, charts, briefing and PnL computation are remote reads,
  numeric filters and text; keystore, logger and definitions of tools are single calls
  and tables; the RPC connection's second endpoint is never configured. `PROJECT.json`
  lists each with its reason.

## What is left

1. A composition of `ExitSignals` with the cycles and of the conversation with the lock
   of the write tools, whose joint behaviour is only argued here.
2. The contents of the positions cache and the values a close falls back to.
3. Pushes and pulls of HiveMind; signal staging; ages of queue entries.
