---------------------------- MODULE DaemonCycles ----------------------------
(***************************************************************************)
(* The autonomous cycles of the daemon (packages/daemon/src/Daemon.ts): the *)
(* busy flags and acquireLock/releaseLock that guard them, the control     *)
(* flow of each cycle from one await to the next, the screening cooldown   *)
(* and capital-starvation cooldown, the cron timers and the shutdown.      *)
(*                                                                         *)
(* A step of this module is what the event loop runs between two awaits.   *)
(* at[r] is the await at which invocation r is suspended.  Wall-clock      *)
(* comparisons are abstracted to Booleans that a step of time clears:      *)
(*   cooling  : Date.now() - screeningLastTriggered is within the cooldown *)
(*   starved  : screeningStarvedUntil > Date.now()                         *)
(* What a cycle reads from the chain, the wallet and the model is any      *)
(* outcome, because all of them change between two reads.  Live trading is *)
(* modelled; dry run only skips the wallet read.  releaseLock also kicks   *)
(* the Telegram queue: module TelegramCommands; what a drained command does   *)
(* to this state are the operator actions Pause, Resume, Stop, Screen.     *)
(***************************************************************************)
EXTENDS Naturals

CONSTANTS Runs,               \* identities of cycle invocations
          Intervals,          \* values the schedule configuration can take
          NoTimers,           \* stands for "no timer installed"
          Tty,                \* started with a REPL (launchCron) or headless
          OpportunityPolling  \* config.opportunity.enabled, not smart_wallets

ASSUME ConfigAssumption ==
  /\ NoTimers \notin Intervals
  /\ Intervals # {}
  /\ Tty \in BOOLEAN
  /\ OpportunityPolling \in BOOLEAN

VARIABLES
  flag,               \* managementBusy, screeningBusy, ... by lock name
  at,                 \* control point of each invocation
  wasManagementBusy,  \* the poller's saved managementBusy
  cooling, starved,   \* the two cooldowns of screening
  interval,           \* schedule in config
  installed,          \* schedule the running timers were created with
  cronStarted,
  phase               \* "up", then shutdown: "closing", "snapshot", "exited"

cycleVars == <<flag, at, wasManagementBusy>>
screenVars == <<cooling, starved>>
cronVars == <<interval, installed, cronStarted>>
vars == <<cycleVars, screenVars, cronVars, phase>>

Locks == {"management", "screening", "pnlPoll", "opportunityPoll", "sweeper"}

(* The lock an invocation holds at each control point. *)
LockAt ==
  [mgmtFetch  |-> "management", mgmtAct |-> "management", health |-> "management",
   pnlFetch   |-> "pnlPoll",    pnlClose |-> "pnlPoll",
   oppLook    |-> "opportunityPoll",
   sweep      |-> "sweeper",
   scrFetch   |-> "screening",  scrBalance |-> "screening",
   scrSweep   |-> "screening",  scrLook    |-> "screening",
   scrBins    |-> "screening",  scrDecide  |-> "screening"]

Points == DOMAIN LockAt \cup {"idle"}

shuttingDown == phase # "up"
timersOn == installed # NoTimers /\ phase # "exited"

-----------------------------------------------------------------------------
\* Mutant: every lock looks at its own flag only.
RefusedOnOwnFlag == [l \in Locks |-> {l}]

\* Mutant: management and the poller ignore each other.
RefusedOnForgettingPoller ==
  [management |-> {"management"}, screening |-> {"screening"},
   pnlPoll |-> {"screening", "pnlPoll"},
   opportunityPoll |-> {"screening", "management", "pnlPoll", "opportunityPoll"},
   sweeper |-> {"sweeper", "management"}]

(* acquireLock: the flags each lock is refused on. *)
RefusedOn ==
  [management      |-> {"management", "pnlPoll"},
   screening       |-> {"screening"},
   pnlPoll         |-> {"management", "screening", "pnlPoll"},
   opportunityPoll |-> {"screening", "management", "pnlPoll", "opportunityPoll"},
   sweeper         |-> {"sweeper", "management"}]

\* Mutant: shuttingDown is not tested.
CanAcquireClosing(l) == \A b \in RefusedOn[l] : ~flag[b]

CanAcquire(l) == ~shuttingDown /\ \A b \in RefusedOn[l] : ~flag[b]

(* A cycle enters: it takes lock l and runs to its first await, p. *)
Enter(r, l, p) ==
  /\ at[r] = "idle"
  /\ CanAcquire(l)
  /\ flag' = [flag EXCEPT ![l] = TRUE]
  /\ at' = [at EXCEPT ![r] = p]
  /\ UNCHANGED wasManagementBusy

\* Mutant: a cycle without a finally.
LeaveLocked(r) == at' = [at EXCEPT ![r] = "idle"] /\ UNCHANGED <<flag, wasManagementBusy>>

(* A cycle ends, normally or by an exception: its finally releases the lock. *)
Leave(r) ==
  /\ flag' = [flag EXCEPT ![LockAt[at[r]]] = FALSE]
  /\ at' = [at EXCEPT ![r] = "idle"]
  /\ UNCHANGED wasManagementBusy

Goto(r, p) == at' = [at EXCEPT ![r] = p] /\ UNCHANGED <<flag, wasManagementBusy>>

-----------------------------------------------------------------------------
\* Mutant: the starvation test is missing.
CallScreeningStarved(r, silent) ==
  LET released == [flag EXCEPT ![LockAt[at[r]]] = FALSE] IN
  /\ CanAcquire("screening")
  /\ flag' = [released EXCEPT !["screening"] = TRUE]
  /\ at' = [at EXCEPT ![r] = "scrFetch"]
  /\ cooling' = TRUE
  /\ UNCHANGED <<wasManagementBusy, starved, cronVars, phase>>

(* runScreeningCycle, called synchronously by a cycle that then ends: the  *)
(* lock first, then the starvation test of a silent call, which returns    *)
(* before the try whose finally releases the lock.                         *)
CallScreening(r, silent) ==
  LET released == [flag EXCEPT ![LockAt[at[r]]] = FALSE] IN
  /\ \/ /\ ~CanAcquire("screening")
        /\ flag' = released
        /\ at' = [at EXCEPT ![r] = "idle"]
        /\ UNCHANGED cooling
     \/ /\ CanAcquire("screening") /\ silent /\ starved
        /\ flag' = [released EXCEPT !["screening"] = TRUE]
        /\ at' = [at EXCEPT ![r] = "idle"]
        /\ UNCHANGED cooling
     \/ /\ CanAcquire("screening") /\ ~(silent /\ starved)
        /\ flag' = [released EXCEPT !["screening"] = TRUE]
        /\ at' = [at EXCEPT ![r] = "scrFetch"]
        /\ cooling' = TRUE
  /\ UNCHANGED <<wasManagementBusy, starved, cronVars, phase>>

StartScreening(r) ==
  /\ Enter(r, "screening", "scrFetch")
  /\ cooling' = TRUE
  /\ UNCHANGED <<starved, cronVars, phase>>

(* The cron task, and the IPC action "screen" (allowed while paused). *)
ScreeningTick(r) == timersOn /\ StartScreening(r)
Screen(r) == StartScreening(r)

(* getMyPositions answers: unknown state or position cap reached aborts. *)
ScreeningFetched(r) ==
  /\ at[r] = "scrFetch"
  /\ Leave(r) \/ Goto(r, "scrBalance")
  /\ UNCHANGED <<screenVars, cronVars, phase>>

\* Mutant: an exception of the balance read skips the release.
ScreeningBalanceThrows(r) ==
  /\ at[r] = "scrBalance"
  /\ \/ Goto(r, "scrLook") /\ starved' = FALSE
     \/ Goto(r, "scrSweep") /\ UNCHANGED starved
     \/ Leave(r) /\ starved' = TRUE
     \/ LeaveLocked(r) /\ UNCHANGED starved
  /\ UNCHANGED <<cooling, cronVars, phase>>

(* handleScreeningStarvation, with which a cycle ends. *)
Starve(r) == Leave(r) /\ starved' = TRUE

(* getWalletBalances answers: enough SOL, too little with something to     *)
(* sweep, too little with nothing to sweep; or it throws.                  *)
ScreeningBalance(r) ==
  /\ at[r] = "scrBalance"
  /\ \/ Goto(r, "scrLook") /\ starved' = FALSE
     \/ Goto(r, "scrSweep") /\ UNCHANGED starved
     \/ Starve(r)
     \/ Leave(r) /\ UNCHANGED starved
  /\ UNCHANGED <<cooling, cronVars, phase>>

(* swap_all_tokens_to_sol and the second balance read, or their failure. *)
ScreeningSwept(r) ==
  /\ at[r] = "scrSweep"
  /\ \/ Goto(r, "scrLook") /\ starved' = FALSE
     \/ Starve(r)
  /\ UNCHANGED <<cooling, cronVars, phase>>

(* Entries of followed wallets end the cycle; else the candidates and what *)
(* is known of their tokens were read: none, or a single one not worth it, *)
(* ends the cycle too, and so does an exception.                           *)
ScreeningLooked(r) ==
  /\ at[r] = "scrLook"
  /\ Leave(r) \/ Goto(r, "scrBins")
  /\ UNCHANGED <<screenVars, cronVars, phase>>

(* The active bins were read, each or not; the candidates are described. *)
ScreeningPrepared(r) ==
  /\ at[r] = "scrBins"
  /\ Leave(r) \/ Goto(r, "scrDecide")
  /\ UNCHANGED <<screenVars, cronVars, phase>>

(* The model has deployed, or not, or fails. *)
ScreeningDecided(r) ==
  /\ at[r] = "scrDecide"
  /\ Leave(r)
  /\ UNCHANGED <<screenVars, cronVars, phase>>

-----------------------------------------------------------------------------
ManagementTick(r) ==
  /\ timersOn
  /\ Enter(r, "management", "mgmtFetch")
  /\ UNCHANGED <<screenVars, cronVars, phase>>

(* Position state unknown, an exception, or flat within the cooldown. *)
ManagementSkips(r) ==
  /\ at[r] = "mgmtFetch"
  /\ Leave(r)
  /\ UNCHANGED <<screenVars, cronVars, phase>>

(* No open position: trigger a screening cycle unless one ran recently. *)
ManagementFlat(r) ==
  /\ at[r] = "mgmtFetch"
  /\ ~cooling
  /\ LET released == [flag EXCEPT !["management"] = FALSE] IN
     /\ flag' = IF CanAcquire("screening")
                THEN [released EXCEPT !["screening"] = TRUE] ELSE released
     /\ at' = [at EXCEPT ![r] = IF CanAcquire("screening") THEN "scrFetch" ELSE "idle"]
  /\ cooling' = TRUE
  /\ UNCHANGED <<wasManagementBusy, starved, cronVars, phase>>

(* Some position needs an action: close, claim or instruction. *)
ManagementActs(r) ==
  /\ at[r] = "mgmtFetch"
  /\ Goto(r, "mgmtAct")
  /\ UNCHANGED <<screenVars, cronVars, phase>>

(* All actions done (or none needed); a free slot triggers screening. *)
ManagementDone(r) ==
  /\ at[r] \in {"mgmtFetch", "mgmtAct"}
  /\ \/ Leave(r) /\ UNCHANGED <<screenVars, cronVars, phase>>
     \/ ~cooling /\ CallScreening(r, FALSE)

(* The hourly health check borrows the management lock. *)
HealthTick(r) ==
  /\ timersOn
  /\ Enter(r, "management", "health")
  /\ UNCHANGED <<screenVars, cronVars, phase>>

HealthDone(r) ==
  /\ at[r] = "health"
  /\ Leave(r)
  /\ UNCHANGED <<screenVars, cronVars, phase>>

-----------------------------------------------------------------------------
PnlPollTick(r) ==
  /\ timersOn
  /\ Enter(r, "pnlPoll", "pnlFetch")
  /\ UNCHANGED <<screenVars, cronVars, phase>>

(* Positions unknown or none fires: the tick ends.  A confirmed signal: the *)
(* poller also raises managementBusy and closes the position itself.       *)
PnlPollFetched(r) ==
  /\ at[r] = "pnlFetch"
  /\ \/ Leave(r)
     \/ /\ wasManagementBusy' = [wasManagementBusy EXCEPT ![r] = flag["management"]]
        /\ flag' = [flag EXCEPT !["management"] = TRUE]
        /\ at' = [at EXCEPT ![r] = "pnlClose"]
  /\ UNCHANGED <<screenVars, cronVars, phase>>

\* Mutant: managementBusy is not restored.
PnlPollClosedUnrestored(r) ==
  /\ at[r] = "pnlClose"
  /\ flag' = [flag EXCEPT !["pnlPoll"] = FALSE]
  /\ at' = [at EXCEPT ![r] = "idle"]
  /\ wasManagementBusy' = [wasManagementBusy EXCEPT ![r] = FALSE]
  /\ UNCHANGED <<screenVars, cronVars, phase>>

PnlPollClosed(r) ==
  /\ at[r] = "pnlClose"
  /\ flag' = [flag EXCEPT !["management"] = wasManagementBusy[r], !["pnlPoll"] = FALSE]
  /\ at' = [at EXCEPT ![r] = "idle"]
  /\ wasManagementBusy' = [wasManagementBusy EXCEPT ![r] = FALSE]
  /\ UNCHANGED <<screenVars, cronVars, phase>>

(* A tick under either cooldown takes and drops the lock in one step. *)
OpportunityTick(r) ==
  /\ timersOn /\ OpportunityPolling
  /\ ~cooling /\ ~starved
  /\ Enter(r, "opportunityPoll", "oppLook")
  /\ UNCHANGED <<screenVars, cronVars, phase>>

(* Positions, candidates and balance were read across several awaits. *)
OpportunityLooked(r) ==
  /\ at[r] = "oppLook"
  /\ \/ Leave(r) /\ UNCHANGED <<screenVars, cronVars, phase>>
     \/ CallScreening(r, TRUE)

SweeperTick(r) ==
  /\ timersOn
  /\ Enter(r, "sweeper", "sweep")
  /\ UNCHANGED <<screenVars, cronVars, phase>>

SweeperDone(r) ==
  /\ at[r] = "sweep"
  /\ Leave(r)
  /\ UNCHANGED <<screenVars, cronVars, phase>>

-----------------------------------------------------------------------------
CooldownExpires == cooling /\ cooling' = FALSE /\ UNCHANGED <<cycleVars, starved, cronVars, phase>>
StarvationExpires == starved /\ starved' = FALSE /\ UNCHANGED <<cycleVars, cooling, cronVars, phase>>

\* Mutant: pausing clears the configured schedule.
PauseForgetsSchedule ==
  /\ phase # "exited"
  /\ installed' = NoTimers /\ interval' = NoTimers /\ cronStarted' = FALSE
  /\ UNCHANGED <<cycleVars, screenVars, phase>>

Pause ==
  /\ phase # "exited"
  /\ installed' = NoTimers /\ cronStarted' = FALSE
  /\ UNCHANGED <<cycleVars, screenVars, interval, phase>>

Resume ==
  /\ phase # "exited" /\ ~cronStarted
  /\ cronStarted' = TRUE /\ installed' = interval
  /\ UNCHANGED <<cycleVars, screenVars, interval, phase>>

\* Mutant: the cron restarter is not called.
UpdateScheduleOnly(i) ==
  /\ phase # "exited" /\ i # interval
  /\ interval' = i
  /\ UNCHANGED <<cycleVars, screenVars, installed, cronStarted, phase>>

(* update_config with a new interval, and the cron restarter it calls. *)
UpdateSchedule(i) ==
  /\ phase # "exited" /\ i # interval
  /\ interval' = i
  /\ installed' = IF cronStarted THEN i ELSE installed
  /\ UNCHANGED <<cycleVars, screenVars, cronStarted, phase>>

(* shutdown: single flight; servers are stopped, then the timers, then a   *)
(* bounded position snapshot, then process.exit.                           *)
Stop == phase = "up" /\ phase' = "closing" /\ UNCHANGED <<cycleVars, screenVars, cronVars>>

ServersStopped ==
  /\ phase = "closing" /\ phase' = "snapshot"
  /\ installed' = NoTimers
  /\ UNCHANGED <<cycleVars, screenVars, interval, cronStarted>>

Exit == phase = "snapshot" /\ phase' = "exited" /\ UNCHANGED <<cycleVars, screenVars, cronVars>>

-----------------------------------------------------------------------------
(* start(): headless installs the timers itself and runs a first screening *)
(* cycle; with a REPL launchCron does, and marks them started.             *)
Init ==
  /\ \E r \in Runs :
       IF Tty
       THEN at = [s \in Runs |-> "idle"] /\ flag = [l \in Locks |-> FALSE]
       ELSE /\ at = [s \in Runs |-> IF s = r THEN "scrFetch" ELSE "idle"]
            /\ flag = [l \in Locks |-> l = "screening"]
  /\ wasManagementBusy = [r \in Runs |-> FALSE]
  /\ cooling = ~Tty /\ starved = FALSE
  /\ interval \in Intervals /\ installed = interval
  /\ cronStarted = Tty
  /\ phase = "up"

Tick(r) == \/ ManagementTick(r) \/ HealthTick(r) \/ PnlPollTick(r)
           \/ OpportunityTick(r) \/ SweeperTick(r) \/ ScreeningTick(r)

(* An awaited call of invocation r settles. *)
Settle(r) ==
  /\ phase # "exited"
  /\ \/ ManagementSkips(r) \/ ManagementFlat(r) \/ ManagementActs(r) \/ ManagementDone(r)
     \/ HealthDone(r)
     \/ PnlPollFetched(r) \/ PnlPollClosed(r)
     \/ OpportunityLooked(r) \/ SweeperDone(r)
     \/ ScreeningFetched(r) \/ ScreeningBalance(r) \/ ScreeningSwept(r)
     \/ ScreeningLooked(r) \/ ScreeningPrepared(r) \/ ScreeningDecided(r)

Time == phase # "exited" /\ (CooldownExpires \/ StarvationExpires)

Operator == \/ \E r \in Runs : Screen(r)
            \/ Pause \/ Resume \/ Stop
            \/ \E i \in Intervals : UpdateSchedule(i)

Next == \/ \E r \in Runs : Tick(r) \/ Settle(r)
        \/ Time \/ Operator \/ ServersStopped \/ Exit

(* Every awaited call settles, time passes, a timer that stays due fires,  *)
(* and a shutdown proceeds.  Operators owe nothing.                        *)
Fairness ==
  /\ \A r \in Runs : WF_vars(Settle(r))
  /\ WF_vars(CooldownExpires /\ phase # "exited")
  /\ WF_vars(StarvationExpires /\ phase # "exited")
  /\ WF_vars(\E r \in Runs : ScreeningTick(r))
  /\ WF_vars(ServersStopped) /\ WF_vars(Exit)

Spec == Init /\ [][Next]_vars
FairSpec == Spec /\ Fairness

-----------------------------------------------------------------------------
TypeOK ==
  /\ flag \in [Locks -> BOOLEAN]
  /\ at \in [Runs -> Points]
  /\ wasManagementBusy \in [Runs -> BOOLEAN]
  /\ cooling \in BOOLEAN /\ starved \in BOOLEAN
  /\ interval \in Intervals /\ installed \in Intervals \cup {NoTimers}
  /\ cronStarted \in BOOLEAN
  /\ phase \in {"up", "closing", "snapshot", "exited"}

Active(r) == at[r] # "idle"

(* While an invocation is between two awaits of a guarded section, the     *)
(* flag of its lock is up: no path clears a flag under a running cycle.    *)
RunningCyclesHoldTheirFlag ==
  \A r \in Runs :
    /\ Active(r) => flag[LockAt[at[r]]]
    /\ at[r] = "pnlClose" => flag["management"]

(* Two invocations are never inside the section of the same lock, and the  *)
(* PnL poller never overlaps a management cycle or a health check: a       *)
(* position is not closed by both.                                         *)
CyclesDoNotOverlap ==
  \A r, s \in Runs :
    r # s /\ Active(r) /\ Active(s) =>
      /\ LockAt[at[r]] # LockAt[at[s]]
      /\ ~(LockAt[at[r]] = "management" /\ LockAt[at[s]] = "pnlPoll")

(* The poller saves and restores managementBusy around its own close; what *)
(* it saved is never TRUE, so restoring cannot leave the lock up forever.  *)
PollerRestoresFreeLock ==
  \A r \in Runs :
    /\ at[r] = "pnlFetch" => ~flag["management"]
    /\ wasManagementBusy[r] = FALSE

(* A flag that is up has an invocation that will lower it: the skipped     *)
(* ticks really are skipped for a cycle in progress.                       *)
BusyMeansRunning ==
  \A l \in Locks :
    flag[l] => \E r \in Runs : \/ Active(r) /\ LockAt[at[r]] = l
                               \/ l = "management" /\ at[r] = "pnlClose"

(* The running timers follow the configured schedule. *)
TimersFollowConfig == phase = "up" => installed \in {interval, NoTimers}

(* The opportunity poller's stale look never turns into a screening cycle  *)
(* during a capital-starvation cooldown.                                   *)
NoPolledScreeningWhileStarved ==
  [][\A r \in Runs : at[r] = "oppLook" /\ at'[r] = "scrFetch" => ~starved]_vars

(* The implementation of the promise. *)
Promise == INSTANCE SingleFlight
             WITH doing <- [r \in Runs |-> IF at[r] = "idle" THEN "idle" ELSE LockAt[at[r]]],
                  closed <- shuttingDown

SingleFlightPromise == Promise!Spec

(* Every lock that is taken is released, unless the process exits first. *)
EveryLockReleased ==
  \A l \in Locks : flag[l] ~> (~flag[l] \/ phase = "exited")

(* As long as the agent stays up and unpaused, screening keeps running. *)
ScreeningKeepsRunning ==
  <>[](phase = "up" /\ installed # NoTimers) => []<>(\E r \in Runs : at[r] = "scrFetch")

(* No cycle gets stuck: locks come free and screening goes on. *)
CyclesGoOn == EveryLockReleased /\ ScreeningKeepsRunning
=============================================================================
