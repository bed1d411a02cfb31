------------------------------ MODULE LockProofs ------------------------------
(***************************************************************************)
(* Proofs about the locks: the flags of the daemon's cycles (DaemonCycles) *)
(* and the mutexes within a process (AsyncMutex).                          *)
(***************************************************************************)
EXTENDS DaemonCycles, AsyncMutex, TLAPS

-----------------------------------------------------------------------------
(***************************************************************************)
(* Proofs about DaemonCycles, for every set of invocations, schedule and   *)
(* mode.  The invariants of the runs are not inductive one by one: a start *)
(* is refused by flags, an overlap is between invocations, so the argument *)
(* needs "a running cycle holds its flag" (to turn a lowered flag into the *)
(* absence of a cycle), "no overlap" (so that a release lowers a flag no   *)
(* other invocation relies on) and "the poller saw a free management lock" *)
(* (so that its restore is a release).  Inv is their conjunction.          *)
(***************************************************************************)

Inv == /\ TypeOK
       /\ RunningCyclesHoldTheirFlag
       /\ CyclesDoNotOverlap
       /\ PollerRestoresFreeLock

(* The parts of a state the invariant speaks of. *)
LEMMA InvDependsOn ==
  ASSUME Inv, UNCHANGED cycleVars, TypeOK'
  PROVE  Inv'
BY DEF Inv, cycleVars, RunningCyclesHoldTheirFlag, CyclesDoNotOverlap,
       PollerRestoresFreeLock, Active

(* Lock points are typed. *)
LEMMA LockAtType == /\ \A p \in Points : p # "idle" => LockAt[p] \in Locks
                    /\ Points = {"mgmtFetch", "mgmtAct", "health", "pnlFetch", "pnlClose",
                                 "oppLook", "sweep", "scrFetch", "scrBalance", "scrSweep",
                                 "scrLook", "scrBins", "scrDecide", "idle"}
BY DEF Points, LockAt, Locks

CycleTypes == /\ flag \in [Locks -> BOOLEAN]
              /\ at \in [Runs -> Points]
              /\ wasManagementBusy \in [Runs -> BOOLEAN]

OtherTypes == /\ cooling \in BOOLEAN /\ starved \in BOOLEAN
              /\ interval \in Intervals /\ installed \in Intervals \cup {NoTimers}
              /\ cronStarted \in BOOLEAN
              /\ phase \in {"up", "closing", "snapshot", "exited"}

LEMMA TypeParts == TypeOK <=> CycleTypes /\ OtherTypes
BY DEF TypeOK, CycleTypes, OtherTypes

LEMMA EnterType ==
  ASSUME CycleTypes, NEW r \in Runs, NEW l \in Locks, NEW p \in Points, Enter(r, l, p)
  PROVE  CycleTypes'
BY DEF CycleTypes, Enter

LEMMA LeaveType ==
  ASSUME CycleTypes, NEW r \in Runs, at[r] # "idle", Leave(r) PROVE CycleTypes'
BY LockAtType DEF CycleTypes, Leave

LEMMA GotoType ==
  ASSUME CycleTypes, NEW r \in Runs, NEW p \in Points, Goto(r, p) PROVE CycleTypes'
BY DEF CycleTypes, Goto

LEMMA CallScreeningType ==
  ASSUME CycleTypes, OtherTypes, NEW r \in Runs, NEW silent \in BOOLEAN, at[r] # "idle",
         CallScreening(r, silent)
  PROVE  CycleTypes' /\ OtherTypes'
<1>1. CycleTypes'
  <2> DEFINE released == [flag EXCEPT ![LockAt[at[r]]] = FALSE]
  <2>1. released \in [Locks -> BOOLEAN] BY DEF CycleTypes
  <2>2. flag' \in {released, [released EXCEPT !["screening"] = TRUE]} BY DEF CallScreening
  <2>3. flag' \in [Locks -> BOOLEAN] BY <2>1, <2>2
  <2>4. at' \in [Runs -> Points] BY LockAtType DEF CycleTypes, CallScreening
  <2> QED BY <2>3, <2>4 DEF CycleTypes, CallScreening
<1>2. OtherTypes'
  BY DEF OtherTypes, CallScreening, cronVars
<1> QED BY <1>1, <1>2

(* Every step keeps the variables in their domains. *)
LEMMA TypeStep == ASSUME TypeOK, [Next]_vars PROVE TypeOK'
<1> CycleTypes /\ OtherTypes BY TypeParts
<1> SUFFICES CycleTypes' /\ OtherTypes' BY DEF TypeOK, CycleTypes, OtherTypes
<1> USE DEF screenVars, cronVars
<1>1. ASSUME NEW r \in Runs, Tick(r) PROVE CycleTypes' /\ OtherTypes'
  <2>1. \E l \in Locks, p \in Points : Enter(r, l, p)
    BY <1>1, LockAtType DEF Tick, ManagementTick, HealthTick, PnlPollTick, OpportunityTick,
       SweeperTick, ScreeningTick, StartScreening, Locks
  <2>2. OtherTypes'
    BY <1>1 DEF OtherTypes, Tick, ManagementTick, HealthTick, PnlPollTick, OpportunityTick,
       SweeperTick, ScreeningTick, StartScreening
  <2> QED BY <2>1, <2>2, EnterType
<1>2. ASSUME NEW r \in Runs, Settle(r) PROVE CycleTypes' /\ OtherTypes'
  <2>1. CASE at[r] # "idle" /\ (Leave(r) \/ \E p \in Points : Goto(r, p)) /\ UNCHANGED <<cronVars, phase>>
             /\ cooling' = cooling /\ starved' \in {TRUE, FALSE, starved}
    BY <2>1, LeaveType, GotoType DEF OtherTypes
  <2>2. CASE ManagementFlat(r)
    BY <2>2, LockAtType DEF ManagementFlat, CycleTypes, OtherTypes, Locks
  <2>3. CASE at[r] # "idle" /\ \E silent \in BOOLEAN : CallScreening(r, silent)
    BY <2>3, CallScreeningType
  <2>4. CASE PnlPollFetched(r) /\ ~Leave(r)
    <3>1. flag["management"] \in BOOLEAN BY DEF CycleTypes, Locks
    <3>2. flag' \in [Locks -> BOOLEAN] BY <2>4 DEF PnlPollFetched, Locks, CycleTypes
    <3>3. wasManagementBusy' \in [Runs -> BOOLEAN] BY <2>4, <3>1 DEF PnlPollFetched, CycleTypes
    <3>4. at' \in [Runs -> Points] BY <2>4, LockAtType DEF PnlPollFetched, CycleTypes
    <3> QED BY <2>4, <3>2, <3>3, <3>4 DEF PnlPollFetched, CycleTypes, OtherTypes
  <2>5. CASE PnlPollClosed(r)
    BY <2>5, LockAtType DEF PnlPollClosed, CycleTypes, OtherTypes, Locks
  <2>6. CASE at[r] # "idle" /\ Leave(r) /\ UNCHANGED <<screenVars, cronVars, phase>>
    BY <2>6, <2>1
  <2>7. \/ at[r] # "idle" /\ (Leave(r) \/ \E p \in Points : Goto(r, p)) /\ UNCHANGED <<cronVars, phase>>
             /\ cooling' = cooling /\ starved' \in {TRUE, FALSE, starved}
        \/ ManagementFlat(r)
        \/ at[r] # "idle" /\ \E silent \in BOOLEAN : CallScreening(r, silent)
        \/ PnlPollFetched(r) /\ ~Leave(r)
        \/ PnlPollClosed(r)
    BY <1>2, LockAtType
       DEF Settle, ManagementSkips, ManagementActs, ManagementDone, HealthDone, PnlPollFetched,
           OpportunityLooked, SweeperDone, ScreeningFetched, ScreeningBalance, ScreeningSwept,
           Starve, ScreeningLooked, ScreeningPrepared, ScreeningDecided
  <2> QED BY <2>1, <2>2, <2>3, <2>4, <2>5, <2>7
<1>3. CASE Time \/ ServersStopped \/ Exit
  BY <1>3 DEF Time, CooldownExpires, StarvationExpires, ServersStopped, Exit, cycleVars,
              CycleTypes, OtherTypes
<1>4. CASE Operator
  <2>1. ASSUME NEW r \in Runs, Screen(r) PROVE CycleTypes' /\ OtherTypes'
    BY <2>1, EnterType, LockAtType DEF Screen, StartScreening, Locks, OtherTypes
  <2>2. CASE Pause \/ Resume \/ Stop
    BY <2>2 DEF Pause, Resume, Stop, cycleVars, CycleTypes, OtherTypes
  <2>3. CASE \E i \in Intervals : UpdateSchedule(i)
    BY <2>3 DEF UpdateSchedule, cycleVars, CycleTypes, OtherTypes
  <2> QED BY <1>4, <2>1, <2>2, <2>3 DEF Operator
<1>5. CASE UNCHANGED vars
  BY <1>5 DEF vars, cycleVars, CycleTypes, OtherTypes
<1> QED BY <1>1, <1>2, <1>3, <1>4, <1>5 DEF Next

LEMMA TypeInit == Init => TypeOK
BY LockAtType, ConfigAssumption DEF Init, TypeOK, Locks, Points

(* The variables of the daemon's scheduler stay in their domains. *)
THEOREM TypeCorrect == Spec => []TypeOK
BY TypeInit, TypeStep, PTL DEF Spec

(* Taking a free lock preserves the invariant. *)
LEMMA EnterInv ==
  ASSUME Inv, NEW r \in Runs, NEW l \in Locks, NEW p \in Points \ {"idle", "pnlClose"},
         LockAt[p] = l, Enter(r, l, p), TypeOK'
  PROVE  Inv'
<1> USE LockAtType DEF Inv
<1>1. RunningCyclesHoldTheirFlag'
  BY DEF TypeOK, RunningCyclesHoldTheirFlag, Active, Enter, Locks
<1>2. CyclesDoNotOverlap'
  BY DEF TypeOK, RunningCyclesHoldTheirFlag, CyclesDoNotOverlap, Active, Enter, CanAcquire,
         RefusedOn, Locks
<1>3. PollerRestoresFreeLock'
  BY DEF TypeOK, RunningCyclesHoldTheirFlag, PollerRestoresFreeLock, Active, Enter, CanAcquire,
         RefusedOn, Locks, LockAt
<1> QED BY <1>1, <1>2, <1>3

(* Giving a lock back preserves the invariant. *)
LEMMA LeaveInv ==
  ASSUME Inv, NEW r \in Runs, at[r] \notin {"idle", "pnlClose"}, Leave(r), TypeOK'
  PROVE  Inv'
<1> USE LockAtType DEF Inv
<1>1. RunningCyclesHoldTheirFlag'
  BY DEF TypeOK, RunningCyclesHoldTheirFlag, CyclesDoNotOverlap, Active, Leave, LockAt
<1>2. CyclesDoNotOverlap'
  BY DEF TypeOK, CyclesDoNotOverlap, Active, Leave
<1>3. PollerRestoresFreeLock'
  BY DEF TypeOK, PollerRestoresFreeLock, Leave
<1> QED BY <1>1, <1>2, <1>3

(* Moving to another control point of the same lock preserves it. *)
LEMMA GotoInv ==
  ASSUME Inv, NEW r \in Runs, NEW p \in Points \ {"idle", "pnlClose", "pnlFetch"},
         at[r] # "idle", LockAt[p] = LockAt[at[r]], Goto(r, p), TypeOK'
  PROVE  Inv'
<1> USE LockAtType DEF Inv
<1>1. RunningCyclesHoldTheirFlag'
  BY DEF TypeOK, RunningCyclesHoldTheirFlag, Active, Goto
<1>2. CyclesDoNotOverlap'
  BY DEF TypeOK, CyclesDoNotOverlap, Active, Goto
<1>3. PollerRestoresFreeLock'
  BY DEF TypeOK, PollerRestoresFreeLock, Goto
<1> QED BY <1>1, <1>2, <1>3

(* Ending a cycle in favour of a screening cycle preserves it: the lock it *)
(* gives back is its own, the one it takes was free or is taken by nobody. *)
LEMMA CallScreeningInv ==
  ASSUME Inv, NEW r \in Runs, NEW silent \in BOOLEAN,
         at[r] \in {"mgmtFetch", "mgmtAct", "oppLook"}, CallScreening(r, silent), TypeOK'
  PROVE  Inv'
<1> USE LockAtType DEF Inv, CanAcquire, RefusedOn
<1>1. RunningCyclesHoldTheirFlag'
  BY DEF TypeOK, RunningCyclesHoldTheirFlag, CyclesDoNotOverlap, Active, CallScreening, LockAt, Locks
<1>2. CyclesDoNotOverlap'
  BY DEF TypeOK, RunningCyclesHoldTheirFlag, CyclesDoNotOverlap, Active, CallScreening, LockAt, Locks
<1>3. PollerRestoresFreeLock'
  BY DEF TypeOK, PollerRestoresFreeLock, CallScreening, LockAt, Locks
<1> QED BY <1>1, <1>2, <1>3

LEMMA ManagementFlatInv ==
  ASSUME Inv, NEW r \in Runs, ManagementFlat(r), TypeOK'
  PROVE  Inv'
<1> USE LockAtType DEF Inv, CanAcquire, RefusedOn
<1>1. RunningCyclesHoldTheirFlag'
  BY DEF TypeOK, RunningCyclesHoldTheirFlag, CyclesDoNotOverlap, Active, ManagementFlat, LockAt, Locks
<1>2. CyclesDoNotOverlap'
  BY DEF TypeOK, RunningCyclesHoldTheirFlag, CyclesDoNotOverlap, Active, ManagementFlat, LockAt, Locks
<1>3. PollerRestoresFreeLock'
  BY DEF TypeOK, PollerRestoresFreeLock, ManagementFlat, LockAt, Locks
<1> QED BY <1>1, <1>2, <1>3

(* The poller raises and restores managementBusy around its own close. *)
LEMMA PollerInv ==
  ASSUME Inv, NEW r \in Runs, PnlPollFetched(r) \/ PnlPollClosed(r), TypeOK'
  PROVE  Inv'
<1>1. CASE at[r] = "pnlFetch" /\ Leave(r)
  BY <1>1, LeaveInv
<1>2. CASE PnlPollFetched(r) /\ ~Leave(r)
  <2> USE <1>2, LockAtType DEF Inv, PnlPollFetched
  <2>1. RunningCyclesHoldTheirFlag'
    BY DEF TypeOK, RunningCyclesHoldTheirFlag, Active, LockAt, Locks
  <2>2. CyclesDoNotOverlap'
    BY DEF TypeOK, CyclesDoNotOverlap, Active, LockAt
  <2>3. PollerRestoresFreeLock'
    BY DEF TypeOK, CyclesDoNotOverlap, PollerRestoresFreeLock, Active, LockAt
  <2> QED BY <2>1, <2>2, <2>3
<1>3. CASE PnlPollClosed(r)
  <2> USE <1>3, LockAtType DEF Inv, PnlPollClosed
  <2>1. RunningCyclesHoldTheirFlag'
    BY DEF TypeOK, RunningCyclesHoldTheirFlag, CyclesDoNotOverlap, Active, LockAt, Locks
  <2>2. CyclesDoNotOverlap'
    BY DEF TypeOK, CyclesDoNotOverlap, Active, LockAt
  <2>3. PollerRestoresFreeLock'
    BY DEF TypeOK, CyclesDoNotOverlap, PollerRestoresFreeLock, Active, LockAt, Locks
  <2> QED BY <2>1, <2>2, <2>3
<1> QED BY <1>1, <1>2, <1>3 DEF PnlPollFetched

LEMMA InvInit == Init => Inv
<1> SUFFICES ASSUME Init PROVE Inv OBVIOUS
<1>1. PICK q \in Runs :
        IF Tty
        THEN at = [s \in Runs |-> "idle"] /\ flag = [l \in Locks |-> FALSE]
        ELSE /\ at = [s \in Runs |-> IF s = q THEN "scrFetch" ELSE "idle"]
             /\ flag = [l \in Locks |-> l = "screening"]
  BY DEF Init
<1>2. wasManagementBusy = [r \in Runs |-> FALSE] BY DEF Init
<1>3. RunningCyclesHoldTheirFlag
  <2>1. CASE Tty
    <3>1. \A s \in Runs : at[s] = "idle" BY <1>1, <2>1
    <3>2. \A s \in Runs : ~Active(s) /\ at[s] # "pnlClose" BY <3>1 DEF Active
    <3> QED BY <3>2, Zenon DEF RunningCyclesHoldTheirFlag
  <2>2. CASE ~Tty
    <3>1. \A s \in Runs : at[s] \in {"scrFetch", "idle"} BY <1>1, <2>2
    <3>2. flag["screening"] BY <1>1, <2>2, Zenon DEF Locks
    <3>3. LockAt["scrFetch"] = "screening" BY DEF LockAt
    <3> QED BY <3>1, <3>2, <3>3 DEF RunningCyclesHoldTheirFlag, Active
  <2> QED BY <2>1, <2>2
<1>4. CyclesDoNotOverlap BY <1>1 DEF CyclesDoNotOverlap, Active
<1>5. PollerRestoresFreeLock
  <2>1. \A r \in Runs : at[r] # "pnlFetch" BY <1>1
  <2> QED BY <1>2, <2>1 DEF PollerRestoresFreeLock
<1> QED BY TypeInit, <1>3, <1>4, <1>5 DEF Inv

LEMMA InvStep == ASSUME Inv, [Next]_vars PROVE Inv'
<1> TypeOK /\ TypeOK' BY TypeStep DEF Inv
<1> USE LockAtType
<1>1. ASSUME NEW r \in Runs, Tick(r) PROVE Inv'
  <2>1. CASE ManagementTick(r) BY <2>1, EnterInv DEF ManagementTick, LockAt, Locks
  <2>2. CASE HealthTick(r) BY <2>2, EnterInv DEF HealthTick, LockAt, Locks
  <2>3. CASE PnlPollTick(r) BY <2>3, EnterInv DEF PnlPollTick, LockAt, Locks
  <2>4. CASE OpportunityTick(r) BY <2>4, EnterInv DEF OpportunityTick, LockAt, Locks
  <2>5. CASE SweeperTick(r) BY <2>5, EnterInv DEF SweeperTick, LockAt, Locks
  <2>6. CASE ScreeningTick(r)
    BY <2>6, EnterInv DEF ScreeningTick, StartScreening, LockAt, Locks
  <2> QED BY <1>1, <2>1, <2>2, <2>3, <2>4, <2>5, <2>6 DEF Tick
<1>2. ASSUME NEW r \in Runs, Settle(r) PROVE Inv'
  <2>1. CASE at[r] \notin {"idle", "pnlClose"} /\ Leave(r) BY <2>1, LeaveInv
  <2>2. CASE at[r] = "mgmtFetch" /\ Goto(r, "mgmtAct") BY <2>2, GotoInv DEF LockAt
  <2>3. CASE at[r] = "scrFetch" /\ Goto(r, "scrBalance") BY <2>3, GotoInv DEF LockAt
  <2>4. CASE at[r] = "scrBalance" /\ Goto(r, "scrSweep") BY <2>4, GotoInv DEF LockAt
  <2>5. CASE at[r] \in {"scrBalance", "scrSweep"} /\ Goto(r, "scrLook")
    BY <2>5, GotoInv DEF LockAt
  <2>10. CASE \/ at[r] = "scrLook" /\ Goto(r, "scrBins")
              \/ at[r] = "scrBins" /\ Goto(r, "scrDecide")
    BY <2>10, GotoInv DEF LockAt
  <2>6. CASE ManagementFlat(r) BY <2>6, ManagementFlatInv
  <2>7. CASE at[r] \in {"mgmtFetch", "mgmtAct"} /\ CallScreening(r, FALSE)
    BY <2>7, CallScreeningInv
  <2>8. CASE at[r] = "oppLook" /\ CallScreening(r, TRUE) BY <2>8, CallScreeningInv
  <2>9. CASE PnlPollFetched(r) \/ PnlPollClosed(r) BY <2>9, PollerInv
  <2> QED
    BY <1>2, <2>1, <2>2, <2>3, <2>4, <2>5, <2>6, <2>7, <2>8, <2>9, <2>10
       DEF Settle, ManagementSkips, ManagementActs, ManagementDone, HealthDone, OpportunityLooked,
           SweeperDone, ScreeningFetched, ScreeningBalance, ScreeningSwept, Starve,
           ScreeningLooked, ScreeningPrepared, ScreeningDecided
<1>3. CASE Time \/ ServersStopped \/ Exit
  BY <1>3, InvDependsOn DEF Time, CooldownExpires, StarvationExpires, ServersStopped, Exit
<1>4. CASE Operator
  <2>1. ASSUME NEW r \in Runs, Screen(r) PROVE Inv'
    BY <2>1, EnterInv DEF Screen, StartScreening, LockAt, Locks
  <2> QED
    BY <1>4, <2>1, InvDependsOn DEF Operator, Pause, Resume, Stop, UpdateSchedule
<1>5. CASE UNCHANGED vars BY <1>5, InvDependsOn DEF vars
<1> QED BY <1>1, <1>2, <1>3, <1>4, <1>5 DEF Next

LEMMA InvAlways == Spec => []Inv
BY InvInit, InvStep, PTL DEF Spec

(* No path clears the flag of a lock under an invocation that runs in its  *)
(* section: flags may be trusted as "somebody is inside".                  *)
THEOREM FlagsCoverRunningCycles == Spec => []RunningCyclesHoldTheirFlag
BY InvAlways, PTL DEF Inv

(* However timers, triggers, operator screens, restarts of the timers and  *)
(* the shutdown interleave, guarded sections are single flight, and the    *)
(* poller's own close never overlaps a management cycle.                   *)
THEOREM NoOverlap == Spec => []CyclesDoNotOverlap
BY InvAlways, PTL DEF Inv

(* The PnL poller's restore of managementBusy is always a release. *)
THEOREM PollerRestore == Spec => []PollerRestoresFreeLock
BY InvAlways, PTL DEF Inv
-----------------------------------------------------------------------------
(* The cycles implement SingleFlight: forgetting the flags, what remains   *)
(* are invocations that start only when nothing they must not overlap is   *)
(* in progress.  A lowered flag is turned into that fact by Inv.           *)
doingNow == [r \in Runs |-> IF at[r] = "idle" THEN "idle" ELSE LockAt[at[r]]]

LEMMA CanAcquireMayStart ==
  ASSUME Inv, NEW l \in Locks, CanAcquire(l) PROVE Promise!MayStart(l)
<1>1. RefusedOn[l] = Promise!Blockers[l] /\ RefusedOn[l] \subseteq Locks
  BY DEF RefusedOn, Promise!Blockers, Locks
<1>2. ASSUME NEW s \in Runs PROVE doingNow[s] \notin RefusedOn[l]
  <2>1. CASE at[s] = "idle" BY <1>1, <2>1 DEF doingNow, Locks
  <2>2. CASE at[s] # "idle"
    <3>1. flag[LockAt[at[s]]] BY <2>2 DEF Inv, RunningCyclesHoldTheirFlag, Active
    <3> QED BY <2>2, <3>1 DEF doingNow, CanAcquire
  <2> QED BY <2>1, <2>2
<1>3. ~shuttingDown BY DEF CanAcquire
<1> QED BY <1>1, <1>2, <1>3 DEF Promise!MayStart, doingNow

LEMMA EnterRefines ==
  ASSUME Inv, NEW r \in Runs, NEW l \in Locks, NEW p \in Points \ {"idle"}, LockAt[p] = l,
         Enter(r, l, p), phase' = phase
  PROVE  Promise!Start(r, l)
<1>1. Promise!MayStart(l) BY CanAcquireMayStart DEF Enter
<1>2. doingNow[r] = "idle" BY DEF doingNow, Enter
<1>3. doingNow' = [doingNow EXCEPT ![r] = l] BY DEF doingNow, Enter, Inv, TypeOK
<1>4. shuttingDown' = shuttingDown BY DEF shuttingDown
<1> QED BY <1>1, <1>2, <1>3, <1>4 DEF Promise!Start, doingNow

LEMMA EndRefines ==
  ASSUME Inv, NEW r \in Runs, at[r] # "idle", at' = [at EXCEPT ![r] = "idle"], phase' = phase
  PROVE  Promise!End(r)
<1>1. doingNow[r] # "idle" BY LockAtType DEF doingNow, Inv, TypeOK, Locks
<1>2. doingNow' = [doingNow EXCEPT ![r] = "idle"] BY DEF doingNow, Inv, TypeOK
<1>3. shuttingDown' = shuttingDown BY DEF shuttingDown
<1> QED BY <1>1, <1>2, <1>3 DEF Promise!End, doingNow

LEMMA HandOverRefines ==
  ASSUME Inv, NEW r \in Runs, at[r] \in {"mgmtFetch", "mgmtAct", "oppLook"},
         at' = [at EXCEPT ![r] = "scrFetch"], CanAcquire("screening"), phase' = phase
  PROVE  Promise!HandOver(r)
<1>1. doingNow[r] \notin {"idle", "screening"} BY DEF doingNow, LockAt
<1>2. doingNow' = [doingNow EXCEPT ![r] = "screening"] BY DEF doingNow, LockAt, Inv, TypeOK
<1>3. shuttingDown' = shuttingDown BY DEF shuttingDown
<1>4. Promise!MayStart("screening") BY CanAcquireMayStart DEF Locks
<1> QED BY <1>1, <1>2, <1>3, <1>4 DEF Promise!HandOver, doingNow

LEMMA StutterRefines ==
  ASSUME Inv, NEW r \in Runs, NEW p \in Points, at[r] # "idle", p # "idle",
         LockAt[p] = LockAt[at[r]], at' = [at EXCEPT ![r] = p], phase' = phase
  PROVE  UNCHANGED Promise!vars
<1>1. doingNow' = doingNow BY DEF doingNow, Inv, TypeOK
<1>2. shuttingDown' = shuttingDown BY DEF shuttingDown
<1> QED BY <1>1, <1>2 DEF Promise!vars, doingNow

LEMMA StepRefines == ASSUME Inv, [Next]_vars PROVE [Promise!Next]_(Promise!vars)
<1> USE LockAtType
<1>1. ASSUME NEW r \in Runs, NEW l \in Locks, NEW p \in Points \ {"idle"}, LockAt[p] = l,
             Enter(r, l, p), phase' = phase
      PROVE  Promise!Next
  BY <1>1, EnterRefines DEF Promise!Next, Promise!Cycles, Locks
<1>2. ASSUME NEW r \in Runs, Tick(r) \/ Screen(r) PROVE Promise!Next
  <2>1. phase' = phase
    BY <1>2 DEF Tick, ManagementTick, HealthTick, PnlPollTick, OpportunityTick, SweeperTick,
                ScreeningTick, Screen, StartScreening
  <2>2. \/ Enter(r, "management", "mgmtFetch") \/ Enter(r, "management", "health")
        \/ Enter(r, "pnlPoll", "pnlFetch") \/ Enter(r, "opportunityPoll", "oppLook")
        \/ Enter(r, "sweeper", "sweep") \/ Enter(r, "screening", "scrFetch")
    BY <1>2 DEF Tick, ManagementTick, HealthTick, PnlPollTick, OpportunityTick, SweeperTick,
                ScreeningTick, Screen, StartScreening
  <2> QED BY <1>1, <2>1, <2>2 DEF LockAt, Locks
<1>3. ASSUME NEW r \in Runs, Settle(r) PROVE [Promise!Next]_(Promise!vars)
  <2>1. phase' = phase
    BY <1>3 DEF Settle, ManagementSkips, ManagementFlat, ManagementActs, ManagementDone,
         CallScreening, HealthDone, PnlPollFetched, PnlPollClosed, OpportunityLooked, SweeperDone,
         ScreeningFetched, ScreeningBalance, ScreeningSwept, Starve,
         ScreeningLooked, ScreeningPrepared, ScreeningDecided
  <2>2. CASE at[r] # "idle" /\ at' = [at EXCEPT ![r] = "idle"]
    BY <2>1, <2>2, EndRefines DEF Promise!Next
  <2>3. CASE /\ at[r] \in {"mgmtFetch", "mgmtAct", "oppLook"}
             /\ at' = [at EXCEPT ![r] = "scrFetch"] /\ CanAcquire("screening")
    BY <2>1, <2>3, HandOverRefines DEF Promise!Next
  <2>4. CASE at[r] # "idle" /\ \E p \in Points \ {"idle"} :
               LockAt[p] = LockAt[at[r]] /\ at' = [at EXCEPT ![r] = p]
    BY <2>1, <2>4, StutterRefines
  <2>5. \/ at[r] # "idle" /\ at' = [at EXCEPT ![r] = "idle"]
        \/ /\ at[r] \in {"mgmtFetch", "mgmtAct", "oppLook"}
           /\ at' = [at EXCEPT ![r] = "scrFetch"] /\ CanAcquire("screening")
        \/ at[r] # "idle" /\ \E p \in Points \ {"idle"} :
               LockAt[p] = LockAt[at[r]] /\ at' = [at EXCEPT ![r] = p]
    <3> USE DEF Leave, Goto
    <3>1. CASE ManagementSkips(r) \/ ManagementActs(r) \/ HealthDone(r) \/ SweeperDone(r)
      BY <3>1 DEF ManagementSkips, ManagementActs, HealthDone, SweeperDone, LockAt
    <3>2. CASE ManagementFlat(r) BY <3>2 DEF ManagementFlat
    <3>3. CASE ManagementDone(r) \/ OpportunityLooked(r)
      BY <3>3 DEF ManagementDone, OpportunityLooked, CallScreening
    <3>4. CASE PnlPollFetched(r) /\ ~Leave(r)
      <4>1. at[r] = "pnlFetch" /\ at' = [at EXCEPT ![r] = "pnlClose"]
        BY <3>4 DEF PnlPollFetched
      <4>2. LockAt["pnlClose"] = LockAt["pnlFetch"] /\ "pnlClose" \in Points \ {"idle"}
        BY DEF LockAt, Points
      <4> QED BY <4>1, <4>2
    <3>6. CASE (PnlPollFetched(r) /\ Leave(r)) \/ PnlPollClosed(r)
      BY <3>6 DEF PnlPollFetched, PnlPollClosed
    <3>5. CASE ScreeningFetched(r) \/ ScreeningBalance(r) \/ ScreeningSwept(r)
      BY <3>5 DEF ScreeningFetched, ScreeningBalance, ScreeningSwept, Starve, LockAt
    <3>7. CASE ScreeningLooked(r) \/ ScreeningPrepared(r) \/ ScreeningDecided(r)
      BY <3>7 DEF ScreeningLooked, ScreeningPrepared, ScreeningDecided, LockAt
    <3> QED BY <1>3, <3>1, <3>2, <3>3, <3>4, <3>5, <3>6, <3>7 DEF Settle
  <2> QED BY <2>2, <2>3, <2>4, <2>5
<1>4. CASE at' = at /\ phase' = phase
  BY <1>4 DEF Promise!vars, shuttingDown
<1>5. CASE Stop \/ ServersStopped \/ Exit
  <2>1. at' = at /\ shuttingDown'
    BY <1>5 DEF Stop, ServersStopped, Exit, cycleVars, shuttingDown
  <2> QED BY <2>1 DEF Promise!Next, Promise!Close
<1> QED
  BY <1>2, <1>3, <1>4, <1>5
     DEF Next, Operator, Time, CooldownExpires, StarvationExpires, Pause, Resume, UpdateSchedule,
         cycleVars, vars

LEMMA InitRefines == Init => Promise!Init
<1> SUFFICES ASSUME Init PROVE Promise!Init OBVIOUS
<1>1. PICK q \in Runs :
        \/ at = [s \in Runs |-> "idle"]
        \/ at = [s \in Runs |-> IF s = q THEN "scrFetch" ELSE "idle"]
  BY DEF Init
<1>2. shuttingDown = FALSE BY DEF Init, shuttingDown
<1>3. \A s \in Runs : /\ doingNow[s] \in {"idle", "screening"}
                      /\ doingNow[s] = "screening" => s = q
  <2>1. CASE at = [s \in Runs |-> "idle"] BY <2>1 DEF doingNow
  <2>2. CASE at = [s \in Runs |-> IF s = q THEN "scrFetch" ELSE "idle"]
    <3>1. LockAt["scrFetch"] = "screening" BY DEF LockAt
    <3> QED BY <2>2, <3>1 DEF doingNow
  <2> QED BY <1>1, <2>1, <2>2
<1>4. doingNow \in [Runs -> {"idle", "screening"}] BY <1>3 DEF doingNow
<1> QED BY <1>2, <1>3, <1>4 DEF Promise!Init, doingNow

(* The flags, the control flow of the cycles, their hand-overs and the     *)
(* shutdown implement the single-flight promise.                           *)
THEOREM CyclesImplementSingleFlight == Spec => SingleFlightPromise
<1>1. Init => Promise!Init BY InitRefines
<1>2. Inv /\ [Next]_vars => [Promise!Next]_(Promise!vars) BY StepRefines
<1> QED BY <1>1, <1>2, InvAlways, PTL DEF Spec, SingleFlightPromise, Promise!Spec

(* A poll that looked before a starvation cooldown began starts nothing    *)
(* during it.                                                              *)
THEOREM PolledScreeningHeedsStarvation == Spec => NoPolledScreeningWhileStarved
<1>1. TypeOK /\ [Next]_vars =>
        [\A r \in Runs : at[r] = "oppLook" /\ at'[r] = "scrFetch" => ~starved]_vars
  <2> SUFFICES ASSUME TypeOK, Next, NEW r \in Runs, at[r] = "oppLook", at'[r] = "scrFetch"
               PROVE  ~starved
    OBVIOUS
  <2>1. CASE \E s \in Runs : Tick(s) \/ Screen(s)
    BY <2>1 DEF Tick, ManagementTick, HealthTick, PnlPollTick, OpportunityTick, SweeperTick,
                ScreeningTick, Screen, StartScreening, Enter, TypeOK
  <2>2. ASSUME NEW s \in Runs, Settle(s), s # r PROVE FALSE
    BY <2>2 DEF Settle, ManagementSkips, ManagementFlat, ManagementActs, ManagementDone,
         CallScreening, HealthDone, PnlPollFetched, PnlPollClosed, OpportunityLooked, SweeperDone,
         ScreeningFetched, ScreeningBalance, ScreeningSwept, Starve,
         ScreeningLooked, ScreeningPrepared, ScreeningDecided, Leave, Goto, TypeOK
  <2>3. CASE Settle(r)
    <3>1. OpportunityLooked(r)
      BY <2>3 DEF Settle, ManagementSkips, ManagementFlat, ManagementActs, ManagementDone,
         HealthDone, PnlPollFetched, PnlPollClosed, SweeperDone,
         ScreeningFetched, ScreeningBalance, ScreeningSwept, Starve,
         ScreeningLooked, ScreeningPrepared, ScreeningDecided
    <3> QED BY <3>1 DEF OpportunityLooked, CallScreening, Leave, TypeOK
  <2>4. CASE UNCHANGED at BY <2>4
  <2> QED
    BY <2>1, <2>2, <2>3, <2>4
       DEF Next, Time, CooldownExpires, StarvationExpires, Operator, Pause, Resume, Stop,
           UpdateSchedule, ServersStopped, Exit, cycleVars
<1> QED BY <1>1, TypeCorrect, PTL DEF Spec, NoPolledScreeningWhileStarved


-----------------------------------------------------------------------------
(* The timers of a daemon with a REPL are those of the configuration,      *)
(* because there the note that they are started is right.                  *)
StartedIsInstalled ==
  phase = "up" => /\ cronStarted <=> installed # NoTimers
                  /\ cronStarted => installed = interval

LEMMA StartedStep == ASSUME TypeOK, StartedIsInstalled, [Next]_vars PROVE StartedIsInstalled'
<1> USE ConfigAssumption DEF StartedIsInstalled, cronVars
<1>1. CASE UNCHANGED <<cronVars, phase>> BY <1>1
<1>2. CASE Pause \/ Resume BY <1>2 DEF Pause, Resume, TypeOK
<1>3. ASSUME NEW i \in Intervals, UpdateSchedule(i) PROVE StartedIsInstalled'
  BY <1>3 DEF UpdateSchedule, TypeOK
<1>4. CASE Stop \/ ServersStopped \/ Exit BY <1>4 DEF Stop, ServersStopped, Exit
<1>5. ASSUME NEW r \in Runs, Tick(r) \/ Screen(r) PROVE UNCHANGED <<cronVars, phase>>
  BY <1>5 DEF Tick, ManagementTick, HealthTick, PnlPollTick, OpportunityTick, SweeperTick,
              ScreeningTick, Screen, StartScreening
<1>6. ASSUME NEW r \in Runs, Settle(r) PROVE UNCHANGED <<cronVars, phase>>
  BY <1>6 DEF Settle, ManagementSkips, ManagementFlat, ManagementActs, ManagementDone,
       CallScreening, HealthDone, PnlPollFetched, PnlPollClosed, OpportunityLooked, SweeperDone,
       ScreeningFetched, ScreeningBalance, ScreeningSwept,
       ScreeningLooked, ScreeningPrepared, ScreeningDecided
<1>7. CASE Time BY <1>1, <1>7 DEF Time, CooldownExpires, StarvationExpires
<1> QED BY <1>1, <1>2, <1>3, <1>4, <1>5, <1>6, <1>7 DEF Next, Operator, vars

(* With a REPL the running timers always follow the configured schedule,   *)
(* through pauses, resumes and changes in any order.                       *)
THEOREM TimersFollow == ASSUME Tty PROVE Spec => []TimersFollowConfig
<1>1. Init => StartedIsInstalled
  BY ConfigAssumption DEF Init, StartedIsInstalled
<1>2. TypeOK /\ StartedIsInstalled => TimersFollowConfig
  BY DEF TypeOK, StartedIsInstalled, TimersFollowConfig
<1>3. TypeOK /\ StartedIsInstalled /\ [Next]_vars => StartedIsInstalled' BY StartedStep
<1> QED BY <1>1, <1>2, <1>3, TypeCorrect, PTL DEF Spec

-----------------------------------------------------------------------------
(* Without the opportunity poller, nothing takes a lock and returns before *)
(* the try that gives it back.                                             *)
Holds(r, l) ==
  (Active(r) /\ LockAt[at[r]] = l) \/ (l = "management" /\ at[r] = "pnlClose")

Held == \A l \in Locks : flag[l] => \E r \in Runs : Holds(r, l)

NoPoll == \A r \in Runs : at[r] # "oppLook"

(* A step that moves one invocation: the others hold what they held.       *)
LEMMA HeldByOthers ==
  ASSUME TypeOK, Held, NEW r \in Runs, NEW p \in Points, at' = [at EXCEPT ![r] = p],
         \A l \in Locks : flag'[l] => Holds(r, l)' \/ (flag[l] /\ ~Holds(r, l))
  PROVE  Held'
<1> SUFFICES ASSUME NEW l \in Locks, flag'[l] PROVE \E s \in Runs : Holds(s, l)'
  BY DEF Held
<1>1. CASE Holds(r, l)' BY <1>1
<1>2. CASE flag[l] /\ ~Holds(r, l)
  <2>1. PICK s \in Runs : Holds(s, l) BY <1>2 DEF Held
  <2>2. at'[s] = at[s] BY <1>2, <2>1 DEF TypeOK
  <2> QED BY <2>1, <2>2 DEF Holds, Active
<1> QED BY <1>1, <1>2

LEMMA EnterHeld ==
  ASSUME TypeOK, Held, NoPoll, NEW r \in Runs, NEW l \in Locks,
         NEW p \in Points \ {"idle", "oppLook"}, LockAt[p] = l, Enter(r, l, p)
  PROVE  Held' /\ NoPoll'
<1>1. NoPoll' BY DEF NoPoll, Enter, TypeOK
<1>2. \A k \in Locks : flag'[k] => Holds(r, k)' \/ (flag[k] /\ ~Holds(r, k))
  BY DEF Enter, Holds, Active, TypeOK
<1> QED BY <1>1, <1>2, HeldByOthers DEF Enter

LEMMA LeaveHeld ==
  ASSUME TypeOK, Held, NoPoll, NEW r \in Runs, at[r] \notin {"idle", "pnlClose"}, Leave(r)
  PROVE  Held' /\ NoPoll'
<1>1. NoPoll' BY DEF NoPoll, Leave, TypeOK
<1>2. \A k \in Locks : flag'[k] => Holds(r, k)' \/ (flag[k] /\ ~Holds(r, k))
  BY LockAtType DEF Leave, Holds, Active, TypeOK
<1>3. "idle" \in Points BY DEF Points
<1> QED BY <1>1, <1>2, <1>3, HeldByOthers DEF Leave

LEMMA GotoHeld ==
  ASSUME TypeOK, Held, NoPoll, NEW r \in Runs, NEW p \in Points \ {"idle", "oppLook"},
         at[r] \notin {"idle", "pnlClose"}, LockAt[p] = LockAt[at[r]], Goto(r, p)
  PROVE  Held' /\ NoPoll'
<1>1. NoPoll' BY DEF NoPoll, Goto, TypeOK
<1>2. \A k \in Locks : flag'[k] => Holds(r, k)' \/ (flag[k] /\ ~Holds(r, k))
  BY DEF Goto, Holds, Active, TypeOK
<1> QED BY <1>1, <1>2, HeldByOthers DEF Goto

(* A management cycle hands over to a screening.                           *)
LEMMA HandOverHeld ==
  ASSUME TypeOK, Held, NoPoll, NEW r \in Runs,
         ManagementFlat(r) \/ (at[r] \in {"mgmtFetch", "mgmtAct"} /\ CallScreening(r, FALSE))
  PROVE  Held' /\ NoPoll'
<1> DEFINE released == [flag EXCEPT !["management"] = FALSE]
<1>1. at[r] \in {"mgmtFetch", "mgmtAct"} /\ LockAt[at[r]] = "management"
  <2>1. at[r] \in {"mgmtFetch", "mgmtAct"} BY DEF ManagementFlat
  <2> QED BY <2>1 DEF LockAt
<1>2. \/ flag' = released /\ at' = [at EXCEPT ![r] = "idle"]
      \/ flag' = [released EXCEPT !["screening"] = TRUE] /\ at' = [at EXCEPT ![r] = "scrFetch"]
  BY <1>1 DEF ManagementFlat, CallScreening
<1>3. "idle" \in Points /\ "scrFetch" \in Points /\ LockAt["scrFetch"] = "screening"
  BY LockAtType DEF LockAt
<1>4. NoPoll' BY <1>2 DEF NoPoll, TypeOK
<1>5. \A k \in Locks : flag'[k] => Holds(r, k)' \/ (flag[k] /\ ~Holds(r, k))
  BY <1>1, <1>2, <1>3 DEF Holds, Active, TypeOK, Locks
<1> QED BY <1>2, <1>3, <1>4, <1>5, HeldByOthers

LEMMA PollerHeld ==
  ASSUME Inv, Held, NoPoll, NEW r \in Runs,
         \/ PnlPollFetched(r) /\ ~Leave(r)
         \/ PnlPollClosed(r)
  PROVE  Held' /\ NoPoll'
<1> TypeOK BY DEF Inv
<1> USE LockAtType DEF LockAt
<1>1. CASE PnlPollFetched(r) /\ ~Leave(r)
  <2>1. NoPoll' BY <1>1 DEF NoPoll, PnlPollFetched, TypeOK
  <2>2. \A k \in Locks : flag'[k] => Holds(r, k)' \/ (flag[k] /\ ~Holds(r, k))
    BY <1>1 DEF PnlPollFetched, Holds, Active, TypeOK
  <2> QED BY <1>1, <2>1, <2>2, HeldByOthers DEF PnlPollFetched
<1>2. CASE PnlPollClosed(r)
  <2>1. NoPoll' BY <1>2 DEF NoPoll, PnlPollClosed, TypeOK
  <2>2. ~wasManagementBusy[r] BY DEF Inv, PollerRestoresFreeLock
  <2>3. \A k \in Locks : flag'[k] => Holds(r, k)' \/ (flag[k] /\ ~Holds(r, k))
    BY <1>2, <2>2 DEF PnlPollClosed, Holds, Active, TypeOK, Locks
  <2> QED BY <1>2, <2>1, <2>3, HeldByOthers DEF PnlPollClosed
<1> QED BY <1>1, <1>2

LEMMA HeldStep == ASSUME ~OpportunityPolling, Inv, Held, NoPoll, [Next]_vars PROVE Held' /\ NoPoll'
<1> TypeOK BY DEF Inv
<1> USE LockAtType
<1>1. ASSUME NEW r \in Runs, Tick(r) PROVE Held' /\ NoPoll'
  <2>1. CASE ManagementTick(r) BY <2>1, EnterHeld DEF ManagementTick, LockAt, Locks
  <2>2. CASE HealthTick(r) BY <2>2, EnterHeld DEF HealthTick, LockAt, Locks
  <2>3. CASE PnlPollTick(r) BY <2>3, EnterHeld DEF PnlPollTick, LockAt, Locks
  <2>4. CASE SweeperTick(r) BY <2>4, EnterHeld DEF SweeperTick, LockAt, Locks
  <2>5. CASE ScreeningTick(r)
    BY <2>5, EnterHeld DEF ScreeningTick, StartScreening, LockAt, Locks
  <2> QED BY <1>1, <2>1, <2>2, <2>3, <2>4, <2>5 DEF Tick, OpportunityTick
<1>2. ASSUME NEW r \in Runs, Settle(r) PROVE Held' /\ NoPoll'
  <2>1. CASE at[r] \notin {"idle", "pnlClose"} /\ Leave(r) BY <2>1, LeaveHeld
  <2>2. CASE at[r] = "mgmtFetch" /\ Goto(r, "mgmtAct") BY <2>2, GotoHeld DEF LockAt
  <2>3. CASE at[r] = "scrFetch" /\ Goto(r, "scrBalance") BY <2>3, GotoHeld DEF LockAt
  <2>4. CASE at[r] = "scrBalance" /\ Goto(r, "scrSweep") BY <2>4, GotoHeld DEF LockAt
  <2>5. CASE at[r] \in {"scrBalance", "scrSweep"} /\ Goto(r, "scrLook")
    BY <2>5, GotoHeld DEF LockAt
  <2>6. CASE \/ at[r] = "scrLook" /\ Goto(r, "scrBins")
             \/ at[r] = "scrBins" /\ Goto(r, "scrDecide")
    BY <2>6, GotoHeld DEF LockAt
  <2>7. CASE ManagementFlat(r) \/ (at[r] \in {"mgmtFetch", "mgmtAct"} /\ CallScreening(r, FALSE))
    BY <2>7, HandOverHeld
  <2>8. CASE (PnlPollFetched(r) /\ ~Leave(r)) \/ PnlPollClosed(r) BY <2>8, PollerHeld
  <2> QED
    BY <1>2, <2>1, <2>2, <2>3, <2>4, <2>5, <2>6, <2>7, <2>8
       DEF NoPoll, Settle, ManagementSkips, ManagementActs, ManagementDone, HealthDone,
           OpportunityLooked, SweeperDone, ScreeningFetched, ScreeningBalance, ScreeningSwept,
           Starve, ScreeningLooked, ScreeningPrepared, ScreeningDecided, PnlPollFetched
<1>3. ASSUME UNCHANGED cycleVars PROVE Held' /\ NoPoll'
  BY <1>3 DEF cycleVars, Held, NoPoll, Holds, Active
<1>4. ASSUME NEW r \in Runs, Screen(r) PROVE Held' /\ NoPoll'
  BY <1>4, EnterHeld DEF Screen, StartScreening, LockAt, Locks
<1> QED
  BY <1>1, <1>2, <1>3, <1>4
     DEF Next, Time, CooldownExpires, StarvationExpires, ServersStopped, Exit, Operator, Pause,
         Resume, Stop, UpdateSchedule, vars

LEMMA HeldInit == Init => Held /\ NoPoll
<1> SUFFICES ASSUME Init PROVE Held /\ NoPoll OBVIOUS
<1>1. PICK q \in Runs :
        IF Tty
        THEN at = [s \in Runs |-> "idle"] /\ flag = [l \in Locks |-> FALSE]
        ELSE /\ at = [s \in Runs |-> IF s = q THEN "scrFetch" ELSE "idle"]
             /\ flag = [l \in Locks |-> l = "screening"]
  BY DEF Init
<1>2. NoPoll BY <1>1 DEF NoPoll
<1>3. CASE Tty
  <2>1. \A l \in Locks : flag[l] = FALSE BY <1>1, <1>3
  <2> QED BY <1>2, <2>1 DEF Held
<1>4. CASE ~Tty
  <2>1. at[q] = "scrFetch" BY <1>1, <1>4
  <2>2. Holds(q, "screening") BY <2>1 DEF Holds, Active, LockAt
  <2>3. \A l \in Locks : flag[l] => l = "screening" BY <1>1, <1>4
  <2> QED BY <1>2, <2>2, <2>3 DEF Held
<1> QED BY <1>2, <1>3, <1>4

(* Without the opportunity poller, a flag that is up has an invocation     *)
(* that will lower it: no tick is skipped for a cycle that has ended.      *)
THEOREM NoFlagIsStuck == ASSUME ~OpportunityPolling PROVE Spec => []BusyMeansRunning
<1>1. Held => BusyMeansRunning BY DEF Held, Holds, BusyMeansRunning
<1>2. Inv /\ Held /\ NoPoll /\ [Next]_vars => Held' /\ NoPoll' BY HeldStep
<1> QED BY <1>1, <1>2, HeldInit, InvAlways, PTL DEF Spec

-----------------------------------------------------------------------------
(* Theorems about AsyncMutex, for every set of calls. *)

-----------------------------------------------------------------------------
(* The chain: tickets are distinct and at most `asked', the tail of the    *)
(* chain has the last ticket, and a call awaits the link of the call whose *)
(* ticket is one less than its own.                                        *)
Tickets ==
  /\ \A c \in Calls : Arrived(c) => ticket[c] \in 1..asked
  /\ \A c, d \in Calls : Arrived(c) /\ Arrived(d) /\ ticket[c] = ticket[d] => c = d

Tail == IF queue = NoCall THEN asked = 0
                          ELSE Arrived(queue) /\ ticket[queue] = asked

Links ==
  \A c \in Calls : Arrived(c) =>
    IF previous[c] = NoCall
    THEN ticket[c] = 1
    ELSE Arrived(previous[c]) /\ ticket[c] = ticket[previous[c]] + 1

(* Waiters are resolved by their own release only, and a settled link      *)
(* vouches for every earlier call: this is what makes awaiting one link    *)
(* enough.                                                                 *)
Waiters == \A c \in Calls : c \in waiter <=> pc[c] = "done"

SettledVouches ==
  \A c \in settled : /\ c \in waiter
                     /\ \A d \in Calls : Arrived(d) /\ ticket[d] <= ticket[c] => pc[d] = "done"

IInv == /\ MutexTypeOK /\ Tickets /\ Tail /\ Links /\ Waiters /\ SettledVouches
        /\ FirstComeFirstServed /\ LockedIffInside

-----------------------------------------------------------------------------
(* Whoever may be granted finds every earlier call done. *)
LEMMA GrantedAlone ==
  ASSUME IInv, NEW c \in Calls, Arrived(c), Resolved(previous[c]),
         NEW d \in Calls, Arrived(d), ticket[d] < ticket[c]
  PROVE  pc[d] = "done"
<1> USE NoCallAssumption
<1>1. ticket[c] \in Nat /\ ticket[d] \in 1..asked /\ asked \in Nat
  BY DEF IInv, MutexTypeOK, Tickets
<1>2. previous[c] # NoCall
  BY <1>1 DEF IInv, Links
<1>3. previous[c] \in settled /\ ticket[c] = ticket[previous[c]] + 1 /\ previous[c] \in Calls
  BY <1>2 DEF IInv, Links, Resolved, MutexTypeOK
<1>4. ticket[previous[c]] \in Nat BY <1>3 DEF IInv, MutexTypeOK
<1>5. ticket[d] <= ticket[previous[c]] BY <1>1, <1>3, <1>4
<1> QED BY <1>3, <1>5 DEF IInv, SettledVouches

(* First come, first served leaves room for one caller only. *)
LEMMA OneInside == IInv => MutualExclusion
<1> SUFFICES ASSUME IInv, NEW c \in Calls, NEW d \in Calls,
                    pc[c] = "critical", pc[d] = "critical", c # d
             PROVE  FALSE
  BY DEF MutualExclusion
<1>1. ticket[c] \in Nat /\ ticket[d] \in Nat BY DEF IInv, MutexTypeOK
<1>2. ticket[c] # ticket[d] BY DEF IInv, Tickets, Arrived
<1>3. ticket[c] < ticket[d] \/ ticket[d] < ticket[c] BY <1>1, <1>2
<1> QED BY <1>3 DEF IInv, FirstComeFirstServed, Arrived, Entered

LEMMA InitIInv == MutexInit => IInv
<1> SUFFICES ASSUME MutexInit PROVE IInv OBVIOUS
<1>1. \A c \in Calls : pc[c] = "idle" BY DEF MutexInit
<1>2. MutexTypeOK BY DEF MutexInit, MutexTypeOK
<1>3. Tickets /\ Links /\ FirstComeFirstServed
  BY <1>1 DEF Tickets, Links, FirstComeFirstServed, Arrived
<1>4. Tail /\ SettledVouches BY DEF MutexInit, Tail, SettledVouches
<1>5. Waiters BY <1>1 DEF MutexInit, Waiters
<1>6. LockedIffInside BY <1>1, Zenon DEF MutexInit, LockedIffInside
<1> QED BY <1>2, <1>3, <1>4, <1>5, <1>6 DEF IInv

LEMMA MutexTypeStep ==
  ASSUME MutexTypeOK, [MutexNext]_mutexVars PROVE MutexTypeOK'
<1> USE DEF MutexTypeOK
<1>1. ASSUME NEW c \in Calls, Acquire(c) PROVE MutexTypeOK' BY <1>1 DEF Acquire
<1>2. ASSUME NEW c \in Calls, LinkSettles(c) PROVE MutexTypeOK'
  BY <1>2 DEF LinkSettles, chainVars
<1>3. ASSUME NEW c \in Calls, Granted(c) PROVE MutexTypeOK'
  BY <1>3 DEF Granted, chainVars
<1>4. ASSUME NEW c \in Calls, Release(c) PROVE MutexTypeOK'
  BY <1>4 DEF Release, chainVars
<1>5. CASE UNCHANGED mutexVars BY <1>5 DEF mutexVars, chainVars
<1> QED BY <1>1, <1>2, <1>3, <1>4, <1>5 DEF MutexNext, Step

LEMMA AcquireIInv ==
  ASSUME IInv, NEW c \in Calls, Acquire(c), MutexTypeOK' PROVE IInv'
<1> USE NoCallAssumption DEF Acquire, Arrived
<1>1. /\ asked \in Nat /\ asked' = asked + 1 /\ ticket'[c] = asked + 1 /\ pc'[c] = "waiting"
      /\ \A d \in Calls : ticket[d] \in Nat
      /\ \A d \in Calls \ {c} : ticket'[d] = ticket[d] /\ pc'[d] = pc[d]
                                /\ previous'[d] = previous[d]
  BY DEF IInv, MutexTypeOK
<1>2. pc[c] = "idle" /\ previous'[c] = queue /\ queue' = c
  BY DEF IInv, MutexTypeOK
<1>3. \A d \in Calls \ {c} : Arrived(d) => ticket[d] \in 1..asked
  BY DEF IInv, Tickets
<1>4. Tickets' BY <1>1, <1>3 DEF IInv, Tickets
<1>5. Tail' BY <1>1, <1>2 DEF Tail
<1>6. Links'
  <2>1. CASE queue = NoCall BY <1>1, <1>2, <2>1 DEF IInv, Links, Tail
  <2>2. CASE queue # NoCall
    <3>1. queue \in Calls \ {c} /\ ticket[queue] = asked /\ pc[queue] # "idle"
      BY <1>2, <2>2 DEF IInv, Tail, MutexTypeOK
    <3>2. ASSUME NEW d \in Calls \ {c}, pc[d] # "idle", previous[d] # NoCall
          PROVE  previous[d] \in Calls \ {c} /\ pc[previous[d]] # "idle"
                 /\ ticket[d] = ticket[previous[d]] + 1
      BY <1>2, <3>2 DEF IInv, Links, MutexTypeOK
    <3>3. ASSUME NEW d \in Calls \ {c}, pc[d] # "idle", previous[d] = NoCall
          PROVE  ticket[d] = 1
      BY <3>3 DEF IInv, Links
    <3> QED BY <1>1, <1>2, <3>1, <3>2, <3>3, <2>2 DEF Links
  <2> QED BY <2>1, <2>2
<1>7. Waiters' BY <1>1, <1>2 DEF IInv, Waiters
<1>8. SettledVouches'
  <2> SUFFICES ASSUME NEW e \in settled, NEW d \in Calls, pc'[d] # "idle", ticket'[d] <= ticket'[e]
               PROVE  e \in waiter /\ pc'[d] = "done"
    BY DEF SettledVouches, IInv
  <2>1. e \in waiter /\ e \in Calls /\ e # c /\ pc[e] = "done"
    BY <1>2 DEF IInv, SettledVouches, Waiters, MutexTypeOK
  <2>2. ticket[e] \in 1..asked /\ ticket'[e] = ticket[e] BY <1>1, <1>3, <2>1
  <2>3. d # c BY <1>1, <2>2
  <2> QED BY <1>1, <2>1, <2>2, <2>3 DEF IInv, SettledVouches
<1>9. FirstComeFirstServed'
  <2> SUFFICES ASSUME NEW d \in Calls, NEW e \in Calls, pc'[d] # "idle",
                      pc'[e] \in {"critical", "done"}, ticket'[d] < ticket'[e]
               PROVE  pc'[d] = "done"
    BY DEF FirstComeFirstServed, Entered
  <2>1. e # c BY <1>1
  <2>2. ticket'[e] = ticket[e] /\ ticket[e] \in 1..asked BY <1>1, <1>3, <2>1
  <2>3. d # c BY <1>1, <2>2
  <2> QED BY <1>1, <2>1, <2>2, <2>3 DEF IInv, FirstComeFirstServed, Entered
<1>10. LockedIffInside' BY <1>1, <1>2 DEF IInv, LockedIffInside
<1> QED BY <1>4, <1>5, <1>6, <1>7, <1>8, <1>9, <1>10 DEF IInv

LEMMA LinkIInv ==
  ASSUME IInv, NEW c \in Calls, LinkSettles(c), MutexTypeOK' PROVE IInv'
<1>1. UNCHANGED <<pc, queue, previous, waiter, locked, ticket, asked>>
  BY DEF LinkSettles, chainVars
<1>2. SettledVouches'
  <2>1. ASSUME NEW d \in Calls, Arrived(d), ticket[d] <= ticket[c] PROVE pc[d] = "done"
    <3>1. pc[c] = "done" BY DEF LinkSettles, IInv, Waiters
    <3>2. ticket[c] \in Nat /\ ticket[d] \in Nat BY DEF IInv, MutexTypeOK
    <3>3. CASE ticket[d] = ticket[c] BY <2>1, <3>1, <3>3 DEF IInv, Tickets, Arrived
    <3>4. CASE ticket[d] < ticket[c]
      BY <2>1, <3>1, <3>4, GrantedAlone DEF Arrived, LinkSettles
    <3> QED BY <2>1, <3>2, <3>3, <3>4
  <2> QED BY <1>1, <2>1 DEF SettledVouches, LinkSettles, IInv, Arrived
<1> QED BY <1>1, <1>2 DEF IInv, Tickets, Tail, Links, Waiters, FirstComeFirstServed,
                          LockedIffInside, Arrived, Entered

LEMMA GrantedIInv ==
  ASSUME IInv, NEW c \in Calls, Granted(c), MutexTypeOK' PROVE IInv'
<1>1. /\ UNCHANGED <<queue, previous, waiter, settled, ticket, asked>>
      /\ pc[c] = "waiting" /\ pc' = [pc EXCEPT ![c] = "critical"] /\ locked' = TRUE
      /\ Resolved(previous[c])
  BY DEF Granted, chainVars
<1>2. pc'[c] = "critical" /\ \A d \in Calls \ {c} : pc'[d] = pc[d]
  BY <1>1 DEF IInv, MutexTypeOK
<1>3. \A d \in Calls : Arrived(d)' <=> Arrived(d) BY <1>1, <1>2 DEF Arrived
<1>4. Tickets' /\ Tail' /\ Links'
  <2>1. Tickets' BY <1>1, <1>3 DEF IInv, Tickets
  <2>2. Tail' BY <1>1, <1>3, NoCallAssumption DEF IInv, Tail, MutexTypeOK
  <2>3. Links' BY <1>1, <1>3, NoCallAssumption DEF IInv, Links, MutexTypeOK
  <2> QED BY <2>1, <2>2, <2>3
<1>5. Waiters' BY <1>1, <1>2 DEF IInv, Waiters
<1>6. SettledVouches'
  <2>1. \A d \in Calls : pc[d] = "done" => pc'[d] = "done" BY <1>1, <1>2
  <2> QED BY <1>1, <1>3, <2>1 DEF IInv, SettledVouches
<1>7. FirstComeFirstServed'
  <2> SUFFICES ASSUME NEW d \in Calls, NEW e \in Calls, Arrived(d), Entered(e)', ticket[d] < ticket[e]
               PROVE  pc'[d] = "done"
    BY <1>1, <1>3 DEF FirstComeFirstServed
  <2>1. CASE e = c
    <3>1. pc[d] = "done" BY <1>1, <2>1, GrantedAlone DEF Arrived
    <3> QED BY <1>1, <1>2, <3>1
  <2>2. CASE e # c
    <3>1. pc[d] = "done" BY <1>2, <2>2 DEF IInv, FirstComeFirstServed, Entered
    <3> QED BY <1>1, <1>2, <3>1
  <2> QED BY <2>1, <2>2
<1>8. LockedIffInside' BY <1>1, <1>2 DEF LockedIffInside
<1> QED BY <1>4, <1>5, <1>6, <1>7, <1>8 DEF IInv

LEMMA ReleaseIInv ==
  ASSUME IInv, NEW c \in Calls, Release(c), MutexTypeOK' PROVE IInv'
<1>1. /\ UNCHANGED <<queue, previous, settled, ticket, asked>>
      /\ pc[c] = "critical" /\ pc' = [pc EXCEPT ![c] = "done"] /\ locked' = FALSE
      /\ waiter' = waiter \cup {c}
  BY DEF Release, chainVars
<1>2. pc'[c] = "done" /\ \A d \in Calls \ {c} : pc'[d] = pc[d]
  BY <1>1 DEF IInv, MutexTypeOK
<1>3. \A d \in Calls : Arrived(d)' <=> Arrived(d) BY <1>1, <1>2 DEF Arrived
<1>4. Tickets' /\ Tail' /\ Links'
  <2>1. Tickets' BY <1>1, <1>3 DEF IInv, Tickets
  <2>2. Tail' BY <1>1, <1>3, NoCallAssumption DEF IInv, Tail, MutexTypeOK
  <2>3. Links' BY <1>1, <1>3, NoCallAssumption DEF IInv, Links, MutexTypeOK
  <2> QED BY <2>1, <2>2, <2>3
<1>5. Waiters' BY <1>1, <1>2 DEF IInv, Waiters
<1>6. \A d \in Calls : pc[d] = "done" => pc'[d] = "done" BY <1>2
<1>7. SettledVouches' BY <1>1, <1>3, <1>6 DEF IInv, SettledVouches
<1>8. FirstComeFirstServed'
  <2>1. \A d \in Calls : Entered(d)' => Entered(d) BY <1>1, <1>2 DEF Entered
  <2> QED BY <1>1, <1>3, <1>6, <2>1 DEF IInv, FirstComeFirstServed
<1>9. LockedIffInside'
  <2>1. \A d \in Calls \ {c} : pc[d] # "critical"
    BY <1>1, OneInside DEF MutualExclusion
  <2> QED BY <1>1, <1>2, <2>1 DEF LockedIffInside
<1> QED BY <1>4, <1>5, <1>7, <1>8, <1>9 DEF IInv

LEMMA StutterIInv == IInv /\ UNCHANGED mutexVars => IInv'
BY DEF mutexVars, chainVars, IInv, MutexTypeOK, Tickets, Tail, Links, Waiters, SettledVouches,
       FirstComeFirstServed, LockedIffInside, Arrived, Entered

LEMMA IInvAlways == MutexSpec => []IInv
<1>1. IInv /\ [MutexNext]_mutexVars => IInv'
  <2> SUFFICES ASSUME IInv, [MutexNext]_mutexVars PROVE IInv' OBVIOUS
  <2>1. MutexTypeOK' BY MutexTypeStep DEF IInv
  <2> QED BY <2>1, AcquireIInv, LinkIInv, GrantedIInv, ReleaseIInv, StutterIInv DEF MutexNext, Step
<1> QED BY <1>1, InitIInv, PTL DEF MutexSpec

-----------------------------------------------------------------------------
(* The mutex's variables have their types. *)
THEOREM MutexTypeCorrect == MutexSpec => []MutexTypeOK
BY IInvAlways, PTL DEF IInv

(* Two exclusive callbacks (two write tools, two state transactions) never *)
(* overlap.                                                                *)
THEOREM MutexExcludes == MutexSpec => []MutualExclusion
BY IInvAlways, OneInside, PTL

(* Exclusive callbacks run in the order of the calls. *)
THEOREM MutexIsFifo == MutexSpec => []FirstComeFirstServed
BY IInvAlways, PTL DEF IInv

(* isLocked is TRUE exactly while a callback runs. *)
THEOREM IsLockedIsExact == MutexSpec => []LockedIffInside
BY IInvAlways, PTL DEF IInv

(* The promise chain implements the ticket lock: settling links is         *)
(* invisible, a grant serves the lowest waiting ticket.                    *)
THEOREM MutexImplementsFifoLock == MutexSpec => ImplementsFifoLock
<1>1. MutexInit => Lock!Init BY DEF MutexInit, Lock!Init
<1>2. IInv /\ [MutexNext]_mutexVars => [Lock!Next]_(Lock!vars)
  <2> SUFFICES ASSUME IInv, [MutexNext]_mutexVars PROVE [Lock!Next]_(Lock!vars) OBVIOUS
  <2>1. ASSUME NEW c \in Calls, Acquire(c) PROVE Lock!Next
    BY <2>1 DEF Acquire, Lock!Next, Lock!Ask
  <2>2. ASSUME NEW c \in Calls, LinkSettles(c) PROVE UNCHANGED Lock!vars
    BY <2>2 DEF LinkSettles, Lock!vars
  <2>3. ASSUME NEW c \in Calls, Granted(c) PROVE Lock!Next
    <3>1. pc[c] = "waiting" /\ Resolved(previous[c]) BY <2>3 DEF Granted
    <3>2. ASSUME NEW d \in Calls, ~(pc[d] # "critical" /\ (pc[d] = "waiting" => ticket[c] <= ticket[d]))
          PROVE  FALSE
      <4>1. ticket[c] \in Nat /\ ticket[d] \in Nat BY DEF IInv, MutexTypeOK
      <4>2. ~(ticket[d] < ticket[c])
        BY <3>1, <3>2, GrantedAlone DEF Arrived
      <4>3. pc[d] = "critical" BY <3>2, <4>1, <4>2
      <4>4. ~(ticket[c] < ticket[d])
        BY <3>1, <4>3 DEF IInv, FirstComeFirstServed, Arrived, Entered
      <4>5. c = d BY <3>1, <4>1, <4>2, <4>3, <4>4 DEF IInv, Tickets, Arrived
      <4> QED BY <3>1, <4>3, <4>5
    <3> QED BY <2>3, <3>2 DEF Granted, Lock!Next, Lock!Serve
  <2>4. ASSUME NEW c \in Calls, Release(c) PROVE Lock!Next
    BY <2>4 DEF Release, Lock!Next, Lock!Finish
  <2>5. CASE UNCHANGED mutexVars BY <2>5 DEF mutexVars, Lock!vars
  <2> QED BY <2>1, <2>2, <2>3, <2>4, <2>5 DEF MutexNext, Step
<1> QED BY <1>1, <1>2, IInvAlways, PTL DEF MutexSpec, ImplementsFifoLock, Lock!Spec
=============================================================================
