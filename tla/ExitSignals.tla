------------------------------ MODULE ExitSignals ------------------------------
(***************************************************************************)
(* When the daemon closes a position by rule.  state.json remembers of     *)
(* each position its confirmed peak, the pending peak, whether the         *)
(* trailing take-profit is armed, since when it is out of range and the    *)
(* exit signal under confirmation (domain/state.ts).  Two cycles of        *)
(* Daemon.ts read and move that memory: the PnL poller, which acts on a    *)
(* signal that several ticks repeat, and the management cycle, which acts  *)
(* at once.  Their locks exclude each other (module DaemonCycles).         *)
(*                                                                         *)
(* Portfolio are numbered in the order in which a read lists them.  A tick *)
(* of either cycle evaluates without an await, so it is one step; closing  *)
(* is asynchronous.                                                        *)
(***************************************************************************)
EXTENDS Integers, Sequences, FiniteSets

CONSTANTS N,             \* number of positions
          Readings,      \* what the source may show of each: a function on 1..N
          Instructed,    \* positions with an instruction of the user
          NoPnl,         \* pnl_pct is null
          ConfirmTicks, StopLoss, TakeProfit, Trigger, Drop, Wait

Portfolio == 1..N
Pnls == {r.pnl : r \in UNION {Readings[p] : p \in Portfolio}}

ASSUME ExitSignalsAssumption ==
  /\ N \in Nat \ {0} /\ Instructed \subseteq Portfolio
  /\ ConfirmTicks \in Nat \ {0} /\ Wait \in Nat \ {0}
  /\ {StopLoss, TakeProfit, Trigger, Drop} \subseteq Int /\ NoPnl \notin Int
  /\ Trigger > 0
  /\ \A p \in Portfolio :
       Readings[p] \subseteq [pnl : Int \cup {NoPnl}, priced : BOOLEAN, gain : BOOLEAN,
                              out : BOOLEAN, flag : BOOLEAN, far : BOOLEAN, poor : BOOLEAN]
  /\ \A p \in Portfolio : \A r \in Readings[p] : r.priced => r.pnl # NoPnl

VARIABLES
  shown,    \* what a read shows of each position now
  mem,      \* its entry in state.json
  closed,   \* whether it is closed
  closing,      \* the closes a cycle is carrying out
  run,      \* history: the signal of the poller's last ticks, and for how many
  best,     \* history: the highest PnL ever evaluated, suspect or not
  stayed    \* history: minutes since it was last evaluated in range

exitVars == <<shown, mem, closed, closing, run, best, stayed>>
history == <<run, best, stayed>>

InRange == -1   \* out_of_range_since is null; else the minutes since
NoSignal == "none"
Fresh == [peak |-> 0, pend |-> NoPnl, pendCount |-> 0, trailing |-> FALSE,
          oor |-> InRange, sig |-> NoSignal, sigCount |-> 0]
NoClosing == [by |-> "none", left |-> {}]

-----------------------------------------------------------------------------
\* Mutant: the clock starts again at every mark.
MarkAnew(s, out) == [s EXCEPT !.oor = IF out THEN 0 ELSE InRange]

(* markOutOfRange, markInRange: every read of the positions marks them by  *)
(* the pool's flag.                                                        *)
Mark(s, out) ==
  [s EXCEPT !.oor = IF ~out THEN InRange ELSE IF @ = InRange THEN 0 ELSE @]

PendingTicks(s, pnl) == IF s.pend # NoPnl /\ pnl >= s.pend THEN s.pendCount + 1 ELSE 1

(* confirmPeak *)
ConfirmPeak(s, pnl, ticks) ==
  IF pnl = NoPnl THEN s
  ELSE IF pnl <= s.peak THEN [s EXCEPT !.pend = NoPnl, !.pendCount = 0]
  ELSE IF PendingTicks(s, pnl) >= ticks
       THEN [s EXCEPT !.peak = pnl, !.pend = NoPnl, !.pendCount = 0]
       ELSE [s EXCEPT !.pend = pnl, !.pendCount = PendingTicks(s, pnl)]

Armed(s) == s.trailing \/ s.peak >= Trigger

(* What a tick of either cycle makes of an entry: the marks of the read,   *)
(* confirmPeak and the updates of updatePnlAndCheckExits.                  *)
Evaluated(s, r, ticks) ==
  LET peaked == ConfirmPeak(Mark(s, r.flag), r.pnl, ticks)
  IN  Mark([peaked EXCEPT !.trailing = Armed(peaked)], r.out)

\* Mutant: only a missing percentage is suspect.
SuspectMissing(r) == r.pnl = NoPnl

\* Mutant: a loss is suspect because it is one.
SuspectLoss(r) == ~r.priced \/ r.pnl <= StopLoss

(* isPnlSuspect *)
Suspect(r) == ~r.priced

\* Mutant: the clock starts at the limit.
OutTooLongAtOnce(s) == s.oor >= 0

OutTooLong(s) == s.oor >= Wait

(* The exits of updatePnlAndCheckExits, then getDeterministicCloseRule, in *)
(* order.  Rules 1 and 4 repeat exits that come first.  Rule 5 is LOW_YIELD *)
(* at an age of 60 minutes whatever minAgeBeforeYieldCheck says; here the  *)
(* setting has that value, its default.                                    *)
Exits == <<"STOP_LOSS", "TRAILING_TP", "OUT_OF_RANGE", "LOW_YIELD">>
Rules == <<"RULE_2", "RULE_3">>
PnlSignals == {"STOP_LOSS", "TRAILING_TP", "RULE_2"}

Holds(sig, s, r) ==
  CASE sig = "STOP_LOSS"    -> ~Suspect(r) /\ r.pnl <= StopLoss
    [] sig = "TRAILING_TP"  -> ~Suspect(r) /\ s.trailing /\ s.peak - r.pnl >= Drop
    [] sig = "OUT_OF_RANGE" -> OutTooLong(s)
    [] sig = "LOW_YIELD"    -> r.poor
    [] sig = "RULE_2"       -> ~Suspect(r) /\ r.pnl >= TakeProfit /\ r.gain
    [] sig = "RULE_3"       -> r.far

First(signals, s, r) ==
  LET live == {i \in DOMAIN signals : Holds(signals[i], s, r)}
  IN  IF live = {} THEN NoSignal ELSE signals[CHOOSE i \in live : \A j \in live : i <= j]

-----------------------------------------------------------------------------
\* Mutant: a streak goes on over a tick without a signal.
StreakKept(s, sig) ==
  IF sig = NoSignal THEN s
  ELSE [s EXCEPT !.sig = sig, !.sigCount = IF s.sig = sig THEN @ + 1 ELSE 1]

Streak(s, sig) ==
  [s EXCEPT !.sig = sig,
            !.sigCount = IF sig = NoSignal THEN 0 ELSE IF s.sig = sig THEN @ + 1 ELSE 1]

Fires(s) == s.sig # NoSignal /\ s.sigCount >= ConfirmTicks

\* Mutant: a streak that fires is not forgotten.
RegisteredForGood(s, sig) == Streak(s, sig)

(* registerExitSignal: the streak, forgotten when it fires. *)
Registered(s, sig) ==
  LET t == Streak(s, sig)
  IN  IF Fires(t) THEN [t EXCEPT !.sig = NoSignal, !.sigCount = 0] ELSE t

Unclosed == {p \in Portfolio : ~closed[p]}

(* One action per tick: the loop ends at the first position that fires.    *)
Reached(firing) == {p \in Unclosed : \A q \in firing : p <= q}

Remember(ps) ==
  /\ best' = [p \in Portfolio |->
                IF p \in ps /\ shown[p].pnl # NoPnl /\ shown[p].pnl > best[p]
                THEN shown[p].pnl ELSE best[p]]
  /\ stayed' = [p \in Portfolio |-> IF p \in ps /\ ~shown[p].out THEN 0 ELSE stayed[p]]

Count(r, sig) ==
  [sig |-> sig, n |-> IF sig # r.sig THEN 1 ELSE IF r.n < ConfirmTicks THEN r.n + 1 ELSE r.n]

(* The PnL poller's tick, and the close of the position that fired.  Each  *)
(* \E over one value only names it.                                        *)
PollTick ==
  /\ closing = NoClosing /\ Unclosed # {}
  /\ \E entry \in {[p \in Unclosed |-> Evaluated(mem[p], shown[p], ConfirmTicks)]} :
     \E sig \in {[p \in Unclosed |-> First(Exits \o Rules, entry[p], shown[p])]} :
     \E firing \in {{p \in Unclosed : Fires(Streak(entry[p], sig[p]))}} :
     \E reached \in {Reached(firing)} :
       /\ mem' = [p \in Portfolio |->
                    IF p \in reached THEN Registered(entry[p], sig[p])
                    ELSE IF p \in Unclosed THEN Mark(mem[p], shown[p].flag) ELSE mem[p]]
       /\ run' = [p \in Portfolio |-> IF p \in reached THEN Count(run[p], sig[p]) ELSE run[p]]
       /\ closing' = IF firing = {} THEN NoClosing
                 ELSE [by |-> "poll",
                       left |-> {[pos |-> p, sig |-> sig[p]] : p \in reached \cap firing}]
       /\ Remember(reached)
  /\ UNCHANGED <<shown, closed>>

-----------------------------------------------------------------------------
(* With an instruction the rules are left to the model, which may close    *)
(* the position or not; an exit closes it all the same.                    *)
Considered(p) == IF p \in Instructed THEN Exits ELSE Exits \o Rules

(* The management cycle confirms a peak and acts on a signal at once.      *)
ManagementTick ==
  /\ closing = NoClosing /\ Unclosed # {}
  /\ \E entry \in {[p \in Unclosed |-> Evaluated(mem[p], shown[p], 1)]} :
     \E sig \in {[p \in Unclosed |-> First(Considered(p), entry[p], shown[p])]} :
     \E asked \in SUBSET {p \in Unclosed \cap Instructed : sig[p] = NoSignal} :
       LET due == {[pos |-> p, sig |-> sig[p]] : p \in {q \in Unclosed : sig[q] # NoSignal}}
                  \cup {[pos |-> p, sig |-> "INSTRUCTION"] : p \in asked}
       IN  /\ mem' = [p \in Portfolio |-> IF p \in Unclosed THEN entry[p] ELSE mem[p]]
           /\ closing' = IF due = {} THEN NoClosing ELSE [by |-> "manage", left |-> due]
  /\ Remember(Unclosed)
  /\ UNCHANGED <<shown, closed, run>>

(* executeManagementActions closes one position after the other, those     *)
(* with an instruction last.  A close may fail.                            *)
NextClose == CHOOSE c \in closing.left :
  \A d \in closing.left : /\ c.sig = "INSTRUCTION" => d.sig = "INSTRUCTION"
                      /\ (c.sig = "INSTRUCTION" <=> d.sig = "INSTRUCTION") => c.pos <= d.pos

(* Nothing reads the entry of a closed position again: it starts afresh.   *)
CloseEnds(done) ==
  /\ closing # NoClosing
  /\ closing' = IF closing.left = {NextClose} THEN NoClosing
                ELSE [closing EXCEPT !.left = @ \ {NextClose}]
  /\ LET p == NextClose.pos
     IN  /\ run' = IF done \/ closing.by = "poll"
                   THEN [run EXCEPT ![p] = [sig |-> NoSignal, n |-> 0]] ELSE run
         /\ IF done
            THEN /\ closed' = [closed EXCEPT ![p] = TRUE]
                 /\ mem' = [mem EXCEPT ![p] = Fresh]
                 /\ best' = [best EXCEPT ![p] = 0] /\ stayed' = [stayed EXCEPT ![p] = 0]
            ELSE UNCHANGED <<closed, mem, best, stayed>>
  /\ UNCHANGED shown

Closed(p) == closing # NoClosing /\ NextClose.pos = p /\ CloseEnds(TRUE)

-----------------------------------------------------------------------------
(* The market moves, or a read shows something that is not so. *)
Moves(p) ==
  /\ ~closed[p]
  /\ \E r \in Readings[p] \ {shown[p]} : shown' = [shown EXCEPT ![p] = r]
  /\ UNCHANGED <<mem, closed, closing, history>>

(* A minute passes; clocks are of interest up to Wait. *)
Minute ==
  /\ mem' = [p \in Portfolio |->
               IF mem[p].oor \in 0..(Wait - 1) THEN [mem[p] EXCEPT !.oor = @ + 1] ELSE mem[p]]
  /\ stayed' = [p \in Portfolio |->
                  IF ~closed[p] /\ stayed[p] < Wait THEN stayed[p] + 1 ELSE stayed[p]]
  /\ <<mem, stayed>>' # <<mem, stayed>>
  /\ UNCHANGED <<shown, closed, closing, run, best>>

(* The process ends; state.json remains. *)
Restart ==
  /\ closing # NoClosing /\ closing' = NoClosing
  /\ UNCHANGED <<shown, mem, closed, history>>

ExitInit ==
  /\ shown \in {f \in [Portfolio -> UNION {Readings[p] : p \in Portfolio}] :
                  \A p \in Portfolio : f[p] \in Readings[p]}
  /\ mem = [p \in Portfolio |-> Fresh] /\ closed = [p \in Portfolio |-> FALSE]
  /\ closing = NoClosing
  /\ run = [p \in Portfolio |-> [sig |-> NoSignal, n |-> 0]]
  /\ best = [p \in Portfolio |-> 0] /\ stayed = [p \in Portfolio |-> 0]

ExitNext ==
  \/ PollTick \/ ManagementTick \/ Minute \/ Restart
  \/ \E done \in BOOLEAN : CloseEnds(done)
  \/ \E p \in Portfolio : Moves(p)

ExitSpec == ExitInit /\ [][ExitNext]_exitVars

(* The timers go on, awaited calls settle, and a position whose close is   *)
(* tried again and again is closed in the end.  The market owes nothing.   *)
ExitFairSpec ==
  /\ ExitSpec
  /\ WF_exitVars(PollTick) /\ WF_exitVars(ManagementTick) /\ WF_exitVars(Minute)
  /\ WF_exitVars(\E done \in BOOLEAN : CloseEnds(done))
  /\ \A p \in Portfolio : SF_exitVars(Closed(p))

-----------------------------------------------------------------------------
Signals == {"STOP_LOSS", "TRAILING_TP", "OUT_OF_RANGE", "LOW_YIELD", "RULE_2", "RULE_3"}

(* The variables keep their types: streaks stay below the count at which   *)
(* they are acted upon, and no pending peak is below the confirmed one.    *)
ExitTypeOK ==
  /\ \A p \in Portfolio : shown[p] \in Readings[p]
  /\ mem \in [Portfolio ->
                [peak : Pnls \cup {0}, pend : Pnls \cup {NoPnl}, pendCount : 0..ConfirmTicks,
                 trailing : BOOLEAN, oor : InRange..Wait,
                 sig : Signals \cup {NoSignal}, sigCount : 0..ConfirmTicks]]
  /\ \A p \in Portfolio :
       LET s == mem[p]
       IN  /\ s.sigCount < ConfirmTicks /\ (s.sig = NoSignal <=> s.sigCount = 0)
           /\ s.pendCount < ConfirmTicks /\ (s.pend = NoPnl <=> s.pendCount = 0)
           /\ s.pend # NoPnl => s.pend > s.peak
  /\ closed \in [Portfolio -> BOOLEAN]
  /\ closing.by \in {"none", "poll", "manage"}
  /\ closing.left \subseteq [pos : Portfolio, sig : Signals \cup {"INSTRUCTION"}]
  /\ (closing.left = {}) <=> (closing.by = "none")

Decides(by) == closing = NoClosing /\ closing'.by = by

(* registerExitSignal, "an exit only fires after confirmTicks consecutive  *)
(* polls report the SAME action", whatever management cycles, restarts and *)
(* ticks cut short by another position's close came in between.            *)
PollConfirmed ==
  [][Decides("poll") =>
       \A c \in closing'.left : run'[c.pos] = [sig |-> c.sig, n |-> ConfirmTicks]]_exitVars

(* An exit for profit or loss rests on prices: the reading that decides it *)
(* is not suspect, and a trailing take-profit gives back a gain of at least*)
(* the trigger that a reading of the position showed.  (Not necessarily a  *)
(* priced one: confirmPeak does not ask whether its candidate is suspect.) *)
PnlExitsAreReal ==
  [][\A by \in {"poll", "manage"} : Decides(by) =>
       \A c \in closing'.left :
         /\ c.sig \in PnlSignals => shown[c.pos].priced
         /\ c.sig = "TRAILING_TP" =>
              best'[c.pos] >= Trigger /\ best'[c.pos] - shown[c.pos].pnl >= Drop]_exitVars

(* A position closed for being out of range was so in every evaluation of  *)
(* the last outOfRangeWaitMinutes: the two cycles and the marks of every   *)
(* read move one clock.                                                    *)
OutExitsAreLate ==
  [][\A by \in {"poll", "manage"} : Decides(by) =>
       \A c \in closing'.left :
         c.sig = "OUT_OF_RANGE" => shown[c.pos].out /\ stayed'[c.pos] >= Wait]_exitVars

(* A position that keeps showing a loss beyond the stop is closed, whatever *)
(* signals came before, however often a close fails and whatever the       *)
(* positions before it in the list do.                                     *)
LossEndsIt ==
  \A p \in Portfolio :
    <>[](shown[p].priced /\ shown[p].pnl <= StopLoss) => <>closed[p]

(* A position that stays out of range is closed, if the pool's flag and    *)
(* the position's own agree.                                               *)
OutEndsIt ==
  \A p \in Portfolio : <>[](shown[p].out /\ shown[p].flag) => <>closed[p]

(* Whatever closes a position by rule was there to be seen: as often in a  *)
(* row, as high, and as long as the rule asks.                             *)
ExitsAreJustified == []ExitTypeOK /\ PollConfirmed /\ PnlExitsAreReal /\ OutExitsAreLate
=============================================================================
