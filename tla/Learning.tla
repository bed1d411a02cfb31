------------------------------ MODULE Learning ------------------------------
(***************************************************************************)
(* What the agent learns from its trades.  lessons.json holds the lessons  *)
(* and the performance records (domain/lessons.ts), pool-memory.json what  *)
(* became of the deploys of each pool, and the cooldowns (domain/          *)
(* pool-memory.ts); from the records the screening thresholds evolve and   *)
(* the weights of the signals are recalculated (domain/signal-weights.ts). *)
(*                                                                         *)
(* Every file is read and written whole.  Closing a trade, settling and    *)
(* writing off run under the write-tool lock, so that one pass at a time   *)
(* is under way; a pass over several records loads lessons.json, awaits an *)
(* import at each record and saves at its end.  The tools that edit the    *)
(* lessons need no lock and run between any two awaits.  Which records are *)
(* pending, and why, is the business of module Liquidation.                *)
(*                                                                         *)
(* Amounts are integers: pnl and organic scores in percent, fee ratios in  *)
(* hundredths, weights in thousandths, cooldowns in hours.                 *)
(***************************************************************************)
EXTENDS Integers, Sequences, FiniteSetsExt

CONSTANTS Traded, Pools, PoolOf,  \* PoolOf[trade]; all pools are of one token
          Notes,         \* lessons the operator or the model writes
          Evolution,     \* the origin of the lessons that evolveThresholds adds
          Kinds, Fee, Organic, Fees, Why,
             \* what a trade was: its pool's fee ratio and organic score at the
             \* deploy, whether it earned fees, the reason of its close
          Results,       \* Results[kind]: the results such a trade may have
          EvolveEvery,   \* MIN_EVOLVE_POSITIONS
          MinSamples,    \* darwin.minSamples
          Fee0, Organic0,   \* the thresholds in the configuration
          OorCount, FeeCount,   \* closes in a row that start a cooldown
          LowHours, StopHours, OorHours,   \* length of the cooldowns
          Edits          \* bound: edits and crashes, together

Reasons == {"stop loss", "low yield", "out of range", "other"}
Signals == {"fee", "organic"}

ASSUME LearningAssumption ==
  /\ IsFiniteSet(Traded) /\ PoolOf \in [Traded -> Pools] /\ Traded \cap Notes = {}
  /\ Evolution \notin Traded \cup Notes
  /\ Kinds # {} /\ Fee \in [Kinds -> Nat] /\ Organic \in [Kinds -> Nat]
  /\ Why \in [Kinds -> Reasons] /\ Fees \in [Kinds -> BOOLEAN]
  /\ Results \in [Kinds -> (SUBSET Int) \ {{}}]
  /\ EvolveEvery \in Nat \ {0} /\ MinSamples \in Nat /\ {OorCount, FeeCount} \subseteq Nat \ {0}
  /\ Fee0 \in Nat /\ Organic0 \in Nat
  /\ {LowHours, StopHours, OorHours} \subseteq Nat
  /\ Edits \in Nat

VARIABLES
  file,       \* lessons.json: [lessons, pinned, records]
  deploys,    \* pool-memory.json: what was recorded of each pool's trades
  poolRest,   \* hours left of a pool's cooldown
  tokenRest,  \* hours left of the token's cooldown
  floors,     \* minFeeActiveTvlRatio, minOrganic
  weights,    \* signal-weights.json
  pass,       \* the pass under way
  (* history *)
  closed,     \* trades closed
  wanted,     \* the notes that were written and not removed, and those pinned
  raced,      \* notes, and trades, touched while a pass held a copy of the file
  cut,        \* trades whose pass was cut off by a crash
  edits       \* of Edits

memory == <<deploys, poolRest, tokenRest>>
history == <<closed, wanted, raced, cut, edits>>
learnVars == <<file, memory, floors, weights, pass, history>>

None == [status |-> "none", pnl |-> 0, kind |-> CHOOSE k \in Kinds : TRUE]
NoPass == [at |-> "idle"]


Known(records) == {t \in Traded : records[t].status # "none"}
Settled == {"realized", "lost"}

-----------------------------------------------------------------------------
(* derivLesson: which results leave a lesson.  With fees above 2 % of the  *)
(* deposit, as a trade that earned any has, any gain is good.              *)
Teaches(pnl, kind) == pnl >= 5 \/ (pnl >= 0 /\ Fees[kind]) \/ pnl < -5

(* recordPoolDeploy: the deploy is added; a later cooldown replaces an     *)
(* earlier one, whichever is longer.                                       *)
LastAre(s, n, D) == Len(s) >= n /\ \A i \in Len(s) - n + 1 .. Len(s) : s[i] \in D
Deploys == [of : Traded, kind : Kinds, why : Reasons]
For(why) == {d \in Deploys : d.why = why}
Repeated(s) == LastAre(s, FeeCount, {d \in Deploys : Fees[d.kind]})

\* Mutant: a cooldown of the pool is one of its token.
TokenRestAfterAny(s) ==
  CASE Repeated(s) -> StopHours
    [] ~Repeated(s) /\ LastAre(s, OorCount, For("out of range")) -> OorHours
    [] ~Repeated(s) /\ LastAre(s, 1, For("stop loss")) -> StopHours
    [] ~Repeated(s) /\ LastAre(s, 1, For("low yield")) -> LowHours
    [] OTHER -> tokenRest

(* repeatDeployCooldownScope is the token; the hours of repeated deploys   *)
(* and of stop losses are one setting.                                     *)
TokenRestAfter(s) ==
  IF Repeated(s) \/ (LastAre(s, 1, For("stop loss"))) THEN StopHours
  ELSE IF LastAre(s, OorCount, For("out of range")) THEN OorHours
  ELSE tokenRest

PoolRestAfter(p, s) ==
  IF LastAre(s, OorCount, For("out of range")) THEN OorHours
  ELSE IF LastAre(s, 1, For("stop loss")) THEN StopHours
  ELSE IF LastAre(s, 1, For("low yield")) THEN LowHours
  ELSE poolRest[p]

Remember(t, kind, why) ==
  LET p == PoolOf[t]
      s == Append(deploys[p], [of |-> t, kind |-> kind, why |-> why]) IN
  /\ deploys' = [deploys EXCEPT ![p] = s]
  /\ tokenRest' = TokenRestAfter(s)
  /\ poolRest' = [poolRest EXCEPT ![p] = PoolRestAfter(p, s)]

(* Passes are short: hours go by between them.                             *)
HourPasses ==
  /\ pass = NoPass
  /\ \E h \in {tokenRest} \cup {poolRest[p] : p \in Pools} : h > 0
  /\ tokenRest' = IF tokenRest > 0 THEN tokenRest - 1 ELSE 0
  /\ poolRest' = [p \in Pools |-> IF poolRest[p] > 0 THEN poolRest[p] - 1 ELSE 0]
  /\ UNCHANGED <<file, deploys, floors, weights, pass, history>>

-----------------------------------------------------------------------------
\* Mutant: what a trade that waits for its swap would bring is remembered.
RecordedFinallyAlways(status) == TRUE

RecordedFinally(status) == status # "pending"

(* recordPerformance, up to its first await: a record that looks wrong is  *)
(* dropped; one that is final leaves its lesson at once.                   *)
CloseTrade(t) ==
  /\ pass = NoPass /\ t \notin closed
  /\ closed' = closed \cup {t}
  /\ \E kind \in Kinds, status \in {"pending", "realized"} : \E pnl \in Results[kind] :
       LET record == [status |-> status, pnl |-> pnl, kind |-> kind]
           taught == IF status = "realized" /\ Teaches(pnl, kind) THEN {t} ELSE {} IN
       /\ file' = [file EXCEPT !.records = [@ EXCEPT ![t] = record], !.lessons = @ \cup taught]
       /\ pass' = [at |-> "record", of |-> t, data |-> file']
  /\ UNCHANGED <<memory, floors, weights, wanted, raced, cut, edits>>

CloseDropped(t) ==
  /\ pass = NoPass /\ t \notin closed
  /\ closed' = closed \cup {t}
  /\ UNCHANGED <<file, memory, floors, weights, pass, wanted, raced, cut, edits>>

(* Pool memory; then, at every EvolveEvery-th record, the evolution.       *)
Recorded ==
  /\ pass.at = "record"
  /\ LET r == pass.data.records[pass.of] IN
       IF RecordedFinally(r.status) THEN Remember(pass.of, r.kind, Why[r.kind])
                                     ELSE UNCHANGED memory
  /\ pass' = IF Cardinality(Known(pass.data.records)) % EvolveEvery = 0
             THEN [pass EXCEPT !.at = "evolve"] ELSE NoPass
  /\ UNCHANGED <<file, floors, weights, history>>

-----------------------------------------------------------------------------
(* evolveThresholds, on the records as they were read at the close, those  *)
(* that are still pending with what they are worth so far.                 *)
Winners(perf) == {t \in Known(perf) : perf[t].pnl > 0}
Losers(perf) == {t \in Known(perf) : perf[t].pnl < -5}

Clamped(x, low, high) == IF x < low THEN low ELSE IF x > high THEN high ELSE x

(* nudge: towards the target, by a fifth of the current value at most.     *)
Nudged(current, target) ==
  IF 5 * (target - current) > current THEN current + current \div 5
  ELSE IF 5 * (current - target) > current THEN current - current \div 5
  ELSE target

Rounded(x, n) == (2 * x + n) \div (2 * n)

(* The floor of the fee ratio is computed in ten-thousandths.  The winners *)
(* speak first, the losers only if the winners leave it.                   *)
FeeAfter(perf) ==
  LET won == {Fee[perf[t].kind] : t \in Winners(perf)}
      lost == {Fee[perf[t].kind] : t \in Losers(perf)}
      current == floors.fee
      raised(target) == Rounded(Clamped(Nudged(100 * current, target), 500, 100000), 100)
      byWinners == IF Cardinality(Winners(perf)) >= 2 /\ 10 * Min(won) > 12 * current
                   THEN raised(85 * Min(won)) ELSE current
      byLosers == IF Cardinality(Losers(perf)) >= 2 /\ won # {} /\ 10 * Max(lost) < 15 * current
                     /\ Min(won) > Max(lost)
                  THEN raised(120 * Max(lost)) ELSE current IN
  IF byWinners > current THEN byWinners ELSE IF byLosers > current THEN byLosers ELSE current

Apart(perf) ==
  LET won == Winners(perf)
      lost == Losers(perf)
      sum(T) == MapThenSumSet(LAMBDA t : Organic[perf[t].kind], T) IN
  sum(won) * Cardinality(lost) - sum(lost) * Cardinality(won)
    >= 10 * Cardinality(won) * Cardinality(lost)

\* Mutant: a clear gap raises the floor by a full step.
OrganicAfterStep(perf) ==
  IF Cardinality(Losers(perf)) >= 2 /\ Winners(perf) # {} /\ Apart(perf)
  THEN Clamped(floors.organic + floors.organic \div 5, 60, 90) ELSE floors.organic

(* The scores' floor rises to just below the worst winner, if the winners' *)
(* average is ten above the losers'; computed in fifths.                   *)
OrganicAfter(perf) ==
  LET won == Winners(perf)
      lost == Losers(perf)
      current == floors.organic
      worst == Min({Organic[perf[t].kind] : t \in won}) - 3
      target == IF worst > current THEN worst ELSE current
      next == Clamped(Rounded(Nudged(5 * current, 5 * target), 5), 60, 90) IN
  IF Cardinality(lost) >= 2 /\ won # {} /\ Apart(perf) /\ next > current THEN next ELSE current

\* Mutant: the lesson is added to the file as it was at the close.
AmendedOld(lessons) == [pass.data EXCEPT !.lessons = @ \cup lessons]

Amended(lessons) == [file EXCEPT !.lessons = @ \cup lessons]

(* One step has two winners or two losers, or changes nothing.  The lesson *)
(* about it is added to the file as it is now.                             *)
Evolve ==
  /\ pass.at = "evolve"
  /\ LET perf == pass.data.records IN
     floors' = IF Cardinality(Winners(perf)) >= 2 \/ Cardinality(Losers(perf)) >= 2
               THEN [fee |-> FeeAfter(perf), organic |-> OrganicAfter(perf)] ELSE floors
  /\ file' = IF floors' = floors THEN file ELSE Amended({Evolution})
  /\ pass' = [pass EXCEPT !.at = "weigh"]
  /\ UNCHANGED <<memory, weights, history>>

(* computeNumericLift, times the number of wins and of losses: how much    *)
(* higher a signal was in the wins, in parts of its range.                 *)
Value(s, r) == IF s = "fee" THEN Fee[r.kind] ELSE Organic[r.kind]

LiftsMore(s, r, perf, wins, losses) ==
  LET values(x) == {Value(x, perf[t]) : t \in wins \cup losses}
      range(x) == Max(values(x)) - Min(values(x))
      sum(x, T) == MapThenSumSet(LAMBDA t : Value(x, perf[t]), T)
      gap(x) == sum(x, wins) * Cardinality(losses) - sum(x, losses) * Cardinality(wins)
      width(x) == IF range(x) = 0 THEN 1 ELSE range(x) IN
  gap(s) * width(r) > gap(r) * width(s)

(* recalculateWeights: of two signals, the one that lifts more is the top  *)
(* quartile, the other the bottom one; the organic score is the first of   *)
(* equals.                                                                 *)
Boosted(w) == Clamped(Rounded(w * 105, 100), 300, 2500)
Decayed(w) == Clamped(Rounded(w * 95, 100), 300, 2500)

Reweigh ==
  /\ pass.at = "weigh"
  /\ LET perf == pass.data.records
         wins == {t \in Known(perf) : perf[t].pnl >= 0}
         losses == Known(perf) \ wins
         top == IF LiftsMore("fee", "organic", perf, wins, losses) THEN "fee" ELSE "organic" IN
     weights' = IF Cardinality(Known(perf)) >= MinSamples /\ wins # {} /\ losses # {}
                THEN [s \in Signals |-> IF s = top THEN Boosted(weights[s]) ELSE Decayed(weights[s])]
                ELSE weights
  /\ pass' = NoPass
  /\ UNCHANGED <<file, memory, floors, history>>

-----------------------------------------------------------------------------
\* Mutant: records that were settled already are settled again.
WaitingEver(records) == {t \in Known(records) : TRUE}

Waiting(records) == {t \in Traded : records[t].status = "pending"}

(* settleTradeLiquidation, abandonTradeLiquidation and reconcileOrphaned-  *)
(* PendingSwaps load the file; the records they are about are the one a    *)
(* queue entry names, or those that wait for the swap of one token.        *)
PassStarts ==
  /\ pass = NoPass
  /\ \E kind \in {"settle", "abandon", "orphans"}, T \in SUBSET Waiting(file.records) \ {{}} :
       pass' = [at |-> "each", kind |-> kind, copy |-> file, todo |-> T, taught |-> FALSE]
  /\ UNCHANGED <<file, memory, floors, weights, history>>

\* Mutant: an orphan leaves no trace in pool memory.
RememberedUnlessOrphan(t, r) ==
  IF pass.kind = "orphans" THEN UNCHANGED memory
  ELSE Remember(t, r.kind, IF pass.kind = "abandon" THEN "other" ELSE Why[r.kind])

(* What was abandoned is remembered as that, not for why it was closed: it *)
(* starts no cooldown and ends a run of closes out of range.               *)
Remembered(t, r) == Remember(t, r.kind, IF pass.kind = "abandon" THEN "other" ELSE Why[r.kind])

(* One record of the copy, its lesson, and its entry in pool memory, which *)
(* is saved at once.  One lesson tells of all that was abandoned.          *)
PassNext ==
  /\ pass.at = "each"
  /\ \E t \in pass.todo : \E pnl \in Results[pass.copy.records[t].kind] :
       LET r == [pass.copy.records[t] EXCEPT
                   !.status = IF pass.kind = "settle" THEN "realized" ELSE "lost", !.pnl = pnl]
           teaches == \/ pass.kind = "settle" /\ Teaches(pnl, r.kind)
                      \/ pass.kind = "abandon" /\ ~pass.taught IN
       /\ Remembered(t, r)
       /\ pass' = [pass EXCEPT !.copy = [records |-> [@.records EXCEPT ![t] = r],
                                         lessons |-> @.lessons \cup (IF teaches THEN {t} ELSE {}),
                                         pinned |-> @.pinned],
                               !.todo = @ \ {t}, !.taught = TRUE,
                               !.at = IF pass.todo = {t} THEN "save" ELSE @]
  /\ UNCHANGED <<file, floors, weights, history>>

(* No await lies between the last record and the save.                     *)
PassSaves ==
  /\ pass.at = "save"
  /\ file' = pass.copy
  /\ pass' = NoPass
  /\ UNCHANGED <<memory, floors, weights, history>>

-----------------------------------------------------------------------------
(* addLesson, pinLesson and unpinLesson, removeLessonsByKeyword,           *)
(* clearAllLessons, clearPerformance.                                      *)
Copied == pass.at \in {"each", "save"}

Edited(X) ==
  /\ pass.at # "save" /\ edits < Edits
  /\ edits' = edits + 1
  /\ raced' = IF Copied THEN raced \cup X ELSE raced
  /\ UNCHANGED <<memory, floors, weights, pass, closed, cut>>

AddLesson(n) ==
  /\ n \notin file.lessons /\ n \notin wanted.lessons
  /\ Edited({n})
  /\ file' = [file EXCEPT !.lessons = @ \cup {n}]
  /\ wanted' = [wanted EXCEPT !.lessons = @ \cup {n}]

PinLesson(n) ==
  /\ n \in file.lessons
  /\ Edited({n})
  /\ \E pin \in BOOLEAN :
       LET mark(pinned) == IF pin THEN pinned \cup {n} ELSE pinned \ {n} IN
       /\ file' = [file EXCEPT !.pinned = mark(@)]
       /\ wanted' = [wanted EXCEPT !.pinned = mark(@)]

(* A keyword may match any lessons; `all' of them matches clearAllLessons. *)
RemoveLessons ==
  /\ Edited(Notes)
  /\ \E L \in {file.lessons} \cup {{n} : n \in file.lessons \cap Notes} :
       /\ L # {}
       /\ file' = [file EXCEPT !.lessons = @ \ L, !.pinned = @ \ L]
       /\ wanted' = [wanted EXCEPT !.lessons = @ \ L, !.pinned = @ \ L]

ClearPerformance ==
  /\ Known(file.records) # {}
  /\ Edited(Traded)
  /\ file' = [file EXCEPT !.records = [t \in Traded |-> None]]
  /\ UNCHANGED wanted

(* The process ends: the pass is lost, and what it had saved of pool       *)
(* memory, or not yet, is not known to its successor.                      *)
CutOff ==
  /\ pass # NoPass /\ edits < Edits
  /\ edits' = edits + 1
  /\ cut' = cut \cup (IF Copied THEN Waiting(file.records)
                      ELSE IF pass.at = "record" THEN {pass.of} ELSE {})
  /\ pass' = NoPass
  /\ UNCHANGED <<file, memory, floors, weights, closed, wanted, raced>>

-----------------------------------------------------------------------------
LearnInit ==
  /\ \E N \in SUBSET Notes :
       /\ file = [lessons |-> N, pinned |-> {}, records |-> [t \in Traded |-> None]]
       /\ wanted = [lessons |-> N, pinned |-> {}]
  /\ deploys = [p \in Pools |-> <<>>]
  /\ poolRest = [p \in Pools |-> 0] /\ tokenRest = 0
  /\ floors = [fee |-> Fee0, organic |-> Organic0]
  /\ weights = [s \in Signals |-> 1000]
  /\ pass = NoPass
  /\ closed = {}
  /\ raced = {} /\ cut = {} /\ edits = 0

LearnNext ==
  \/ \E t \in Traded : CloseTrade(t) \/ CloseDropped(t)
  \/ Recorded \/ Evolve \/ Reweigh
  \/ PassStarts \/ PassNext \/ PassSaves
  \/ \E n \in Notes : AddLesson(n) \/ PinLesson(n)
  \/ RemoveLessons \/ ClearPerformance
  \/ CutOff \/ HourPasses

LearnSpec == LearnInit /\ [][LearnNext]_learnVars

-----------------------------------------------------------------------------
Statuses == {"none", "pending"} \cup Settled
Origins == Traded \cup Notes \cup {Evolution}
Files == [lessons : SUBSET Origins, pinned : SUBSET Notes,
          records : [Traded -> [status : Statuses, pnl : Int, kind : Kinds]]]

UpFrom(x, most) == x..(IF x > most THEN x ELSE most)
WeightRange == 300..2500

(* The types, and the bounds of the weights and of the floors, which the   *)
(* code clamps after each change.                                          *)
LearnTypeOK ==
  /\ file \in Files
  /\ deploys \in [Pools -> Seq(Deploys)]
  /\ poolRest \in [Pools -> Nat] /\ tokenRest \in Nat
  /\ floors \in [fee : UpFrom(Fee0, 1000), organic : UpFrom(Organic0, 90)]
  /\ weights \in [Signals -> WeightRange]
  /\ pass.at \in {"idle", "record", "evolve", "weigh", "each", "save"}
  /\ Copied => /\ pass.copy \in Files
               /\ \A t \in pass.todo : pass.copy.records[t].status = "pending"
  /\ closed \subseteq Traded /\ raced \subseteq Traded \cup Notes /\ cut \subseteq Traded
  /\ wanted \in [lessons : SUBSET Notes, pinned : SUBSET Notes]
  /\ edits \in 0..Edits

CountOf(t) == Cardinality({i \in DOMAIN deploys[PoolOf[t]] : deploys[PoolOf[t]][i].of = t})

(* lessons.ts:1012, recordPoolDeploy ("Idempotent: the record leaves       *)
(* closed_pending_swap on this pass"): no trade is counted twice in the    *)
(* statistics of its pool, however its record came to be final and whatever *)
(* was cleared meanwhile, unless a crash fell between the two files.       *)
CountedOnce == \A t \in Traded \ cut : CountOf(t) <= 1

(* lessons.ts:1009, reconcileOrphanedPendingSwaps ("without this the loss  *)
(* never reaches pool-memory"): once its record is final, a trade has been *)
(* counted.                                                                *)
FinalIsCounted ==
  \A t \in Traded \ cut :
    (file.records[t].status \in Settled /\ ~(pass.at = "record" /\ pass.of = t)) => CountOf(t) >= 1

(* lessons.ts:138, recordPerformance ("never derive positive lessons for   *)
(* pending unliquidated trades"): neither a lesson nor pool memory tells   *)
(* of a trade that waits for its swap, but for a pass that was cut off.    *)
PendingStaysSilent ==
  \A t \in Traded \ cut :
    file.records[t].status = "pending" /\ ~Copied => t \notin file.lessons /\ CountOf(t) = 0

(* lessons.ts, load and save: what the operator wrote, pinned or removed   *)
(* stays written, pinned or removed, whatever passes come between, if it   *)
(* was not done while one of them held a copy of the file.                 *)
EditsHold ==
  \A n \in Notes \ raced :
    /\ n \in file.lessons <=> n \in wanted.lessons
    /\ n \in file.pinned <=> n \in wanted.pinned

(* lessons.ts:416, evolveThresholds ("Set floor just below worst winner"): *)
(* no evolution raises the organic floor above a winner it learned from.   *)
(* (A configured floor below 60 is raised to 60 whatever the winners are.) *)
FloorsSpareWinners ==
  [][floors.organic >= 60 /\ floors'.organic # floors.organic
       => \A t \in Winners(pass.data.records) :
            Organic[pass.data.records[t].kind] >= floors'.organic]_learnVars

(* pool-memory.ts:188, recordPoolDeploy ("pool and token should not be     *)
(* redeployed immediately"): with the same hours for all cooldowns of a    *)
(* token, nothing but time shortens one that runs.                         *)
TokenRests ==
  [][StopHours = OorHours /\ tokenRest' < tokenRest => HourPasses]_learnVars

(* The two files agree about every trade and keep what the operator wrote, *)
(* wherever an edit or a crash comes.                                      *)
MemoryIsTrue ==
  LearnTypeOK /\ CountedOnce /\ FinalIsCounted /\ PendingStaysSilent /\ EditsHold

(* What was learned is not overdone: thresholds keep the winners, and      *)
(* cooldowns last.                                                         *)
LearningIsMild == FloorsSpareWinners /\ TokenRests
=============================================================================
