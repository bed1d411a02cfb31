----------------------------- MODULE RecordProofs -----------------------------
(***************************************************************************)
(* Proofs about the records of the trades: how a record is settled         *)
(* (Liquidation), and what is learned from it (Learning).                  *)
(***************************************************************************)
EXTENDS Liquidation, Learning, FiniteSetTheorems, WellFoundedInduction, TLAPS

-----------------------------------------------------------------------------
(***************************************************************************)
(* Proofs about module Liquidation, for any number of trades and mints.    *)
(***************************************************************************)

USE DEF Levels, States, NoPosition

LEMMA PositionsAreNumbers == Positions \subseteq Nat /\ NoPosition \notin Positions
BY LiquidationAssumption DEF Positions

(* The job in progress is well formed before and after every step. *)
LEMMA IdleType == Idle \in Jobs
BY DEF Idle, Jobs

LEMMA SwappingType ==
  ASSUME NEW tool \in {"close", "claim"}, NEW m \in Mints, NEW p \in Positions \cup {NoPosition}
  PROVE  Swapping(tool, m, p) \in Jobs
BY DEF Swapping, Idle, Jobs

(* A job that deals with a token names it. *)
JobOK(j) ==
  /\ j \in Jobs
  /\ j.at \in {"swap", "sold", "settle", "failed", "writeOff"} => j.mint \in Mints

LEMMA IdleOK == JobOK(Idle)
<1>1. Idle.at = "idle" BY DEF Idle
<1> QED BY <1>1, IdleType DEF JobOK

LEMMA ContinueType ==
  ASSUME JobOK(job), Continue PROVE JobOK(job')
BY IdleType DEF Continue, JobOK, Jobs, Idle

LEMMA ReadsType ==
  ASSUME wallet \in [Mints -> Levels], NEW r \in Reads
  PROVE  r.seen \in [Mints -> Levels] /\ r.whole \in BOOLEAN
<1>1. PICK M \in SUBSET Mints, whole \in BOOLEAN : r = Scan(M, whole) BY DEF Reads, Lacking, Outdated
<1> QED BY <1>1 DEF Scan

(* The flags of a job: these are for Zenon, which knows Boolean fields. *)
LEMMA DeadType ==
  ASSUME NEW j \in Jobs, NEW dead \in BOOLEAN
  PROVE  [j EXCEPT !.at = "failed", !.dead = dead] \in Jobs
BY Zenon DEF Jobs

LEMMA SoldType ==
  ASSUME NEW j \in Jobs, NEW kept \in SUBSET Positions
  PROVE  [j EXCEPT !.at = "sold", !.kept = kept] \in Jobs
BY Zenon DEF Jobs

LEMMA BeginType ==
  ASSUME NEW tool \in {"batch", "sweep"}, NEW todo \in SUBSET Mints, NEW seen \in [Mints -> Levels],
         NEW whole \in BOOLEAN
  PROVE  /\ [Idle EXCEPT !.at = "next", !.tool = tool, !.todo = todo] \in Jobs
         /\ [Idle EXCEPT !.at = "next", !.tool = tool, !.seen = seen, !.whole = whole, !.todo = todo]
              \in Jobs
<1>1. [Idle EXCEPT !.at = "next", !.tool = tool, !.todo = todo] \in Jobs
  BY IdleType, Zenon DEF Jobs
<1>2. [Idle EXCEPT !.at = "next", !.tool = tool, !.seen = seen, !.whole = whole, !.todo = todo] \in Jobs
  BY IdleType, Zenon DEF Jobs
<1> QED BY <1>1, <1>2

(* Whom a settlement or a write-off concerns has not been settled yet. *)
LEMMA TargetsArePending ==
  ASSUME NEW m, NEW pos, NEW p \in Targets(m, pos)
  PROVE  p \in Positions /\ record[p] = "pending"
BY DEF Targets, Pending, Of

-----------------------------------------------------------------------------
LEMMA TypeInit == Init => TypeOK
<1> SUFFICES ASSUME Init PROVE TypeOK OBVIOUS
<1>1. JobOK(job) BY IdleOK DEF Init
<1>2. attempts \in [Mints -> 0..MaxAttempts] /\ budget \in 0..Budget
  BY LiquidationAssumption DEF Init
<1>3. /\ mint \in [Positions -> Mints] /\ wallet \in [Mints -> Levels]
      /\ status \in [Mints -> States] /\ position \in [Mints -> Positions \cup {NoPosition}]
      /\ record \in [Positions -> {"open", "pending", "realized", "lost"}]
  BY DEF Init
<1>4. /\ unsold \subseteq Positions /\ sold \subseteq Positions \ unsold /\ recent \subseteq Mints
      /\ owed \subseteq Positions
  BY DEF Init
<1> QED BY <1>1, <1>2, <1>3, <1>4 DEF TypeOK, JobOK

LEMMA SwapJobs == ASSUME JobOK(job), Swap PROVE JobOK(job')
<1>1. CASE SwapSkips BY <1>1, ContinueType DEF SwapSkips, JobOK, Jobs
<1>2. CASE SwapConfirms
  <2>1. PICK kept \in SUBSET (unsold \cap Of(job.mint)) : job' = [job EXCEPT !.at = "sold", !.kept = kept]
    BY <1>2 DEF SwapConfirms
  <2>2. kept \in SUBSET Positions BY DEF Of
  <2>3. job.mint \in Mints BY <1>2 DEF SwapConfirms, JobOK
  <2>4. job' \in Jobs BY <2>1, <2>2, SoldType DEF JobOK
  <2>5. job'.mint \in Mints BY <2>1, <2>3 DEF JobOK, Jobs
  <2> QED BY <2>4, <2>5 DEF JobOK
<1>3. CASE SwapLanded BY <1>3, ContinueType DEF SwapLanded
<1>4. CASE SwapFails
  <2>1. job.mint \in Mints BY <1>4 DEF SwapFails, JobOK
  <2>2. PICK dead \in BOOLEAN :
          IF job.tool = "sweep" THEN job' = [job EXCEPT !.at = "failed", !.dead = dead] ELSE Continue
    BY <1>4 DEF SwapFails, Unroutable
  <2>3. CASE job.tool = "sweep"
    <3>1. job' \in Jobs BY <2>2, <2>3, DeadType DEF JobOK
    <3>2. job'.mint \in Mints BY <2>1, <2>2, <2>3 DEF JobOK, Jobs
    <3> QED BY <3>1, <3>2 DEF JobOK
  <2>4. CASE job.tool # "sweep" BY <2>2, <2>4, ContinueType
  <2> QED BY <2>3, <2>4
<1> QED BY <1>1, <1>2, <1>3, <1>4 DEF Swap

(* The bookkeeping and the work of a batch or a sweep. *)
LEMMA BookJobs == ASSUME TypeOK, JobOK(job), JobStep PROVE JobOK(job')
<1> USE DEF TypeOK
<1>1. CASE Swap BY <1>1, SwapJobs
<1>2. CASE MarkSuccess
  <2>1. job.mint \in Mints BY <1>2 DEF MarkSuccess, JobOK
  <2>2. position[job.mint] \in Positions \cup {NoPosition} BY <2>1
  <2>3. CASE Continue BY <2>3, ContinueType
  <2>4. CASE job' = [job EXCEPT !.at = "settle", !.pos = position[job.mint]]
    BY <2>1, <2>2, <2>4 DEF JobOK, Jobs
  <2> QED BY <1>2, <2>3, <2>4 DEF MarkSuccess
<1>3. CASE Settle BY <1>3, ContinueType DEF Settle
<1>4. CASE WriteOff BY <1>4, ContinueType DEF WriteOff
<1>5. CASE MarkAttempt
  <2>1. job.mint \in Mints BY <1>5 DEF MarkAttempt, JobOK
  <2>2. position[job.mint] \in Positions \cup {NoPosition} BY <2>1
  <2>3. \/ job' = [job EXCEPT !.at = "writeOff", !.pos = position[job.mint]]
        \/ Continue
    BY <1>5 DEF MarkAttempt
  <2>4. CASE job' = [job EXCEPT !.at = "writeOff", !.pos = position[job.mint]]
    BY <2>1, <2>2, <2>4 DEF JobOK, Jobs
  <2>5. CASE Continue BY <2>5, ContinueType
  <2> QED BY <2>3, <2>4, <2>5
<1>6. CASE BatchNext
  <2>1. CASE job' = Idle BY <2>1, IdleOK
  <2>2. ASSUME NEW m \in job.todo, job' = [job EXCEPT !.at = "swap", !.mint = m, !.todo = @ \ {m}]
        PROVE  JobOK(job')
    BY <2>2 DEF JobOK, Jobs
  <2> QED BY <1>6, <2>1, <2>2 DEF BatchNext
<1>7. CASE SweepPrunes
  <2>1. CASE job' = Idle BY <2>1, IdleOK
  <2>2. CASE job' = [job EXCEPT !.at = "reconcile"] BY <2>2 DEF JobOK, Jobs
  <2> QED BY <1>7, <2>1, <2>2 DEF SweepPrunes
<1>8. CASE Reconcile BY <1>8, IdleOK DEF Reconcile
<1>9. ASSUME NEW m \in Mints, SweepNext(m) PROVE JobOK(job')
  <2> DEFINE rest == [job EXCEPT !.todo = @ \ {m}, !.mint = m]
  <2>1. rest \in Jobs /\ rest.mint = m BY DEF JobOK, Jobs
  <2>2. rest.at = "next" BY <1>9 DEF SweepNext, JobOK, Jobs
  <2>3. position[m] \in Positions \cup {NoPosition} OBVIOUS
  <2>4. \/ job' = [rest EXCEPT !.at = "settle", !.pos = position[m]]
        \/ job' = rest
        \/ job' = [rest EXCEPT !.at = "swap"]
    BY <1>9 DEF SweepNext
  <2> HIDE DEF rest
  <2>5. CASE job' = [rest EXCEPT !.at = "settle", !.pos = position[m]]
    BY <2>1, <2>3, <2>5 DEF JobOK, Jobs
  <2>6. CASE job' = rest BY <2>1, <2>2, <2>6 DEF JobOK
  <2>7. CASE job' = [rest EXCEPT !.at = "swap"] BY <2>1, <2>7 DEF JobOK, Jobs
  <2> QED BY <2>4, <2>5, <2>6, <2>7
<1> QED BY <1>1, <1>2, <1>3, <1>4, <1>5, <1>6, <1>7, <1>8, <1>9 DEF JobStep

(* So are the steps that begin a job. *)
LEMMA StartJobs ==
  ASSUME TypeOK, (\E p \in Positions : Close(p) \/ Claim(p)) \/ SwapAll \/ Sweep
  PROVE  JobOK(job')
<1> USE DEF TypeOK
<1>1. ASSUME NEW tool \in {"close", "claim"}, NEW m \in Mints, NEW q \in Positions \cup {NoPosition}
      PROVE  JobOK(Swapping(tool, m, q))
  <2>1. Swapping(tool, m, q).mint = m BY DEF Swapping, Idle
  <2> QED BY <2>1, SwappingType DEF JobOK
<1>3. ASSUME NEW p \in Positions, Close(p) PROVE JobOK(job')
  <2>1. mint[p] \in Mints OBVIOUS
  <2> QED BY <1>1, <1>3, <2>1, IdleOK DEF Close, AfterClose
<1>4. ASSUME NEW p \in Positions, Claim(p) PROVE JobOK(job')
  <2>1. mint[p] \in Mints OBVIOUS
  <2> QED BY <1>1, <1>4, <2>1, IdleOK DEF Claim
<1>5. CASE SwapAll
  <2>1. PICK r \in Reads :
          job' = [Idle EXCEPT !.at = "next", !.tool = "batch", !.todo = {m \in Mints : r.seen[m] = "some"}]
    BY <1>5 DEF SwapAll
  <2>2. job' \in Jobs BY <2>1, BeginType
  <2>3. job'.at = "next" BY <2>1 DEF Idle
  <2> QED BY <2>2, <2>3 DEF JobOK
<1>6. CASE Sweep
  <2>1. PICK r \in Reads :
          job' = [Idle EXCEPT !.at = "next", !.tool = "sweep", !.seen = r.seen, !.whole = r.whole,
                              !.todo = {m \in Mints : status'[m] = "pending"}]
    BY <1>6 DEF Sweep
  <2>2. job' \in Jobs BY <2>1, BeginType, ReadsType
  <2>3. job'.at = "next" BY <2>1 DEF Idle
  <2> QED BY <2>2, <2>3 DEF JobOK
<1> QED BY <1>3, <1>4, <1>5, <1>6

LEMMA JobsTyped == ASSUME TypeOK, [Next]_vars PROVE JobOK(job')
<1>1. JobOK(job) BY DEF TypeOK, JobOK
<1>2. CASE JobStep BY <1>1, <1>2, BookJobs
<1>3. CASE DayPasses \/ \E m \in Mints : PriceMoves(m) BY <1>1, <1>3 DEF DayPasses, PriceMoves
<1>4. CASE Crash BY <1>4, IdleOK DEF Crash
<1>5. CASE UNCHANGED vars BY <1>1, <1>5 DEF vars
<1> QED BY <1>2, <1>3, <1>4, <1>5, StartJobs DEF Next

-----------------------------------------------------------------------------
(* The type alone is not inductive, for `sold' and `unsold' are disjoint   *)
(* because only a position whose record is open adds tokens to the wallet. *)
HeldIsClosed == \A p \in unsold \cup sold : record[p] # "open"

Inv == TypeOK /\ HeldIsClosed

(* The rest of the type, by file. *)
WalletOK ==
  /\ wallet \in [Mints -> Levels]
  /\ unsold \subseteq Positions /\ sold \subseteq Positions \ unsold

QueueOK ==
  /\ status \in [Mints -> States] /\ position \in [Mints -> Positions \cup {NoPosition}]
  /\ attempts \in [Mints -> 0..MaxAttempts] /\ recent \subseteq Mints

RecordsOK ==
  /\ record \in [Positions -> {"open", "pending", "realized", "lost"}]
  /\ owed \subseteq Positions

LEMMA BudgetTyped == ASSUME TypeOK, [Next]_vars
                     PROVE  mint' \in [Positions -> Mints] /\ budget' \in 0..Budget
<1> USE LiquidationAssumption DEF TypeOK
<1>1. /\ mint' = mint
      /\ budget' = budget \/ (budget > 0 /\ budget' = budget - 1)
  BY DEF Next, JobStep, Swap, Close, Claim, SwapAll, Sweep, Costs, DayPasses, Crash, PriceMoves, SwapSkips,
         SwapConfirms, SwapLanded, SwapFails, MarkSuccess, Settle, WriteOff, MarkAttempt, BatchNext,
         SweepPrunes, Reconcile, SweepNext, vars
<1> QED BY <1>1

LEMMA WalletTyped == ASSUME Inv, [Next]_vars PROVE WalletOK'
<1> USE DEF Inv, TypeOK, WalletOK
<1>1. CASE UNCHANGED walletVars BY <1>1 DEF walletVars
<1>2. ASSUME NEW p \in Positions, Close(p) PROVE WalletOK'
  <2>1. p \notin sold BY <1>2 DEF Close, HeldIsClosed
  <2>2. wallet' \in [Mints -> Levels] BY <1>2 DEF Close
  <2>3. sold' = sold /\ (unsold' = unsold \/ unsold' = unsold \cup {p}) BY <1>2 DEF Close
  <2> QED BY <2>1, <2>2, <2>3
<1>3. ASSUME NEW p \in Positions, Claim(p) PROVE WalletOK' BY <1>3 DEF Claim
<1>4. ASSUME NEW m, NEW kept \in SUBSET (unsold \cap Of(m)), NEW rest \in Levels, Sells(m, kept, rest)
      PROVE  WalletOK'
  BY <1>4 DEF Sells, Of
<1>5. CASE SwapConfirms BY <1>4, <1>5 DEF SwapConfirms
<1>6. CASE SwapLanded BY <1>4, <1>6 DEF SwapLanded
<1>7. CASE SwapFails BY <1>1, <1>4, <1>7 DEF SwapFails
<1>8. ASSUME NEW m \in Mints, PriceMoves(m) PROVE WalletOK' BY <1>8 DEF PriceMoves
<1>9. CASE SwapAll \/ Sweep \/ DayPasses \/ Crash
  BY <1>1, <1>9 DEF SwapAll, Sweep, DayPasses, Crash, walletVars
<1>10. CASE JobStep
  BY <1>1, <1>5, <1>6, <1>7, <1>10
     DEF JobStep, Swap, SwapSkips, MarkSuccess, Settle, WriteOff, MarkAttempt, BatchNext, SweepPrunes,
         Reconcile, SweepNext
<1> QED BY <1>1, <1>2, <1>3, <1>8, <1>9, <1>10 DEF Next, vars

LEMMA EnqueueTyped ==
  ASSUME TypeOK, NEW M \in SUBSET Mints, NEW p \in Positions \cup {NoPosition},
         NEW st \in States, Enqueue(M, p, st)
  PROVE  QueueOK'
BY DEF TypeOK, QueueOK, Enqueue

LEMMA QueueTyped == ASSUME TypeOK, [Next]_vars PROVE QueueOK'
<1> USE DEF TypeOK, QueueOK
<1>1. CASE UNCHANGED queueVars BY <1>1 DEF queueVars
<1>2. CASE SwapFails
  <2>1. job.mint \in Mints BY <1>2 DEF SwapFails
  <2>2. job.pos \in Positions \cup {NoPosition} BY DEF Jobs
  <2> QED BY <1>2, <2>1, <2>2, EnqueueTyped DEF SwapFails
<1>3. CASE Sweep
  <2> DEFINE new(r) == {m \in Mints : r.seen[m] # "none" /\ status[m] \in {"none", "liquidated"}}
  <2>1. PICK r \in Reads : Enqueue(new(r), NoPosition, "pending") BY <1>3 DEF Sweep
  <2>2. new(r) \in SUBSET Mints OBVIOUS
  <2> HIDE DEF new
  <2> QED BY <2>1, <2>2, EnqueueTyped
<1>4. CASE MarkSuccess BY <1>4 DEF MarkSuccess
<1>5. CASE MarkAttempt
  <2> DEFINE count == IF attempts[job.mint] < MaxAttempts THEN attempts[job.mint] + 1 ELSE MaxAttempts
  <2>1. job.mint \in Mints BY <1>5 DEF MarkAttempt
  <2>2. count \in 0..MaxAttempts BY <2>1, LiquidationAssumption
  <2>3. /\ attempts' = [attempts EXCEPT ![job.mint] = count]
        /\ recent' = recent \cup {job.mint} /\ position' = position
        /\ status' = [status EXCEPT ![job.mint] = "abandoned"] \/ status' = status
    BY <1>5 DEF MarkAttempt
  <2> HIDE DEF count
  <2> QED BY <2>1, <2>2, <2>3
<1>6. CASE SweepPrunes
  <2>1. 0 \in 0..MaxAttempts BY LiquidationAssumption
  <2> QED BY <1>6, <2>1 DEF SweepPrunes
<1>7. ASSUME NEW m \in Mints, SweepNext(m) PROVE QueueOK' BY <1>7 DEF SweepNext
<1>8. CASE DayPasses BY <1>8 DEF DayPasses
<1>9. CASE JobStep
  BY <1>1, <1>2, <1>4, <1>5, <1>6, <1>7, <1>9
     DEF JobStep, Swap, SwapSkips, SwapConfirms, SwapLanded, Settle, WriteOff, BatchNext, Reconcile
<1>10. CASE SwapAll \/ Crash BY <1>1, <1>10 DEF SwapAll, Crash
<1>11. ASSUME NEW p \in Positions, Close(p) \/ Claim(p) PROVE QueueOK' BY <1>1, <1>11 DEF Close, Claim
<1>12. ASSUME NEW m \in Mints, PriceMoves(m) PROVE QueueOK' BY <1>1, <1>12 DEF PriceMoves
<1> QED BY <1>1, <1>3, <1>8, <1>9, <1>10, <1>11, <1>12 DEF Next, vars

(* What any step does to a record: only an open one or a pending one       *)
(* changes, and none becomes open again.                                   *)
RecordsGrow ==
  \A p \in Positions :
    /\ record[p] \in {"realized", "lost"} => record'[p] = record[p]
    /\ record'[p] = "open" => record[p] = "open"

LEMMA RecordsTyped == ASSUME TypeOK, [Next]_vars PROVE RecordsOK' /\ RecordsGrow
<1> USE DEF TypeOK, RecordsOK, RecordsGrow
<1>1. CASE UNCHANGED recordVars BY <1>1 DEF recordVars
<1>2. ASSUME NEW p \in Positions, Close(p) PROVE RecordsOK' /\ RecordsGrow
  BY <1>2 DEF Close, CloseStatus
<1>3. CASE Settle
  <2>1. record' = [p \in Positions |-> IF p \in Targets(job.mint, job.pos) THEN "realized" ELSE record[p]]
    BY <1>3 DEF Settle
  <2>2. owed' \subseteq owed BY <1>3 DEF Settle
  <2> QED BY <2>1, <2>2, TargetsArePending
<1>4. CASE WriteOff
  <2>1. record' = [p \in Positions |-> IF p \in Targets(job.mint, job.pos) THEN "lost" ELSE record[p]]
    BY <1>4 DEF WriteOff
  <2>2. owed' = owed BY <1>4 DEF WriteOff
  <2> QED BY <2>1, <2>2, TargetsArePending
<1>5. CASE Reconcile BY <1>5 DEF Reconcile, Orphans
<1>6. CASE JobStep
  BY <1>1, <1>3, <1>4, <1>5, <1>6
     DEF JobStep, Swap, SwapSkips, SwapConfirms, SwapLanded, SwapFails, MarkSuccess, MarkAttempt,
         BatchNext, SweepPrunes, SweepNext
<1>7. CASE SwapAll \/ DayPasses \/ Crash BY <1>1, <1>7 DEF SwapAll, DayPasses, Crash
<1>10. CASE Sweep
  <2>1. owed' \subseteq owed /\ UNCHANGED record BY <1>10 DEF Sweep
  <2> QED BY <2>1
<1>8. ASSUME NEW p \in Positions, Claim(p) PROVE RecordsOK' /\ RecordsGrow BY <1>1, <1>8 DEF Claim
<1>9. ASSUME NEW m \in Mints, PriceMoves(m) PROVE RecordsOK' /\ RecordsGrow BY <1>1, <1>9 DEF PriceMoves
<1> QED BY <1>1, <1>2, <1>6, <1>7, <1>8, <1>9, <1>10 DEF Next, vars

(* Tokens come from a position when its record stops being open. *)
LEMMA NewTokens ==
  ASSUME TypeOK, [Next]_vars
  PROVE  \A q \in (unsold' \cup sold') \ (unsold \cup sold) : record'[q] # "open"
<1>1. ASSUME NEW p \in Positions, Close(p)
      PROVE  \A q \in (unsold' \cup sold') \ (unsold \cup sold) : record'[q] # "open"
  <2>1. record'[p] # "open" BY <1>1 DEF TypeOK, Close, CloseStatus
  <2>2. (unsold' \cup sold') \ (unsold \cup sold) \subseteq {p} BY <1>1 DEF Close
  <2> QED BY <2>1, <2>2
<1>2. CASE (unsold' \cup sold') \subseteq unsold \cup sold BY <1>2
<1>3. CASE JobStep
  BY <1>2, <1>3
     DEF JobStep, Swap, SwapSkips, SwapConfirms, SwapLanded, SwapFails, Sells, MarkSuccess, Settle,
         WriteOff, MarkAttempt, BatchNext, SweepPrunes, Reconcile, SweepNext, walletVars
<1>4. CASE \/ \E p \in Positions : Claim(p)
           \/ SwapAll \/ Sweep \/ DayPasses \/ Crash \/ \E m \in Mints : PriceMoves(m)
  BY <1>2, <1>4 DEF Claim, SwapAll, Sweep, DayPasses, Crash, PriceMoves, walletVars
<1>5. CASE UNCHANGED vars BY <1>2, <1>5 DEF vars, walletVars
<1> QED BY <1>1, <1>3, <1>4, <1>5 DEF Next

-----------------------------------------------------------------------------
LEMMA InvInit == Init => Inv
BY TypeInit DEF Init, Inv, HeldIsClosed

LEMMA InvStep == Inv /\ [Next]_vars => Inv'
<1> SUFFICES ASSUME Inv, [Next]_vars PROVE Inv' OBVIOUS
<1>1. TypeOK BY DEF Inv
<1>2. TypeOK'
  <2>1. JobOK(job') BY <1>1, JobsTyped
  <2>2. WalletOK' BY WalletTyped
  <2>3. QueueOK' BY <1>1, QueueTyped
  <2>4. RecordsOK' BY <1>1, RecordsTyped
  <2>5. mint' \in [Positions -> Mints] /\ budget' \in 0..Budget BY <1>1, BudgetTyped
  <2> QED BY <2>1, <2>2, <2>3, <2>4, <2>5 DEF TypeOK, JobOK, WalletOK, QueueOK, RecordsOK
<1>3. HeldIsClosed'
  <2>1. \A q \in (unsold' \cup sold') \ (unsold \cup sold) : record'[q] # "open" BY <1>1, NewTokens
  <2>2. \A q \in unsold \cup sold : record'[q] # "open"
    BY <1>1, RecordsTyped DEF Inv, HeldIsClosed, TypeOK, RecordsGrow
  <2> QED BY <2>1, <2>2 DEF HeldIsClosed
<1> QED BY <1>2, <1>3 DEF Inv

(* Liquidation's types hold for any number of positions, mints and         *)
(* attempts: among them, no step marks the tokens of a position both held  *)
(* and sold, although swaps may sell a part, and no bookkeeping step runs  *)
(* without the mint it is about.                                           *)
THEOREM LiquidationTypes == Spec => []TypeOK
<1>1. Init => Inv BY InvInit
<1>2. Inv /\ [Next]_vars => Inv' BY InvStep
<1>3. Inv => TypeOK BY DEF Inv
<1> QED BY <1>1, <1>2, <1>3, PTL DEF Spec

(* lessons.ts: whatever sales, sweeps, crashes and closes of the same mint *)
(* follow, a record that was settled or written off never changes.         *)
THEOREM SettledRecordsStay == Spec => SettledIsFinal
<1>1. TypeOK /\ [Next]_vars
        => [\A p \in Positions : record[p] \in {"realized", "lost"} => record'[p] = record[p]]_vars
  BY RecordsTyped DEF RecordsGrow
<1>2. Spec => []TypeOK BY LiquidationTypes
<1> QED BY <1>1, <1>2, PTL DEF Spec, SettledIsFinal


-----------------------------------------------------------------------------
(* What a realized record says of the wallet.                              *)

(* A job keeps to its tool and its scan until it is over. *)
KeepsScan ==
  \/ job' = Idle
  \/ /\ job'.tool = job.tool /\ job'.seen = job.seen /\ job'.whole = job.whole
     /\ job'.todo \subseteq job.todo

LEMMA IdleFields ==
  Idle.at = "idle" /\ Idle.tool = "none" /\ Idle.pos = NoPosition /\ Idle.todo = {}
BY DEF Idle

LEMMA ContinueFields ==
  ASSUME JobOK(job), Continue
  PROVE  /\ KeepsScan
         /\ \/ job' = Idle
            \/ /\ job'.at = "next" /\ job'.pos = NoPosition /\ job'.mint = job.mint
               /\ job'.todo = job.todo
BY DEF Continue, JobOK, Jobs, KeepsScan

LEMMA JobsKeepScan == ASSUME TypeOK, JobStep PROVE KeepsScan
<1>1. JobOK(job) BY DEF TypeOK, JobOK
<1>2. CASE Continue BY <1>1, <1>2, ContinueFields
<1>3. CASE SwapConfirms BY <1>1, <1>3 DEF SwapConfirms, JobOK, Jobs, KeepsScan
<1>4. ASSUME NEW at, NEW dead, job' = [job EXCEPT !.at = at, !.dead = dead] PROVE KeepsScan
  BY <1>1, <1>4 DEF JobOK, Jobs, KeepsScan
<1>5. ASSUME NEW at, NEW pos, job' = [job EXCEPT !.at = at, !.pos = pos] PROVE KeepsScan
  BY <1>1, <1>5 DEF JobOK, Jobs, KeepsScan
<1>6. CASE SwapSkips
  <2>1. CASE job' = [job EXCEPT !.at = "failed"] BY <1>1, <2>1 DEF JobOK, Jobs, KeepsScan
  <2> QED BY <1>2, <1>6, <2>1 DEF SwapSkips
<1>7. CASE SwapFails BY <1>2, <1>4, <1>7 DEF SwapFails
<1>8. CASE MarkSuccess BY <1>2, <1>5, <1>8 DEF MarkSuccess
<1>9. CASE MarkAttempt BY <1>2, <1>5, <1>9 DEF MarkAttempt
<1>10. CASE BatchNext
  <2>1. CASE job' = Idle BY <2>1 DEF KeepsScan
  <2>2. ASSUME NEW m, job' = [job EXCEPT !.at = "swap", !.mint = m, !.todo = @ \ {m}]
        PROVE  KeepsScan
    BY <1>1, <2>2 DEF JobOK, Jobs, KeepsScan
  <2> QED BY <1>10, <2>1, <2>2 DEF BatchNext
<1>11. CASE SweepPrunes BY <1>1, <1>11 DEF SweepPrunes, JobOK, Jobs, KeepsScan
<1>12. ASSUME NEW m \in Mints, SweepNext(m) PROVE KeepsScan
  <2> DEFINE rest == [job EXCEPT !.todo = @ \ {m}, !.mint = m]
  <2>1. /\ rest \in Jobs /\ rest.tool = job.tool /\ rest.seen = job.seen
        /\ rest.whole = job.whole /\ rest.todo = job.todo \ {m}
    BY <1>1 DEF JobOK, Jobs
  <2>2. \/ job' = [rest EXCEPT !.at = "settle", !.pos = position[m]]
        \/ job' = rest
        \/ job' = [rest EXCEPT !.at = "swap"]
    BY <1>12 DEF SweepNext
  <2> HIDE DEF rest
  <2>3. /\ job'.tool = rest.tool /\ job'.seen = rest.seen /\ job'.whole = rest.whole
        /\ job'.todo = rest.todo
    BY <2>1, <2>2 DEF Jobs
  <2> QED BY <2>1, <2>3 DEF KeepsScan
<1> QED BY <1>2, <1>3, <1>6, <1>7, <1>8, <1>9, <1>10, <1>11, <1>12
        DEF JobStep, Swap, SwapLanded, Settle, WriteOff, Reconcile, KeepsScan

OwedIsRecorded == \A p \in owed : record[p] # "open"

(* What is held is in the wallet. *)
HeldIsThere == \A p \in unsold : wallet[mint[p]] # "none"

(* Entries and jobs name positions of their own mint. *)
NamesItsOwn ==
  /\ \A m \in Mints : position[m] \in Positions => mint[position[m]] = m
  /\ job.pos \in Positions => mint[job.pos] = job.mint
  /\ job.at = "next" => job.pos = NoPosition

(* Before records are settled, the tokens of the mint are gone, except for *)
(* what a swap of only a part kept.                                        *)
SoldAway ==
  job.at \in {"sold", "settle"} => \A p \in unsold \cap owed : mint[p] = job.mint => p \in job.kept

(* A sweep that overlooks tokens releases their records. *)
ScanShowsOwed == job.tool = "sweep" => \A p \in unsold \cap owed : job.seen[mint[p]] # "none"

SoldInv ==
  OwedIsRecorded /\ HeldIsThere /\ NamesItsOwn /\ SoldAway /\ ScanShowsOwed /\ RealizedMeansGone

LEMMA MintStays == ASSUME [Next]_vars PROVE mint' = mint
BY DEF Next, JobStep, Swap, Close, Claim, SwapAll, Sweep, DayPasses, Crash, PriceMoves, SwapSkips,
       SwapConfirms, SwapLanded, SwapFails, MarkSuccess, Settle, WriteOff, MarkAttempt, BatchNext,
       SweepPrunes, Reconcile, SweepNext, vars

(* Only a close adds tokens or claims on them. *)
LEMMA OthersOnlyTake ==
  ASSUME [Next]_vars, ~\E p \in Positions : Close(p)
  PROVE  unsold' \subseteq unsold /\ owed' \subseteq owed
<1>1. CASE JobStep
  BY <1>1
     DEF JobStep, Swap, SwapSkips, SwapConfirms, SwapLanded, SwapFails, Sells, MarkSuccess, Settle, WriteOff, MarkAttempt, BatchNext, SweepPrunes,
         Reconcile, SweepNext, walletVars, recordVars
<1>2. CASE \/ \E p \in Positions : Claim(p)
           \/ SwapAll \/ DayPasses \/ Crash \/ \E m \in Mints : PriceMoves(m)
  BY <1>2 DEF Claim, SwapAll, DayPasses, Crash, PriceMoves, walletVars, recordVars
<1>3. CASE Sweep BY <1>3 DEF Sweep, walletVars
<1>4. CASE UNCHANGED vars BY <1>4 DEF vars, walletVars, recordVars
<1> QED BY <1>1, <1>2, <1>3, <1>4 DEF Next

LEMMA OwedStep ==
  ASSUME TypeOK, OwedIsRecorded, [Next]_vars PROVE OwedIsRecorded'
<1>1. \A p \in Positions : record'[p] = "open" => record[p] = "open"
  BY RecordsTyped DEF RecordsGrow
<1>2. owed \subseteq Positions BY DEF TypeOK
<1>3. CASE owed' \subseteq owed BY <1>1, <1>2, <1>3 DEF OwedIsRecorded
<1>4. ASSUME NEW p \in Positions, Close(p) PROVE OwedIsRecorded'
  <2>1. record'[p] # "open" BY <1>4 DEF TypeOK, Close, CloseStatus
  <2>2. owed' \subseteq owed \cup {p} BY <1>4 DEF Close
  <2> QED BY <1>1, <1>2, <2>1, <2>2 DEF OwedIsRecorded
<1> QED BY <1>3, <1>4, OthersOnlyTake

LEMMA HeldStep ==
  ASSUME TypeOK, HeldIsThere, [Next]_vars PROVE HeldIsThere'
<1> USE DEF TypeOK, HeldIsThere
<1>1. mint' = mint BY MintStays
<1>2. CASE UNCHANGED walletVars BY <1>1, <1>2 DEF walletVars
<1>3. ASSUME NEW p \in Positions, Close(p) PROVE HeldIsThere'
  <2>1. PICK got \in Levels :
          /\ wallet' = [wallet EXCEPT ![mint[p]] = IF @ = "some" \/ got = "none" THEN @ ELSE got]
          /\ unsold' = IF got = "none" THEN unsold ELSE unsold \cup {p}
    BY <1>3 DEF Close
  <2> QED BY <1>1, <2>1
<1>4. ASSUME NEW p \in Positions, Claim(p) PROVE HeldIsThere' BY <1>1, <1>4 DEF Claim
<1>5. ASSUME NEW m, NEW kept \in SUBSET (unsold \cap Of(m)), NEW rest \in Levels, Sells(m, kept, rest)
      PROVE  HeldIsThere'
  BY <1>1, <1>5 DEF Sells, Of
<1>6. ASSUME NEW m \in Mints, PriceMoves(m) PROVE HeldIsThere' BY <1>1, <1>6 DEF PriceMoves
<1>7. CASE SwapAll \/ Sweep \/ DayPasses \/ Crash
  BY <1>2, <1>7 DEF SwapAll, Sweep, DayPasses, Crash
<1>8. CASE JobStep
  <2>1. CASE SwapConfirms BY <1>5, <2>1 DEF SwapConfirms
  <2>2. CASE SwapLanded BY <1>5, <2>2 DEF SwapLanded
  <2>3. CASE SwapFails BY <1>2, <1>5, <2>3 DEF SwapFails
  <2> QED BY <1>2, <1>8, <2>1, <2>2, <2>3
          DEF JobStep, Swap, SwapSkips, MarkSuccess, Settle, WriteOff, MarkAttempt, BatchNext,
              SweepPrunes, Reconcile, SweepNext
<1> QED BY <1>2, <1>3, <1>4, <1>6, <1>7, <1>8 DEF Next, vars


LEMMA EnqueueNames ==
  ASSUME TypeOK, NamesItsOwn, NEW M \in SUBSET Mints, NEW p \in Positions \cup {NoPosition},
         NEW st, Enqueue(M, p, st), p \in Positions => \A m \in M : mint[p] = m
  PROVE  \A m \in Mints : position'[m] \in Positions => mint[position'[m]] = m
BY DEF TypeOK, NamesItsOwn, Enqueue

LEMMA NamesStep ==
  ASSUME TypeOK, NamesItsOwn, [Next]_vars PROVE NamesItsOwn'
<1> DEFINE Entries == \A m \in Mints : position'[m] \in Positions => mint[position'[m]] = m
           Named == job'.pos \in Positions => mint[job'.pos] = job'.mint
           Fresh == job'.at = "next" => job'.pos = NoPosition
<1>1. mint' = mint BY MintStays
<1>2. JobOK(job) BY DEF TypeOK, JobOK
<1>3. NoPosition \notin Positions BY PositionsAreNumbers
<1>4. Entries
  <2>1. CASE SwapFails
    <3>1. job.mint \in Mints /\ job.pos \in Positions \cup {NoPosition}
      BY <1>2, <2>1 DEF SwapFails, JobOK, Jobs
    <3>2. job.pos \in Positions => \A m \in {job.mint} : mint[job.pos] = m BY DEF NamesItsOwn
    <3>3. PICK dead \in BOOLEAN :
            Enqueue({job.mint}, job.pos, IF dead THEN "abandoned" ELSE "pending")
      BY <2>1 DEF SwapFails, Unroutable
    <3> DEFINE st == IF dead THEN "abandoned" ELSE "pending"
               M == {job.mint}
    <3>4. Enqueue(M, job.pos, st) /\ M \in SUBSET Mints BY <3>1, <3>3
    <3> HIDE DEF st, M
    <3>5. job.pos \in Positions => \A m \in M : mint[job.pos] = m BY <3>2 DEF M
    <3> QED BY <3>1, <3>4, <3>5, EnqueueNames
  <2>2. CASE Sweep
    <3>1. UNCHANGED position
      BY <2>2 DEF Sweep, Enqueue, TypeOK
    <3> QED BY <3>1 DEF NamesItsOwn
  <2>3. CASE SweepPrunes BY <1>3, <2>3 DEF SweepPrunes, NamesItsOwn, TypeOK
  <2>4. CASE UNCHANGED position BY <2>4 DEF NamesItsOwn
  <2>5. CASE JobStep
    BY <2>1, <2>3, <2>4, <2>5
       DEF JobStep, Swap, SwapSkips, SwapConfirms, SwapLanded, MarkSuccess, Settle, WriteOff,
           MarkAttempt, BatchNext, Reconcile, SweepNext, queueVars
  <2>6. CASE (\E p \in Positions : Close(p) \/ Claim(p)) \/ SwapAll \/ DayPasses \/ Crash
    BY <2>4, <2>6 DEF Close, Claim, SwapAll, DayPasses, Crash, queueVars
  <2>7. CASE \E m \in Mints : PriceMoves(m) BY <2>4, <2>7 DEF PriceMoves, queueVars
  <2>8. CASE UNCHANGED vars BY <2>4, <2>8 DEF vars, queueVars
  <2> QED BY <2>2, <2>5, <2>6, <2>7, <2>8 DEF Next
<1> HIDE DEF Entries
<1>5. CASE job' = Idle BY <1>1, <1>3, <1>4, <1>5, IdleFields DEF Entries, NamesItsOwn
<1>6. CASE Named /\ Fresh BY <1>1, <1>4, <1>6 DEF Entries, NamesItsOwn
<1>7. CASE UNCHANGED job
  <2>1. Named /\ Fresh BY <1>7 DEF NamesItsOwn
  <2> QED BY <1>6, <2>1
<1>8. CASE Continue
  <2>1. job' = Idle \/ (job'.at = "next" /\ job'.pos = NoPosition) BY <1>2, <1>8, ContinueFields
  <2> QED BY <1>3, <1>5, <1>6, <2>1
<1>9. ASSUME NEW tool, NEW m, NEW q \in Positions \cup {NoPosition},
              job' = Swapping(tool, m, q), q \in Positions => mint[q] = m
       PROVE  NamesItsOwn'
  <2>1. job'.at = "swap" /\ job'.pos = q /\ job'.mint = m BY <1>9 DEF Swapping, Idle
  <2>2. Named /\ Fresh BY <1>9, <2>1
  <2> QED BY <1>6, <2>2
<1>10. ASSUME NEW at, at # "next", job'.at = at, job'.pos = job.pos, job'.mint = job.mint
       PROVE  NamesItsOwn'
  <2>1. Named /\ Fresh BY <1>10 DEF NamesItsOwn
  <2> QED BY <1>6, <2>1
<1>11. ASSUME job.mint \in Mints, job'.at # "next", job'.pos = position[job.mint], job'.mint = job.mint
       PROVE  NamesItsOwn'
  <2>1. Named /\ Fresh BY <1>11 DEF NamesItsOwn
  <2> QED BY <1>6, <2>1
<1>12. CASE JobStep
  <2>1. CASE SwapSkips
    <3>1. CASE job' = [job EXCEPT !.at = "failed"]
      <4>1. job'.at = "failed" /\ job'.pos = job.pos /\ job'.mint = job.mint
        BY <1>2, <3>1 DEF JobOK, Jobs
      <4> QED BY <1>10, <4>1
    <3> QED BY <1>8, <2>1, <3>1 DEF SwapSkips
  <2>2. CASE SwapConfirms
    <3>1. job'.at = "sold" /\ job'.pos = job.pos /\ job'.mint = job.mint
      BY <1>2, <2>2 DEF SwapConfirms, JobOK, Jobs
    <3> QED BY <1>10, <3>1
  <2>3. CASE SwapFails
    <3>1. ASSUME NEW dead, job' = [job EXCEPT !.at = "failed", !.dead = dead] PROVE NamesItsOwn'
      <4>1. job'.at = "failed" /\ job'.pos = job.pos /\ job'.mint = job.mint
        BY <1>2, <3>1 DEF JobOK, Jobs
      <4> QED BY <1>10, <4>1
    <3> QED BY <1>8, <2>3, <3>1 DEF SwapFails
  <2>4. ASSUME job.at \in {"sold", "failed"}, NEW at, at # "next",
               job' = [job EXCEPT !.at = at, !.pos = position[job.mint]]
        PROVE  NamesItsOwn'
    <3>1. job'.at # "next" /\ job'.pos = position[job.mint] /\ job'.mint = job.mint
      BY <1>2, <2>4 DEF JobOK, Jobs
    <3>2. job.mint \in Mints BY <1>2, <2>4 DEF JobOK
    <3> QED BY <1>11, <3>1, <3>2
  <2>5. CASE MarkSuccess BY <1>8, <2>4, <2>5 DEF MarkSuccess
  <2>6. CASE MarkAttempt BY <1>8, <2>4, <2>6 DEF MarkAttempt
  <2>7. CASE BatchNext
    <3>1. ASSUME NEW m, job' = [job EXCEPT !.at = "swap", !.mint = m, !.todo = @ \ {m}]
          PROVE  NamesItsOwn'
      <4>1. job'.at = "swap" /\ job'.pos = job.pos BY <1>2, <3>1 DEF JobOK, Jobs
      <4>2. job.pos = NoPosition BY <2>7 DEF BatchNext, NamesItsOwn
      <4> QED BY <1>3, <1>6, <4>1, <4>2
    <3> QED BY <1>5, <2>7, <3>1 DEF BatchNext
  <2>8. CASE SweepPrunes
    <3>1. CASE job' = [job EXCEPT !.at = "reconcile"]
      <4>1. job'.at = "reconcile" /\ job'.pos = job.pos /\ job'.mint = job.mint
        BY <1>2, <3>1 DEF JobOK, Jobs
      <4> QED BY <1>10, <4>1
    <3> QED BY <1>5, <2>8, <3>1 DEF SweepPrunes
  <2>9. ASSUME NEW m \in Mints, SweepNext(m) PROVE NamesItsOwn'
    <3> DEFINE rest == [job EXCEPT !.todo = @ \ {m}, !.mint = m]
    <3>1. rest \in Jobs /\ rest.mint = m /\ rest.pos = job.pos /\ rest.at = job.at
      BY <1>2 DEF JobOK, Jobs
    <3>2. rest.pos = NoPosition BY <2>9, <3>1 DEF SweepNext, NamesItsOwn
    <3>3. \/ job' = [rest EXCEPT !.at = "settle", !.pos = position[m]]
          \/ job' = rest
          \/ job' = [rest EXCEPT !.at = "swap"]
      BY <2>9 DEF SweepNext
    <3> HIDE DEF rest
    <3>4. \/ job'.at = "settle" /\ job'.pos = position[m] /\ job'.mint = m
          \/ job'.pos = NoPosition
      BY <3>1, <3>2, <3>3 DEF Jobs
    <3>5. position[m] \in Positions => mint[position[m]] = m BY DEF NamesItsOwn
    <3>6. Named /\ Fresh BY <1>3, <3>4, <3>5
    <3> QED BY <1>6, <3>6
  <2> QED BY <1>5, <1>8, <1>12, <2>1, <2>2, <2>3, <2>5, <2>6, <2>7, <2>8, <2>9
          DEF JobStep, Swap, SwapLanded, Settle, WriteOff, Reconcile
<1>13. ASSUME NEW p \in Positions, Close(p) PROVE NamesItsOwn'
  BY <1>5, <1>9, <1>13 DEF Close, AfterClose
<1>14. ASSUME NEW p \in Positions, Claim(p) PROVE NamesItsOwn' BY <1>3, <1>5, <1>9, <1>14 DEF Claim
<1>15. CASE SwapAll
  <2>1. job'.pos = NoPosition BY <1>15 DEF SwapAll, Idle
  <2> QED BY <1>3, <1>6, <2>1
<1>16. CASE Sweep
  <2>1. job'.pos = NoPosition BY <1>16 DEF Sweep, Idle
  <2> QED BY <1>3, <1>6, <2>1
<1>17. CASE DayPasses \/ \E m \in Mints : PriceMoves(m) BY <1>7, <1>17 DEF DayPasses, PriceMoves
<1>18. CASE Crash BY <1>5, <1>18 DEF Crash
<1>19. CASE UNCHANGED vars BY <1>7, <1>19 DEF vars
<1> QED BY <1>12, <1>13, <1>14, <1>15, <1>16, <1>17, <1>18, <1>19 DEF Next


(* No other step of a job puts it where records are settled. *)
LEMMA SettlesLater ==
  ASSUME TypeOK, JobStep, job'.at \in {"sold", "settle"}
  PROVE  \/ SwapConfirms /\ job'.mint = job.mint
         \/ MarkSuccess /\ job.at = "sold" /\ job'.mint = job.mint /\ job'.kept = job.kept
         \/ \E m \in Mints : SweepNext(m) /\ job.seen[m] = "none" /\ job'.mint = m
<1> USE IdleFields
<1>1. JobOK(job) BY DEF TypeOK, JobOK
<1>2. ~Continue
  <2> SUFFICES ASSUME Continue PROVE FALSE OBVIOUS
  <2>1. job' = Idle \/ job'.at = "next" BY <1>1, ContinueFields
  <2> QED BY <2>1
<1>3. ~SwapSkips
  <2> SUFFICES ASSUME SwapSkips PROVE FALSE OBVIOUS
  <2>1. job' = [job EXCEPT !.at = "failed"] BY <1>2 DEF SwapSkips
  <2> QED BY <1>1, <2>1 DEF JobOK, Jobs
<1>4. ~SwapFails
  <2> SUFFICES ASSUME SwapFails PROVE FALSE OBVIOUS
  <2>1. PICK dead \in BOOLEAN : job' = [job EXCEPT !.at = "failed", !.dead = dead]
    BY <1>2 DEF SwapFails, Unroutable
  <2> QED BY <1>1, <2>1 DEF JobOK, Jobs
<1>5. ~MarkAttempt
  <2> SUFFICES ASSUME MarkAttempt PROVE FALSE OBVIOUS
  <2>1. job' = [job EXCEPT !.at = "writeOff", !.pos = position[job.mint]]
    BY <1>2 DEF MarkAttempt
  <2> QED BY <1>1, <2>1 DEF JobOK, Jobs
<1>6. ~BatchNext
  <2> SUFFICES ASSUME BatchNext PROVE FALSE OBVIOUS
  <2>1. PICK m \in job.todo : job' = [job EXCEPT !.at = "swap", !.mint = m, !.todo = @ \ {m}]
    BY DEF BatchNext
  <2> QED BY <1>1, <2>1 DEF JobOK, Jobs
<1>7. ~SweepPrunes
  <2> SUFFICES ASSUME SweepPrunes PROVE FALSE OBVIOUS
  <2>1. job' = [job EXCEPT !.at = "reconcile"] BY DEF SweepPrunes
  <2> QED BY <1>1, <2>1 DEF JobOK, Jobs
<1>8. CASE SwapConfirms BY <1>1, <1>8 DEF SwapConfirms, JobOK, Jobs
<1>9. CASE MarkSuccess
  <2>1. job' = [job EXCEPT !.at = "settle", !.pos = position[job.mint]]
    BY <1>2, <1>9 DEF MarkSuccess
  <2>2. job'.mint = job.mint /\ job'.kept = job.kept BY <1>1, <2>1 DEF JobOK, Jobs
  <2>3. job.at = "sold" BY <1>9 DEF MarkSuccess
  <2> QED BY <1>9, <2>2, <2>3
<1>10. ASSUME NEW m \in Mints, SweepNext(m) PROVE job.seen[m] = "none" /\ job'.mint = m
  <2> DEFINE rest == [job EXCEPT !.todo = @ \ {m}, !.mint = m]
  <2>1. rest \in Jobs /\ rest.mint = m /\ rest.at = "next"
    BY <1>1, <1>10 DEF SweepNext, JobOK, Jobs
  <2>2. \/ job' = [rest EXCEPT !.at = "settle", !.pos = position[m]] /\ job.seen[m] = "none"
        \/ job' = rest
        \/ job' = [rest EXCEPT !.at = "swap"]
    BY <1>10 DEF SweepNext
  <2> HIDE DEF rest
  <2> QED BY <2>1, <2>2 DEF Jobs
<1> QED BY <1>2, <1>3, <1>4, <1>5, <1>6, <1>7, <1>8, <1>9, <1>10
        DEF JobStep, Swap, SwapLanded, Settle, WriteOff, Reconcile

LEMMA SoldStep ==
  ASSUME TypeOK, SoldAway, ScanShowsOwed, [Next]_vars PROVE SoldAway'
<1> SUFFICES ASSUME job'.at \in {"sold", "settle"}
             PROVE  \A p \in unsold' \cap owed' : mint'[p] = job'.mint => p \in job'.kept
  BY DEF SoldAway
<1>1. mint' = mint /\ unsold \subseteq Positions BY MintStays DEF TypeOK
<1>2. CASE JobStep
  <2>1. unsold' \subseteq unsold /\ owed' \subseteq owed
    <3>1. job # Idle
      <4>1. job.at # "idle"
        BY <1>2 DEF JobStep, Swap, SwapSkips, SwapConfirms, SwapLanded, SwapFails, MarkSuccess,
                    Settle, WriteOff, MarkAttempt, BatchNext, SweepPrunes, Reconcile, SweepNext
      <4> QED BY <4>1, IdleFields
    <3> QED BY <1>2, <3>1, OthersOnlyTake DEF Close, Next
  <2>2. CASE SwapConfirms /\ job'.mint = job.mint
    <3>1. PICK kept \in SUBSET (unsold \cap Of(job.mint)) :
            unsold' = unsold \ (Of(job.mint) \ kept) /\ job' = [job EXCEPT !.at = "sold", !.kept = kept]
      BY <2>2 DEF SwapConfirms, Sells
    <3>2. job'.kept = kept BY <3>1 DEF TypeOK, Jobs
    <3> QED BY <1>1, <2>2, <3>1, <3>2 DEF Of
  <2>3. CASE MarkSuccess /\ job.at = "sold" /\ job'.mint = job.mint /\ job'.kept = job.kept
    BY <1>1, <2>1, <2>3 DEF SoldAway
  <2>4. ASSUME NEW m \in Mints, SweepNext(m), job.seen[m] = "none", job'.mint = m
        PROVE  \A p \in unsold' \cap owed' : mint'[p] # job'.mint
    BY <1>1, <2>1, <2>4 DEF ScanShowsOwed, SweepNext
  <2> QED BY <1>2, <2>2, <2>3, <2>4, SettlesLater
<1>3. CASE job' = Idle BY <1>3, IdleFields
<1>4. CASE \E p \in Positions : Close(p) \/ Claim(p)
  <2>1. \A tool, m, q : Swapping(tool, m, q).at = "swap" BY DEF Swapping, Idle
  <2> QED BY <1>3, <1>4, <2>1 DEF Close, Claim, AfterClose
<1>5. CASE SwapAll \/ Sweep
  <2>1. CASE SwapAll BY <2>1 DEF SwapAll, Idle
  <2>2. CASE Sweep BY <2>2 DEF Sweep, Idle
  <2> QED BY <1>5, <2>1, <2>2
<1>6. CASE DayPasses \/ (\E m \in Mints : PriceMoves(m)) \/ UNCHANGED vars
  <2>1. UNCHANGED <<job, unsold, owed>> BY <1>6 DEF DayPasses, PriceMoves, vars, walletVars, recordVars
  <2> QED BY <1>1, <2>1 DEF SoldAway
<1>7. CASE Crash BY <1>3, <1>7 DEF Crash
<1> QED BY <1>2, <1>4, <1>5, <1>6, <1>7 DEF Next

LEMMA ScanStep ==
  ASSUME TypeOK, HeldIsThere, ScanShowsOwed, [Next]_vars PROVE ScanShowsOwed'
<1> SUFFICES ASSUME job'.tool = "sweep", NEW p \in unsold' \cap owed'
             PROVE  job'.seen[mint'[p]] # "none"
  BY DEF ScanShowsOwed
<1>1. mint' = mint BY MintStays
<1>2. CASE Sweep
  <2>1. PICK r \in Reads :
          /\ job'.seen = r.seen /\ owed' = {q \in owed : r.seen[mint[q]] = wallet[mint[q]]}
    BY <1>2 DEF Sweep, Idle
  <2>2. unsold' = unsold BY <1>2 DEF Sweep, walletVars
  <2> QED BY <1>1, <2>1, <2>2 DEF HeldIsThere
<1>3. ASSUME ~\E q \in Positions : Close(q), job.tool = "sweep", job'.seen = job.seen
      PROVE  job'.seen[mint'[p]] # "none"
  BY <1>1, <1>3, OthersOnlyTake DEF ScanShowsOwed
<1>4. job' # Idle BY IdleFields
<1>5. \A tool, m, q : Swapping(tool, m, q).tool = tool BY DEF Swapping, Idle
<1>6. ~\E q \in Positions : Close(q) \/ Claim(q)
  <2>1. ASSUME NEW q \in Positions, Close(q) PROVE FALSE BY <1>4, <1>5, <2>1 DEF Close, AfterClose
  <2>2. ASSUME NEW q \in Positions, Claim(q) PROVE FALSE BY <1>4, <1>5, <2>2 DEF Claim
  <2> QED BY <2>1, <2>2
<1>7. CASE JobStep BY <1>3, <1>4, <1>6, <1>7, JobsKeepScan DEF KeepsScan
<1>8. ~SwapAll
  <2> SUFFICES ASSUME SwapAll PROVE FALSE OBVIOUS
  <2>1. job'.tool = "batch" BY DEF SwapAll, Idle
  <2> QED BY <2>1
<1>9. CASE DayPasses \/ (\E m \in Mints : PriceMoves(m)) \/ UNCHANGED vars
  <2>1. UNCHANGED job BY <1>9 DEF DayPasses, PriceMoves, vars
  <2> QED BY <1>3, <1>6, <2>1
<1> QED BY <1>2, <1>4, <1>6, <1>7, <1>8, <1>9 DEF Next, Crash

(* What a settlement touches is of the mint that was sold. *)
LEMMA TargetsAreOfMint ==
  ASSUME NamesItsOwn, NEW p \in Targets(job.mint, job.pos) PROVE mint[p] = job.mint
BY DEF Targets, Pending, Of, NamesItsOwn

LEMMA RealizedStep ==
  ASSUME TypeOK, OwedIsRecorded, NamesItsOwn, SoldAway, RealizedMeansGone, [Next]_vars
  PROVE  RealizedMeansGone'
<1> SUFFICES ASSUME NEW p \in owed', record'[p] = "realized" PROVE p \notin unsold'
  BY DEF RealizedMeansGone
<1> USE DEF TypeOK
<1>1. ASSUME p \in owed, record[p] = "realized", unsold' \subseteq unsold PROVE p \notin unsold'
  BY <1>1 DEF RealizedMeansGone
<1>2. ASSUME NEW q \in Positions, Close(q) PROVE p \notin unsold'
  <2>1. unsold' \subseteq unsold \cup {q} BY <1>2 DEF Close
  <2>2. PICK r \in {"pending", "realized"} :
          record' = [record EXCEPT ![q] = r] /\ owed' = IF r = "pending" THEN owed \cup {q} ELSE owed
    BY <1>2 DEF Close, CloseStatus
  <2>3. p # q
    <3>1. q \notin owed BY <1>2 DEF Close, OwedIsRecorded
    <3> QED BY <2>2, <3>1
  <2>4. p \in owed /\ record[p] = "realized" BY <2>2, <2>3
  <2> QED BY <2>1, <2>3, <2>4 DEF RealizedMeansGone
<1>3. CASE ~\E q \in Positions : Close(q)
  <2>1. unsold' \subseteq unsold /\ owed' \subseteq owed BY <1>3, OthersOnlyTake
  <2>2. CASE record[p] = "realized" BY <1>1, <2>1, <2>2
  <2>3. CASE record[p] # "realized"
    <3>1. Settle /\ p \in Targets(job.mint, job.pos)
      <4>1. p \in Positions BY <2>1
      <4>2. CASE UNCHANGED record BY <2>3, <4>2
      <4>3. ~WriteOff /\ ~Reconcile BY <2>3, <4>1 DEF WriteOff, Reconcile
      <4>4. JobStep
        BY <1>3, <2>3, <4>2
           DEF Next, vars, Claim, SwapAll, Sweep, DayPasses, Crash, PriceMoves, recordVars
      <4>5. Settle
        BY <2>3, <4>2, <4>3, <4>4
           DEF JobStep, Swap, SwapSkips, SwapConfirms, SwapLanded, SwapFails, MarkSuccess,
               MarkAttempt, BatchNext, SweepPrunes, SweepNext, recordVars
      <4> QED BY <2>3, <4>1, <4>5 DEF Settle
    <3>2. mint[p] = job.mint BY <3>1, TargetsAreOfMint
    <3> QED BY <2>1, <3>1, <3>2 DEF Settle, SoldAway
  <2> QED BY <2>2, <2>3
<1> QED BY <1>2, <1>3

LEMMA SoldInvInit == Init => SoldInv
<1>1. NoPosition \notin Positions BY PositionsAreNumbers
<1> QED BY <1>1, IdleFields
        DEF Init, SoldInv, OwedIsRecorded, HeldIsThere, NamesItsOwn, SoldAway, ScanShowsOwed,
            RealizedMeansGone

(* lessons.ts: for any number of trades, mints, crashes and bad reads,     *)
(* whatever other trades of the mint an entry stood for: a trade that was  *)
(* recorded as closed_pending_swap turns into realized only when the       *)
(* wallet holds none of its tokens, unless a sweep overlooked them or the  *)
(* swap that settles it sold only a part.                                  *)
THEOREM RealizedAreGone == Spec => []RealizedMeansGone
<1>1. TypeOK /\ SoldInv /\ [Next]_vars => SoldInv'
  BY OwedStep, HeldStep, NamesStep, SoldStep, ScanStep, RealizedStep DEF SoldInv
<1>2. SoldInv => RealizedMeansGone BY DEF SoldInv
<1> QED BY <1>1, <1>2, LiquidationTypes, SoldInvInit, PTL DEF Spec


-----------------------------------------------------------------------------
(* What a sweep does to entries that were given up.                        *)

(* The entries a sweep has still to work off wait, as does the one whose   *)
(* tokens it swaps.                                                        *)
QueueWaits ==
  job.tool = "sweep" =>
    /\ \A m \in job.todo : status[m] = "pending"
    /\ job.mint \notin job.todo
    /\ job.at \in {"swap", "sold"} => status[job.mint] = "pending" /\ job.seen[job.mint] = "some"

(* What a complete scan lacks is not in the wallet. *)
ScanIsRight ==
  job.tool = "sweep" /\ job.whole => \A m \in Mints : job.seen[m] = "none" => wallet[m] = "none"

LEMMA QueueStaysSame ==
  ASSUME QueueWaits, UNCHANGED <<job, status>> PROVE QueueWaits'
BY DEF QueueWaits

(* The entry of the current mint changes, or another one is taken. *)
LEMMA QueueGoesOn ==
  ASSUME TypeOK, QueueWaits, job'.tool = "sweep" => job.tool = "sweep",
         job'.todo = job.todo, job'.mint = job.mint,
         \A m \in Mints : m # job.mint => status'[m] = status[m],
         job'.at \in {"swap", "sold"} =>
           /\ job.at \in {"swap", "sold"} /\ UNCHANGED status /\ job'.seen = job.seen
  PROVE  QueueWaits'
<1>1. job.todo \subseteq Mints BY DEF TypeOK, Jobs
<1> QED BY <1>1 DEF QueueWaits

LEMMA NotSweep == ASSUME job'.tool # "sweep" PROVE QueueWaits' /\ ScanIsRight'
BY DEF QueueWaits, ScanIsRight

LEMMA QueueSwaps ==
  ASSUME TypeOK, QueueWaits, Swap \/ MarkSuccess \/ MarkAttempt PROVE QueueWaits'
<1>1. JobOK(job) BY DEF TypeOK, JobOK
<1>2. \A m \in Mints : m # job.mint => status'[m] = status[m]
  <2>1. CASE Swap
    <3>1. CASE SwapSkips BY <3>1 DEF TypeOK, SwapSkips, Enqueue, queueVars
    <3>2. CASE SwapConfirms \/ SwapLanded BY <3>2 DEF TypeOK, SwapConfirms, SwapLanded, Enqueue, queueVars
    <3>3. CASE SwapFails BY <3>3 DEF TypeOK, SwapFails, Enqueue, queueVars
    <3> QED BY <2>1, <3>1, <3>2, <3>3 DEF Swap
  <2>2. CASE MarkSuccess BY <2>2 DEF TypeOK, MarkSuccess, queueVars
  <2>3. CASE MarkAttempt BY <2>3 DEF TypeOK, MarkAttempt, queueVars
  <2> QED BY <2>1, <2>2, <2>3
<1>3. CASE Continue
  <2>1. job' # Idle => /\ job'.at = "next" /\ job'.mint = job.mint /\ job'.todo = job.todo
                       /\ job'.tool = job.tool
    BY <1>1, <1>3, ContinueFields DEF KeepsScan
  <2>2. CASE job' = Idle BY <2>2, IdleFields, NotSweep
  <2>3. CASE job' # Idle
    <3>1. /\ job'.at \notin {"swap", "sold"} /\ job'.mint = job.mint /\ job'.todo = job.todo
          /\ job'.tool = job.tool
      BY <2>1, <2>3
    <3> QED BY <1>2, <3>1, QueueGoesOn
  <2> QED BY <2>2, <2>3
<1>4. ASSUME NEW at, at \notin {"swap", "sold"}, job'.at = at, job'.tool = job.tool,
             job'.mint = job.mint, job'.todo = job.todo
      PROVE  QueueWaits'
  BY <1>2, <1>4, QueueGoesOn
<1>5. CASE SwapSkips
  <2>1. CASE job' = [job EXCEPT !.at = "failed"]
    <3>1. /\ job'.at = "failed" /\ job'.tool = job.tool /\ job'.mint = job.mint
          /\ job'.todo = job.todo
      BY <1>1, <2>1 DEF JobOK, Jobs
    <3> QED BY <1>4, <3>1
  <2> QED BY <1>3, <1>5, <2>1 DEF SwapSkips
<1>6. CASE SwapConfirms
  <2>1. /\ job'.tool = job.tool /\ job'.mint = job.mint /\ job'.todo = job.todo
        /\ job'.seen = job.seen
    BY <1>1, <1>6 DEF SwapConfirms, JobOK, Jobs
  <2>2. job.at = "swap" /\ UNCHANGED status BY <1>6 DEF SwapConfirms, queueVars
  <2> QED BY <1>2, <2>1, <2>2, QueueGoesOn
<1>7. CASE SwapFails
  <2>1. ASSUME NEW dead, job' = [job EXCEPT !.at = "failed", !.dead = dead] PROVE QueueWaits'
    <3>1. /\ job'.at = "failed" /\ job'.tool = job.tool /\ job'.mint = job.mint
          /\ job'.todo = job.todo
      BY <1>1, <2>1 DEF JobOK, Jobs
    <3> QED BY <1>4, <3>1
  <2> QED BY <1>3, <1>7, <2>1 DEF SwapFails
<1>8. ASSUME NEW at, at \notin {"swap", "sold"}, NEW pos,
             job' = [job EXCEPT !.at = at, !.pos = pos]
      PROVE  QueueWaits'
  <2>1. /\ job'.at = at /\ job'.tool = job.tool /\ job'.mint = job.mint /\ job'.todo = job.todo
    BY <1>1, <1>8 DEF JobOK, Jobs
  <2> QED BY <1>4, <1>8, <2>1
<1>9. CASE MarkSuccess BY <1>3, <1>8, <1>9 DEF MarkSuccess
<1>10. CASE MarkAttempt BY <1>3, <1>8, <1>10 DEF MarkAttempt
<1> QED BY <1>3, <1>5, <1>6, <1>7, <1>9, <1>10 DEF Swap, SwapLanded

LEMMA QueueStep ==
  ASSUME TypeOK, QueueWaits, [Next]_vars PROVE QueueWaits'
<1>1. JobOK(job) BY DEF TypeOK, JobOK
<1>2. CASE job' = Idle BY <1>2, IdleFields, NotSweep
<1>3. CASE UNCHANGED <<job, status>> BY <1>3, QueueStaysSame
<1>4. CASE Continue /\ UNCHANGED status
  <2>1. CASE job' # Idle
    <3>1. /\ job'.at = "next" /\ job'.mint = job.mint /\ job'.todo = job.todo
          /\ job'.tool = job.tool
      BY <1>1, <1>4, <2>1, ContinueFields DEF KeepsScan
    <3> QED BY <1>4, <3>1, QueueGoesOn
  <2> QED BY <1>2, <2>1
<1>5. CASE JobStep
  <2>1. CASE Settle \/ WriteOff BY <1>4, <2>1 DEF Settle, WriteOff, queueVars
  <2>2. CASE BatchNext
    <3>1. ASSUME NEW m, job' = [job EXCEPT !.at = "swap", !.mint = m, !.todo = @ \ {m}]
          PROVE  job'.tool # "sweep"
      <4>1. job'.tool = job.tool BY <1>1, <3>1 DEF JobOK, Jobs
      <4> QED BY <2>2, <4>1 DEF BatchNext
    <3> QED BY <1>2, <2>2, <3>1, NotSweep DEF BatchNext
  <2>3. CASE SweepPrunes
    <3>1. CASE job' = [job EXCEPT !.at = "reconcile"]
      <4>1. job'.at = "reconcile" /\ job'.todo = job.todo BY <1>1, <3>1 DEF JobOK, Jobs
      <4>2. job.todo = {} BY <2>3 DEF SweepPrunes
      <4> QED BY <4>1, <4>2 DEF QueueWaits
    <3> QED BY <1>2, <2>3, <3>1 DEF SweepPrunes
  <2>4. ASSUME NEW m \in Mints, SweepNext(m) PROVE QueueWaits'
    <3> DEFINE rest == [job EXCEPT !.todo = @ \ {m}, !.mint = m]
    <3>1. /\ rest \in Jobs /\ rest.mint = m /\ rest.todo = job.todo \ {m} /\ rest.at = "next"
          /\ rest.seen = job.seen
      BY <1>1, <2>4 DEF SweepNext, JobOK, Jobs
    <3>2. \/ job' = [rest EXCEPT !.at = "settle", !.pos = position[m]]
          \/ job' = rest
          \/ job' = [rest EXCEPT !.at = "swap"] /\ job.seen[m] = "some" /\ UNCHANGED status
      BY <2>4 DEF SweepNext
    <3> HIDE DEF rest
    <3>3. /\ job'.mint = m /\ job'.todo = job.todo \ {m} /\ job'.seen = job.seen
          /\ job'.at \in {"swap", "sold"} => job.seen[m] = "some" /\ UNCHANGED status
      BY <3>1, <3>2 DEF Jobs
    <3>4. job.tool = "sweep" /\ m \in job.todo /\ job.todo \subseteq Mints
      BY <2>4, <1>1 DEF SweepNext, JobOK, Jobs
    <3>5. \A k \in Mints : k # m => status'[k] = status[k] BY <2>4 DEF SweepNext, TypeOK
    <3> QED BY <3>3, <3>4, <3>5 DEF QueueWaits
  <2> QED BY <1>2, <1>5, <2>1, <2>2, <2>3, <2>4, QueueSwaps DEF JobStep, Reconcile
<1>6. CASE Sweep
  <2>1. PICK r \in Reads :
          job' = [Idle EXCEPT !.at = "next", !.tool = "sweep", !.seen = r.seen, !.whole = r.whole,
                              !.todo = {m \in Mints : status'[m] = "pending"}]
    BY <1>6 DEF Sweep
  <2>2. /\ job'.at = "next" /\ job'.mint = NoMint
        /\ job'.todo = {m \in Mints : status'[m] = "pending"}
    BY <2>1 DEF Idle
  <2> QED BY <2>2, LiquidationAssumption DEF QueueWaits
<1>7. CASE SwapAll
  <2>1. job'.tool = "batch" BY <1>7 DEF SwapAll, Idle
  <2> QED BY <2>1, NotSweep
<1>8. CASE \E p \in Positions : Close(p) \/ Claim(p)
  <2>1. \A tool, m, q : Swapping(tool, m, q).tool = tool BY DEF Swapping, Idle
  <2>2. job'.tool # "sweep" BY <1>8, <2>1, IdleFields DEF Close, Claim, AfterClose
  <2> QED BY <2>2, NotSweep
<1>9. CASE DayPasses \/ (\E m \in Mints : PriceMoves(m)) \/ UNCHANGED vars
  <2>1. UNCHANGED <<job, status>> BY <1>9 DEF DayPasses, PriceMoves, vars, queueVars
  <2> QED BY <1>3, <2>1
<1>10. CASE Crash BY <1>2, <1>10 DEF Crash
<1> QED BY <1>5, <1>6, <1>7, <1>8, <1>9, <1>10 DEF Next


LEMMA ScanRightStep ==
  ASSUME "failed" \notin BadReads, TypeOK, QueueWaits, ScanIsRight, [Next]_vars
  PROVE  ScanIsRight'
<1> SUFFICES ASSUME job'.tool = "sweep", job'.whole, NEW m \in Mints, job'.seen[m] = "none"
             PROVE  wallet'[m] = "none"
  BY DEF ScanIsRight
<1> USE DEF TypeOK
<1>1. job' # Idle BY IdleFields
<1>2. CASE JobStep
  <2>1. job.tool = "sweep" /\ job'.seen = job.seen /\ job'.whole = job.whole
    BY <1>1, <1>2, JobsKeepScan DEF KeepsScan
  <2>2. job.whole BY <2>1, Zenon
  <2>3. job.seen[m] = "none" /\ wallet[m] = "none" BY <2>1, <2>2 DEF ScanIsRight
  <2>4. wallet'[m] = wallet[m]
    <3>1. ASSUME NEW kept, NEW rest, Sells(job.mint, kept, rest) PROVE wallet'[m] = wallet[m]
      BY <2>3, <3>1 DEF Sells
    <3>2. CASE UNCHANGED wallet BY <3>2
    <3> QED BY <1>2, <3>1, <3>2
            DEF JobStep, Swap, SwapSkips, SwapConfirms, SwapLanded, SwapFails, MarkSuccess, Settle,
                WriteOff, MarkAttempt, BatchNext, SweepPrunes, Reconcile, SweepNext, walletVars
  <2> QED BY <2>3, <2>4
<1>3. CASE Sweep
  <2>1. PICK r \in Reads :
          job' = [Idle EXCEPT !.at = "next", !.tool = "sweep", !.seen = r.seen, !.whole = r.whole,
                              !.todo = {k \in Mints : status'[k] = "pending"}]
    BY <1>3 DEF Sweep
  <2>2. job'.seen = r.seen /\ job'.whole = r.whole BY <2>1 DEF Idle
  <2>3. r.whole BY <2>2, Zenon
  <2>4. Outdated = {} BY DEF Outdated
  <2>5. ASSUME NEW M, r = Scan(M, FALSE) PROVE FALSE
    <3>1. r.whole = FALSE BY <2>5 DEF Scan
    <3> QED BY <2>3, <3>1, Zenon
  <2>6. r = Scan({}, TRUE)
    <3>1. r \in {Scan({}, TRUE)} \cup {Scan(M, FALSE) : M \in Lacking}
      BY <2>4, Zenon DEF Reads
    <3>2. ASSUME r \in {Scan(M, FALSE) : M \in Lacking} PROVE FALSE
      <4>1. PICK M \in Lacking : r = Scan(M, FALSE) BY <3>2, Zenon
      <4> QED BY <2>5, <4>1, Zenon
    <3> QED BY <3>1, <3>2, Zenon
  <2>7. r.seen[m] = wallet[m] BY <2>6 DEF Scan
  <2> QED BY <1>3, <2>2, <2>7 DEF Sweep, walletVars
<1>4. \A tool, k, q : Swapping(tool, k, q).tool = tool BY DEF Swapping, Idle
<1>5. ~\E q \in Positions : Close(q) \/ Claim(q)
  <2>1. ASSUME NEW q \in Positions, Close(q) PROVE FALSE BY <1>1, <1>4, <2>1 DEF Close, AfterClose
  <2>2. ASSUME NEW q \in Positions, Claim(q) PROVE FALSE BY <1>1, <1>4, <2>2 DEF Claim
  <2> QED BY <2>1, <2>2
<1>6. ~SwapAll
  <2> SUFFICES ASSUME SwapAll PROVE FALSE OBVIOUS
  <2>1. job'.tool = "batch" BY DEF SwapAll, Idle
  <2> QED BY <2>1
<1>7. ASSUME UNCHANGED job PROVE wallet[m] = "none"
  <2>1. job.tool = "sweep" /\ job.seen[m] = "none" BY <1>7
  <2>2. job.whole BY <1>7, Zenon
  <2> QED BY <2>1, <2>2 DEF ScanIsRight
<1>8. CASE DayPasses \/ UNCHANGED vars
  <2>1. UNCHANGED <<job, wallet>> BY <1>8 DEF DayPasses, vars, walletVars
  <2> QED BY <1>7, <2>1
<1>9. ASSUME NEW k \in Mints, PriceMoves(k) PROVE wallet'[m] = "none"
  BY <1>7, <1>9 DEF PriceMoves
<1> QED BY <1>1, <1>2, <1>3, <1>5, <1>6, <1>8, <1>9 DEF Next, Crash

LEMMA TombstoneStep ==
  ASSUME TypeOK, QueueWaits, ScanIsRight, [Next]_vars, job.tool = "sweep" \/ job'.tool = "sweep",
         NEW m \in Mints, status[m] = "abandoned", wallet[m] # "none"
  PROVE  status'[m] = "abandoned"
<1> USE DEF TypeOK
<1>1. CASE UNCHANGED status BY <1>1
<1>2. CASE Sweep BY <1>2 DEF Sweep, Enqueue
<1>3. CASE JobStep
  <2>1. job.tool = "sweep" BY <1>3, IdleFields, JobsKeepScan DEF KeepsScan
  <2>2. job.at \in {"swap", "sold"} => m # job.mint BY <2>1 DEF QueueWaits
  <2>3. CASE SwapFails BY <2>2, <2>3 DEF SwapFails, Enqueue
  <2>4. CASE MarkSuccess BY <2>2, <2>4 DEF MarkSuccess
  <2>5. CASE MarkAttempt BY <2>5 DEF MarkAttempt
  <2>6. ASSUME NEW k \in Mints, SweepNext(k) PROVE status'[m] = "abandoned"
    <3>1. m # k BY <2>1, <2>6 DEF SweepNext, QueueWaits
    <3> QED BY <2>6, <3>1 DEF SweepNext
  <2>7. CASE SweepPrunes
    <3>1. CASE job.whole
      <4>1. job.seen[m] # "none" BY <2>1, <3>1 DEF ScanIsRight
      <4>2. m \notin Prunable BY <4>1 DEF Prunable
      <4> QED BY <2>7, <3>1, <4>2 DEF SweepPrunes
    <3>2. CASE ~job.whole BY <2>7, <3>2 DEF SweepPrunes
    <3> QED BY <3>1, <3>2
  <2> QED BY <1>1, <1>3, <2>3, <2>4, <2>5, <2>6, <2>7
          DEF JobStep, Swap, SwapSkips, SwapConfirms, SwapLanded, Settle, WriteOff, BatchNext,
              Reconcile, queueVars
<1>4. CASE (\E p \in Positions : Close(p) \/ Claim(p)) \/ SwapAll \/ Crash
  BY <1>1, <1>4 DEF Close, Claim, SwapAll, Crash, queueVars
<1>5. CASE DayPasses \/ (\E k \in Mints : PriceMoves(k)) \/ UNCHANGED vars
  BY <1>1, <1>5 DEF DayPasses, PriceMoves, vars, queueVars
<1> QED BY <1>2, <1>3, <1>4, <1>5 DEF Next

(* liquidation-queue.ts: however long ago a token was given up, and even   *)
(* if a scan missed it, a sweep neither forgets its entry while the wallet *)
(* holds it nor tries to sell it again.  That the balances shown are of    *)
(* now is the condition: of those handed out when no source answers        *)
(* nothing tells that they are old.                                        *)
THEOREM TombstonesStay ==
  ASSUME "failed" \notin BadReads PROVE Spec => TombstonesHold
<1> DEFINE SweepInv == QueueWaits /\ ScanIsRight
           Kept == job.tool = "sweep" \/ job'.tool = "sweep" =>
                     \A m \in Mints : status[m] = "abandoned" /\ wallet[m] # "none"
                                        => status'[m] = "abandoned"
<1>1. Init => SweepInv
  <2>1. Init => job.tool = "none" BY IdleFields DEF Init
  <2> QED BY <2>1 DEF QueueWaits, ScanIsRight
<1>2. TypeOK /\ SweepInv /\ [Next]_vars => SweepInv' BY QueueStep, ScanRightStep
<1>3. TypeOK /\ SweepInv /\ [Next]_vars => [Kept]_vars BY TombstoneStep
<1> QED BY <1>1, <1>2, <1>3, LiquidationTypes, PTL DEF Spec, TombstonesHold

-----------------------------------------------------------------------------
(***************************************************************************)
(* Proofs about module Learning, for any trades, pools, notes and results. *)
(***************************************************************************)
HIDE DEF Levels, States, NoPosition

RecordPass == [at : {"record", "evolve", "weigh"}, of : Traded, data : Files]
CopyPass == [at : {"each", "save"}, kind : {"settle", "abandon", "orphans"},
             copy : Files, todo : SUBSET Traded, taught : BOOLEAN]

MemoryOK == /\ deploys \in [Pools -> Seq(Deploys)]
            /\ poolRest \in [Pools -> Nat] /\ tokenRest \in Nat
            /\ StopHours = OorHours => tokenRest <= StopHours
LearnedOK == /\ floors.fee \in Nat /\ floors.organic \in Nat
             /\ floors = [fee |-> floors.fee, organic |-> floors.organic]
             /\ Fee0 <= floors.fee /\ (floors.fee = Fee0 \/ floors.fee <= 1000)
             /\ Organic0 <= floors.organic /\ (floors.organic = Organic0 \/ floors.organic <= 90)
             /\ weights \in [Signals -> WeightRange]
HistoryOK == /\ closed \subseteq Traded /\ raced \subseteq Traded \cup Notes
             /\ cut \subseteq Traded /\ edits \in 0..Edits
             /\ wanted \in [lessons : SUBSET Notes, pinned : SUBSET Notes]
PassOK == pass \in {NoPass} \cup RecordPass \cup CopyPass

(* What a file, the one on disk or the copy of a pass, may say of a trade   *)
(* and of a note.                                                          *)
Silent(t, f) == f.records[t].status = "pending" => t \notin f.lessons /\ CountOf(t) = 0
Counted(t, f) == f.records[t].status \in Settled => CountOf(t) >= 1
Unseen(t, f) == f.records[t].status = "none" /\ t \notin f.lessons
Noted(n, f) == /\ n \in f.lessons <=> n \in wanted.lessons
               /\ n \in f.pinned <=> n \in wanted.pinned

(* A trade that is open has left no trace. *)
OpenIsUnseen ==
  \A t \in Traded \ closed :
    Unseen(t, file) /\ CountOf(t) = 0 /\ (Copied => Unseen(t, pass.copy))

(* The trade being recorded is not counted yet, and its record is as it    *)
(* was when it was closed, if it is there still.                           *)
RecordedIsNew ==
  pass.at = "record" =>
    /\ pass.of \in closed /\ CountOf(pass.of) = 0
    /\ pass.data.records[pass.of].status \in {"pending", "realized"}
    /\ file.records[pass.of].status \in {"none", pass.data.records[pass.of].status}

(* What pool memory has counted is what is final, in the file or in the     *)
(* copy that a pass will save.                                             *)
FilesAgree ==
  \A t \in Traded \ cut :
    /\ CountOf(t) <= 1
    /\ ~Copied => Silent(t, file)
    /\ ~(pass.at = "record" /\ pass.of = t) => Counted(t, file)
    /\ Copied => Silent(t, pass.copy) /\ Counted(t, pass.copy)

TodoWaits == Copied => \A t \in pass.todo : pass.copy.records[t].status = "pending"

NotesHold ==
  \A n \in Notes \ raced : Noted(n, file) /\ (Copied => Noted(n, pass.copy))

LearnInv ==
  /\ file \in Files /\ MemoryOK /\ LearnedOK /\ HistoryOK /\ PassOK
  /\ OpenIsUnseen /\ RecordedIsNew /\ FilesAgree /\ TodoWaits /\ NotesHold

-----------------------------------------------------------------------------
(* Of numbers. *)
LEMMA SmallestExists ==
  ASSUME NEW S \in SUBSET Nat, S # {} PROVE \E i \in S : \A j \in S : i <= j
<1> DEFINE R == OpToRel(<, Nat)
<1>1. IsWellFoundedOn(R, Nat) BY NatLessThanWellFounded
<1>2. \A i, j \in Nat : j < i => <<j, i>> \in R BY DEF OpToRel
<1> HIDE DEF R
<1>3. PICK i \in S : \A j \in S : <<j, i>> \notin R BY <1>1, WFMin
<1>4. \A j \in S : i <= j
  <2>1. SUFFICES ASSUME NEW j \in S PROVE i <= j OBVIOUS
  <2>2. i \in Nat /\ j \in Nat OBVIOUS
  <2>3. ~(j < i) BY <1>2, <1>3, <2>2
  <2> QED BY <2>2, <2>3
<1> QED BY <1>4

LEMMA MinFacts ==
  ASSUME NEW S \in SUBSET Nat, S # {} PROVE Min(S) \in S /\ \A j \in S : Min(S) <= j
BY SmallestExists DEF Min

(* A smallest set without a largest element would leave one when an element *)
(* is taken from it.                                                       *)
LEMMA LargestExists ==
  ASSUME NEW S \in SUBSET Nat, IsFiniteSet(S), S # {} PROVE \E i \in S : \A j \in S : i >= j
<1> DEFINE Topless(T) == T # {} /\ ~\E i \in T : \A j \in T : i >= j
           sizes == {Cardinality(T) : T \in {U \in SUBSET S : Topless(U)}}
<1>1. SUFFICES ASSUME Topless(S) PROVE FALSE OBVIOUS
<1>2. sizes # {} /\ sizes \in SUBSET Nat
  <2>1. \A T \in SUBSET S : IsFiniteSet(T) /\ Cardinality(T) \in Nat
    BY FS_Subset, FS_CardinalityType
  <2> QED BY <1>1, <2>1
<1>3. PICK n \in sizes : \A m \in sizes : n <= m
  <2> HIDE DEF sizes
  <2> QED BY <1>2, SmallestExists
<1>4. PICK T \in SUBSET S : Topless(T) /\ n = Cardinality(T) BY <1>3
<1>5. PICK x \in T : TRUE BY <1>4
<1>6. IsFiniteSet(T) /\ IsFiniteSet(T \ {x}) /\ Cardinality(T \ {x}) = n - 1 /\ n \in Nat
  BY <1>4, <1>5, FS_Subset, FS_RemoveElement, FS_CardinalityType
<1>7. ~Topless(T \ {x})
  <2>1. SUFFICES ASSUME Topless(T \ {x}) PROVE FALSE OBVIOUS
  <2>2. T \ {x} \in SUBSET S /\ Cardinality(T \ {x}) \in sizes BY <1>4, <2>1
  <2> HIDE DEF sizes
  <2>3. n <= Cardinality(T \ {x}) BY <1>3, <2>2
  <2> QED BY <1>6, <2>3
<1>8. x \in Nat /\ T \in SUBSET Nat BY <1>5
<1>9. CASE T \ {x} = {}
  <2>1. \A j \in T : j = x BY <1>9
  <2> QED BY <1>4, <1>5, <1>8, <2>1
<1>10. CASE T \ {x} # {}
  <2>1. PICK i \in T \ {x} : \A j \in T \ {x} : i >= j BY <1>7, <1>10
  <2>2. CASE i >= x BY <1>4, <1>8, <2>1, <2>2
  <2>3. CASE ~(i >= x)
    <3>1. \A j \in T : x >= j
      <4>1. SUFFICES ASSUME NEW j \in T PROVE x >= j OBVIOUS
      <4>2. j \in Nat /\ i \in Nat /\ (j = x \/ i >= j) BY <1>8, <2>1
      <4> QED BY <1>8, <2>3, <4>2
    <3> QED BY <1>4, <1>5, <3>1
  <2> QED BY <2>2, <2>3
<1> QED BY <1>9, <1>10

LEMMA MaxFacts ==
  ASSUME NEW S \in SUBSET Nat, IsFiniteSet(S), S # {} PROVE Max(S) \in S
BY LargestExists DEF Max

-----------------------------------------------------------------------------
(* Of pool memory. *)
LEMMA CountType ==
  ASSUME deploys \in [Pools -> Seq(Deploys)], NEW t \in Traded
  PROVE  CountOf(t) \in Nat
<1> DEFINE s == deploys[PoolOf[t]]
<1>1. s \in Seq(Deploys) BY LearningAssumption
<1>2. IsFiniteSet(1..Len(s)) BY <1>1, FS_Interval
<1>3. {i \in DOMAIN s : s[i].of = t} \subseteq 1..Len(s) BY <1>1
<1>4. IsFiniteSet({i \in DOMAIN s : s[i].of = t}) BY <1>2, <1>3, FS_Subset
<1> QED BY <1>4, FS_CardinalityType DEF CountOf

LEMMA CountStays ==
  ASSUME deploys' = deploys PROVE \A t \in Traded : CountOf(t)' = CountOf(t)
BY DEF CountOf

LEMMA AppendCounts ==
  ASSUME NEW s \in Seq(Deploys), NEW e \in Deploys, NEW t
  PROVE  LET n(r) == Cardinality({i \in DOMAIN r : r[i].of = t})
         IN  n(Append(s, e)) = IF e.of = t THEN n(s) + 1 ELSE n(s)
<1> DEFINE S(r) == {i \in DOMAIN r : r[i].of = t}
           a == Append(s, e)
<1>1. /\ DOMAIN s = 1..Len(s) /\ DOMAIN a = 1..(Len(s) + 1) /\ Len(s) \in Nat
      /\ a[Len(s) + 1] = e /\ \A i \in 1..Len(s) : a[i] = s[i]
  OBVIOUS
<1>2. IsFiniteSet(S(s)) /\ Len(s) + 1 \notin S(s)
  <2>1. IsFiniteSet(1..Len(s))
    <3>1. Len(s) \in Nat OBVIOUS
    <3>2. \A n \in Nat : IsFiniteSet(1..n) BY FS_Interval
    <3> HIDE DEF a, S
    <3> QED BY <3>1, <3>2
  <2>2. S(s) \subseteq 1..Len(s) BY <1>1
  <2> QED BY <1>1, <2>1, <2>2, FS_Subset
<1>3. S(a) = IF e.of = t THEN S(s) \cup {Len(s) + 1} ELSE S(s)
  <2> HIDE DEF a
  <2>1. \A i \in DOMAIN a : i = Len(s) + 1 \/ i \in DOMAIN s BY <1>1
  <2>2. DOMAIN s \subseteq DOMAIN a /\ Len(s) + 1 \in DOMAIN a BY <1>1
  <2> QED BY <1>1, <2>1, <2>2
<1>4. Cardinality(S(s) \cup {Len(s) + 1}) = Cardinality(S(s)) + 1 BY <1>2, FS_AddElement
<1> QED BY <1>3, <1>4

LEMMA RememberKeeps ==
  ASSUME MemoryOK, NEW t \in Traded, NEW kind \in Kinds, NEW why \in Reasons,
         Remember(t, kind, why)
  PROVE  /\ MemoryOK' /\ CountOf(t)' = CountOf(t) + 1
         /\ \A u \in Traded \ {t} : CountOf(u)' = CountOf(u)
<1> DEFINE p == PoolOf[t]
           e == [of |-> t, kind |-> kind, why |-> why]
           s == Append(deploys[p], e)
<1>1. /\ deploys' = [deploys EXCEPT ![p] = s] /\ tokenRest' = TokenRestAfter(s)
      /\ poolRest' = [poolRest EXCEPT ![p] = PoolRestAfter(p, s)]
  BY DEF Remember
<1>2. p \in Pools /\ e \in Deploys /\ deploys[p] \in Seq(Deploys)
  BY LearningAssumption DEF MemoryOK, Deploys
<1>3. s \in Seq(Deploys) BY <1>2
<1>4. ASSUME NEW u \in Traded PROVE CountOf(u)' = IF u = t THEN CountOf(u) + 1 ELSE CountOf(u)
  <2>1. PoolOf[u] \in Pools BY LearningAssumption
  <2>2. CASE PoolOf[u] = p
    <3>1. deploys'[PoolOf[u]] = s BY <1>1, <1>2, <2>2 DEF MemoryOK
    <3>2. e.of = t OBVIOUS
    <3> HIDE DEF s
    <3>3. CountOf(u)' = Cardinality({i \in DOMAIN s : s[i].of = u}) BY <3>1 DEF CountOf
    <3>4. CountOf(u) = Cardinality({i \in DOMAIN deploys[p] : deploys[p][i].of = u})
      BY <2>2 DEF CountOf
    <3> HIDE DEF e, p
    <3>5. Cardinality({i \in DOMAIN s : s[i].of = u}) =
            IF e.of = u THEN Cardinality({i \in DOMAIN deploys[p] : deploys[p][i].of = u}) + 1
            ELSE Cardinality({i \in DOMAIN deploys[p] : deploys[p][i].of = u})
      BY <1>2, AppendCounts DEF s
    <3> QED BY <3>2, <3>3, <3>4, <3>5
  <2>3. CASE PoolOf[u] # p
    <3>1. deploys'[PoolOf[u]] = deploys[PoolOf[u]] BY <1>1, <2>1, <2>3 DEF MemoryOK
    <3> QED BY <2>3, <3>1 DEF CountOf
  <2> QED BY <2>2, <2>3
<1> HIDE DEF s
<1>5. deploys' \in [Pools -> Seq(Deploys)] BY <1>1, <1>3 DEF MemoryOK
<1>6. tokenRest' \in Nat /\ (StopHours = OorHours => tokenRest' <= StopHours)
  <2>1. StopHours \in Nat /\ OorHours \in Nat BY LearningAssumption
  <2>2. tokenRest \in Nat /\ (StopHours = OorHours => tokenRest <= StopHours) BY DEF MemoryOK
  <2>3. TokenRestAfter(s) \in {StopHours, OorHours, tokenRest} BY DEF TokenRestAfter
  <2> HIDE DEF MemoryOK
  <2> QED BY <1>1, <2>1, <2>2, <2>3
<1>7. PoolRestAfter(p, s) \in Nat BY <1>2, LearningAssumption DEF MemoryOK, PoolRestAfter
<1>8. poolRest' \in [Pools -> Nat] BY <1>1, <1>7 DEF MemoryOK
<1> QED BY <1>4, <1>5, <1>6, <1>8 DEF MemoryOK

-----------------------------------------------------------------------------
(* Of thresholds and weights. *)
LEMMA Nudges ==
  ASSUME NEW c \in Nat, NEW t \in Int
  PROVE  /\ Nudged(c, t) \in Int
         /\ t >= c => Nudged(c, t) <= t
<1>1. c \div 5 \in Nat /\ 5 * (c \div 5) <= c OBVIOUS
<1>2. PICK d \in Nat : d = c \div 5 /\ 5 * d <= c BY <1>1
<1>3. Nudged(c, t) = IF 5 * (t - c) > c THEN c + d ELSE IF 5 * (c - t) > c THEN c - d ELSE t
  BY <1>2 DEF Nudged
<1> QED BY <1>2, <1>3

LEMMA Rounds ==
  ASSUME NEW x \in Int
  PROVE  /\ Rounded(x, 100) \in Int /\ (0 <= x /\ x <= 100000 => 0 <= Rounded(x, 100) /\ Rounded(x, 100) <= 1000)
         /\ Rounded(x, 5) \in Int /\ \A w \in Int : x <= 5 * w => Rounded(x, 5) <= w
<1>1. /\ 2 * 100 = 200 /\ 2 * 5 = 10
      /\ (2 * x + 100) \div 200 \in Int /\ (2 * x + 5) \div 10 \in Int
  OBVIOUS
<1>2. 0 <= x /\ x <= 100000 => 0 <= (2 * x + 100) \div 200 /\ (2 * x + 100) \div 200 <= 1000
  OBVIOUS
<1>3. \A w \in Int : x <= 5 * w => (2 * x + 5) \div 10 <= w OBVIOUS
<1> QED BY <1>1, <1>2, <1>3 DEF Rounded

LEMMA WeightsStayInBounds ==
  ASSUME NEW w \in WeightRange PROVE Boosted(w) \in WeightRange /\ Decayed(w) \in WeightRange
<1>1. w * 105 \in Int /\ w * 95 \in Int BY DEF WeightRange
<1>2. PICK b \in Int : b = Rounded(w * 105, 100) BY <1>1, Rounds
<1>3. PICK d \in Int : d = Rounded(w * 95, 100) BY <1>1, Rounds
<1>4. Clamped(b, 300, 2500) \in WeightRange /\ Clamped(d, 300, 2500) \in WeightRange
  BY DEF Clamped, WeightRange
<1> QED BY <1>2, <1>3, <1>4 DEF Boosted, Decayed

(* Two winners, or two losers, have a lowest and a highest score.          *)
LEMMA ScoresOf ==
  ASSUME NEW f \in Files, NEW g \in [Kinds -> Nat], NEW T \in SUBSET Traded
  PROVE  LET scores == {g[f.records[t].kind] : t \in T} IN
         /\ scores \in SUBSET Nat /\ IsFiniteSet(scores)
         /\ Cardinality(T) >= 2 => T # {} /\ scores # {}
<1>1. \A t \in T : f.records[t].kind \in Kinds BY DEF Files
<1>2. IsFiniteSet(T) BY LearningAssumption, FS_Subset
<1> DEFINE score == [t \in T |-> g[f.records[t].kind]]
<1>3. IsFiniteSet({g[f.records[t].kind] : t \in T})
  <2>1. score \in Surjection(T, {g[f.records[t].kind] : t \in T}) BY DEF Surjection
  <2> QED BY <1>2, <2>1, FS_Surjection
<1>4. Cardinality(T) >= 2 => T # {} BY FS_EmptySet
<1> QED BY <1>1, <1>3, <1>4

LEMMA FeeFloorRises ==
  ASSUME NEW f \in Files, floors.fee \in Nat
  PROVE  LET fee == FeeAfter(f.records) IN
         fee \in Nat /\ fee >= floors.fee /\ (fee = floors.fee \/ fee <= 1000)
<1> DEFINE W == Winners(f.records)
           L == Losers(f.records)
           won == {Fee[f.records[t].kind] : t \in W}
           lost == {Fee[f.records[t].kind] : t \in L}
           current == floors.fee
           raised(target) == Rounded(Clamped(Nudged(100 * current, target), 500, 100000), 100)
           byWinners == IF Cardinality(W) >= 2 /\ 10 * Min(won) > 12 * current
                        THEN raised(85 * Min(won)) ELSE current
           byLosers == IF Cardinality(L) >= 2 /\ won # {} /\ 10 * Max(lost) < 15 * current
                          /\ Min(won) > Max(lost)
                       THEN raised(120 * Max(lost)) ELSE current
<1>1. W \in SUBSET Traded /\ L \in SUBSET Traded BY DEF Winners, Losers, Known
<1>2. Fee \in [Kinds -> Nat] BY LearningAssumption
<1>3. FeeAfter(f.records) = IF byWinners > current THEN byWinners
                            ELSE IF byLosers > current THEN byLosers ELSE current
  BY DEF FeeAfter
<1>4. ASSUME NEW target \in Int PROVE raised(target) \in Int /\ 0 <= raised(target) /\ raised(target) <= 1000
  <2>1. 100 * current \in Nat OBVIOUS
  <2>2. PICK n \in Int : n = Nudged(100 * current, target) BY <2>1, Nudges
  <2>3. PICK c \in Int : c = Clamped(n, 500, 100000) /\ 500 <= c /\ c <= 100000 BY DEF Clamped
  <2>4. PICK r \in Int : r = Rounded(c, 100) /\ 0 <= r /\ r <= 1000 BY <2>3, Rounds
  <2> QED BY <2>2, <2>3, <2>4
<1>5. Cardinality(W) >= 2 => 85 * Min(won) \in Int
  <2> HIDE DEF W
  <2>1. Cardinality(W) >= 2 => won \in SUBSET Nat /\ won # {} BY <1>1, <1>2, ScoresOf
  <2>2. Cardinality(W) >= 2 => Min(won) \in Nat BY <2>1, MinFacts
  <2> QED BY <2>2
<1>6. Cardinality(L) >= 2 => 120 * Max(lost) \in Int
  <2> HIDE DEF L
  <2>1. Cardinality(L) >= 2 => lost \in SUBSET Nat /\ lost # {} /\ IsFiniteSet(lost)
    BY <1>1, <1>2, ScoresOf
  <2>2. Cardinality(L) >= 2 => Max(lost) \in Nat BY <2>1, MaxFacts
  <2> QED BY <2>2
<1> HIDE DEF W, L, won, lost, raised
<1>7. byWinners = current \/ (byWinners \in Nat /\ byWinners <= 1000) BY <1>4, <1>5
<1>8. byLosers = current \/ (byLosers \in Nat /\ byLosers <= 1000) BY <1>4, <1>6
<1> HIDE DEF byWinners, byLosers
<1> QED BY <1>3, <1>7, <1>8

LEMMA OrganicFloorRises ==
  ASSUME NEW f \in Files, floors.organic \in Nat
  PROVE  LET organic == OrganicAfter(f.records) IN
         /\ organic \in Nat /\ organic >= floors.organic
         /\ organic = floors.organic \/ organic <= 90
         /\ (floors.organic >= 60 /\ organic # floors.organic)
              => \A t \in Winners(f.records) : Organic[f.records[t].kind] >= organic
<1> DEFINE W == Winners(f.records)
           L == Losers(f.records)
           won == {Organic[f.records[t].kind] : t \in W}
           current == floors.organic
           worst == Min(won) - 3
           target == IF worst > current THEN worst ELSE current
           next == Clamped(Rounded(Nudged(5 * current, 5 * target), 5), 60, 90)
<1>1. W \in SUBSET Traded BY DEF Winners, Known
<1>2. Organic \in [Kinds -> Nat] BY LearningAssumption
<1>3. OrganicAfter(f.records) =
        IF Cardinality(L) >= 2 /\ W # {} /\ Apart(f.records) /\ next > current THEN next ELSE current
  BY DEF OrganicAfter
<1>4. CASE OrganicAfter(f.records) = current BY <1>4
<1>5. CASE OrganicAfter(f.records) # current
  <2>1. W # {} /\ next > current /\ OrganicAfter(f.records) = next BY <1>3, <1>5
  <2> HIDE DEF W
  <2>2. won \in SUBSET Nat BY <1>1, <1>2, ScoresOf
  <2>3. won # {} BY <2>1
  <2>4. Min(won) \in Nat /\ \A j \in won : Min(won) <= j BY <2>2, <2>3, MinFacts
  <2>5. \A t \in W : Min(won) <= Organic[f.records[t].kind] BY <2>4
  <2> HIDE DEF won
  <2>6. worst \in Int /\ target \in Int /\ target >= current /\ 5 * current \in Nat
        /\ 5 * target \in Int /\ 5 * target >= 5 * current
    BY <2>4
  <2>7. (target = current \/ target = worst) /\ worst = Min(won) - 3 OBVIOUS
  <2> HIDE DEF worst, target
  <2>8. PICK n \in Int : n = Nudged(5 * current, 5 * target) /\ n <= 5 * target BY <2>6, Nudges
  <2>9. PICK r \in Int : r = Rounded(n, 5) /\ r <= target BY <2>6, <2>8, Rounds
  <2>10. next \in 60..90 /\ next <= IF r < 60 THEN 60 ELSE r BY <2>8, <2>9 DEF Clamped
  <2> HIDE DEF next
  <2>11. current >= 60 => next <= worst BY <2>1, <2>6, <2>7, <2>9, <2>10
  <2>12. current >= 60 => \A t \in W : Organic[f.records[t].kind] >= next
    <3>1. SUFFICES ASSUME current >= 60, NEW t \in W PROVE Organic[f.records[t].kind] >= next
      OBVIOUS
    <3>2. Organic[f.records[t].kind] \in Nat BY <1>1, <1>2 DEF Files
    <3> QED BY <2>4, <2>5, <2>7, <2>10, <2>11, <3>1, <3>2
  <2>13. \A t \in Winners(f.records) : t \in W BY DEF W
  <2> QED BY <2>1, <2>10, <2>12, <2>13
<1> QED BY <1>4, <1>5

-----------------------------------------------------------------------------
(* Of passes and of records. *)
LEMMA PassFacts ==
  ASSUME PassOK
  PROVE  /\ pass.at \in {"idle", "record", "evolve", "weigh", "each", "save"}
         /\ pass.at = "idle" => pass = NoPass
         /\ Copied => pass \in CopyPass
         /\ pass.at \in {"record", "evolve", "weigh"} => pass \in RecordPass
         /\ pass = NoPass => pass.at = "idle"
BY DEF PassOK, NoPass, RecordPass, CopyPass, Copied

LEMMA NoneIsARecord == None.status = "none" /\ None \in [status : Statuses, pnl : Int, kind : Kinds]
<1>1. (CHOOSE k \in Kinds : TRUE) \in Kinds BY LearningAssumption
<1> QED BY <1>1 DEF None, Statuses

(* A step that changes neither the records nor what the file says of a      *)
(* trade or a note, and begins no pass.                                    *)
LEMMA QuietStep ==
  ASSUME LearnInv, LearnedOK', MemoryOK', deploys' = deploys,
         file' \in Files, file'.records = file.records, file'.pinned = file.pinned,
         \A o \in Traded \cup Notes : o \in file'.lessons <=> o \in file.lessons,
         PassOK', pass' = pass \/ (~Copied /\ pass.at # "record" /\ ~Copied' /\ pass'.at # "record"),
         closed \subseteq closed', closed' \subseteq Traded,
         UNCHANGED <<wanted, raced, cut, edits>>
  PROVE  LearnInv'
<1>1. \A t \in Traded : CountOf(t)' = CountOf(t) BY CountStays
<1>2. HistoryOK' BY DEF LearnInv, HistoryOK
<1>3. OpenIsUnseen' BY <1>1 DEF LearnInv, OpenIsUnseen, Unseen, Copied
<1>4. RecordedIsNew'
  <2>1. SUFFICES ASSUME pass'.at = "record" PROVE RecordedIsNew' BY DEF RecordedIsNew
  <2>2. pass' = pass /\ pass.of \in Traded
    BY <2>1, PassFacts DEF LearnInv, RecordPass
  <2> QED BY <1>1, <2>1, <2>2 DEF LearnInv, RecordedIsNew
<1>5. FilesAgree' BY <1>1 DEF LearnInv, FilesAgree, Silent, Counted, Copied
<1>6. TodoWaits' BY DEF LearnInv, TodoWaits, Copied
<1>7. NotesHold' BY DEF LearnInv, NotesHold, Noted, Copied
<1> QED BY <1>2, <1>3, <1>4, <1>5, <1>6, <1>7 DEF LearnInv

LEMMA StutterStep == ASSUME LearnInv, UNCHANGED learnVars PROVE LearnInv'
<1>1. LearnedOK' BY DEF LearnInv, LearnedOK, learnVars
<1>2. MemoryOK' BY DEF LearnInv, MemoryOK, learnVars, memory
<1>3. PassOK' BY DEF LearnInv, PassOK, learnVars
<1> QED BY <1>1, <1>2, <1>3, QuietStep DEF LearnInv, HistoryOK, learnVars, memory, history

LEMMA HourStep == ASSUME LearnInv, HourPasses PROVE LearnInv'
<1>1. /\ deploys' = deploys
      /\ tokenRest' = IF tokenRest > 0 THEN tokenRest - 1 ELSE 0
      /\ poolRest' = [p \in Pools |-> IF poolRest[p] > 0 THEN poolRest[p] - 1 ELSE 0]
      /\ UNCHANGED <<file, floors, weights, pass, history>>
  BY DEF HourPasses
<1>2. MemoryOK BY DEF LearnInv
<1>3. tokenRest' \in Nat /\ tokenRest' <= tokenRest BY <1>1, <1>2 DEF MemoryOK
<1>4. \A p \in Pools : (IF poolRest[p] > 0 THEN poolRest[p] - 1 ELSE 0) \in Nat
  BY <1>2 DEF MemoryOK
<1>5. poolRest' \in [Pools -> Nat] BY <1>1, <1>4
<1>6. StopHours = OorHours => tokenRest' <= StopHours
  BY <1>2, <1>3, LearningAssumption DEF MemoryOK
<1>7. MemoryOK' BY <1>1, <1>2, <1>3, <1>5, <1>6 DEF MemoryOK
<1>8. LearnedOK' /\ PassOK' BY <1>1 DEF LearnInv, LearnedOK, PassOK
<1> QED BY <1>1, <1>7, <1>8, QuietStep DEF LearnInv, HistoryOK, history

LEMMA DropStep == ASSUME LearnInv, NEW t \in Traded, CloseDropped(t) PROVE LearnInv'
<1>1. /\ closed' = closed \cup {t}
      /\ UNCHANGED <<file, deploys, poolRest, tokenRest, floors, weights, pass,
                     wanted, raced, cut, edits>>
  BY DEF CloseDropped, memory
<1>2. LearnedOK' BY <1>1 DEF LearnInv, LearnedOK
<1>3. MemoryOK' BY <1>1 DEF LearnInv, MemoryOK
<1>4. PassOK' BY <1>1 DEF LearnInv, PassOK
<1> QED BY <1>1, <1>2, <1>3, <1>4, QuietStep DEF LearnInv, HistoryOK

LEMMA EvolveStep == ASSUME LearnInv, Evolve PROVE LearnInv'
<1> DEFINE perf == pass.data.records
<1>1. /\ pass.at = "evolve" /\ pass' = [pass EXCEPT !.at = "weigh"]
      /\ floors' = floors \/ floors' = [fee |-> FeeAfter(perf), organic |-> OrganicAfter(perf)]
      /\ file' = file \/ file' = [file EXCEPT !.lessons = @ \cup {Evolution}]
      /\ UNCHANGED <<deploys, poolRest, tokenRest, weights, closed, wanted, raced, cut, edits>>
  BY DEF Evolve, Amended, memory, history
<1>2. pass \in RecordPass /\ pass.data \in Files BY <1>1, PassFacts DEF LearnInv, RecordPass
<1>3. pass' \in RecordPass /\ pass'.at = "weigh" BY <1>1, <1>2 DEF RecordPass
<1>4. LearnedOK'
  <2>1. LearnedOK /\ floors.fee \in Nat /\ floors.organic \in Nat BY DEF LearnInv, LearnedOK
  <2>2. CASE floors' = floors BY <1>1, <2>1, <2>2 DEF LearnedOK
  <2>3. CASE floors' # floors
    <3>1. PICK fee \in Nat : /\ fee = FeeAfter(perf) /\ fee >= floors.fee
                             /\ fee = floors.fee \/ fee <= 1000
      BY <1>2, <2>1, FeeFloorRises
    <3>2. PICK organic \in Nat : /\ organic = OrganicAfter(perf) /\ organic >= floors.organic
                                 /\ organic = floors.organic \/ organic <= 90
      BY <1>2, <2>1, OrganicFloorRises
    <3>3. floors' = [fee |-> fee, organic |-> organic] BY <1>1, <2>3, <3>1, <3>2
    <3>4. floors'.fee = fee /\ floors'.organic = organic BY <3>3
    <3>5. Fee0 \in Nat /\ Organic0 \in Nat BY LearningAssumption
    <3> QED BY <1>1, <2>1, <3>1, <3>2, <3>3, <3>4, <3>5 DEF LearnedOK
  <2> QED BY <2>2, <2>3
<1>5. /\ file' \in Files /\ file'.records = file.records /\ file'.pinned = file.pinned
      /\ \A o \in Traded \cup Notes : o \in file'.lessons <=> o \in file.lessons
  BY <1>1, LearningAssumption DEF LearnInv, Files, Origins
<1>6. MemoryOK' BY <1>1 DEF LearnInv, MemoryOK
<1>7. PassOK' /\ ~Copied /\ ~Copied' /\ pass.at # "record" /\ pass'.at # "record"
  BY <1>1, <1>3 DEF PassOK, Copied
<1> QED BY <1>1, <1>4, <1>5, <1>6, <1>7, QuietStep DEF LearnInv, HistoryOK

LEMMA ReweighStep == ASSUME LearnInv, Reweigh PROVE LearnInv'
<1>1. /\ pass.at = "weigh" /\ pass' = NoPass
      /\ \/ weights' = weights
         \/ \E top \in Signals : weights' =
              [s \in Signals |-> IF s = top THEN Boosted(weights[s]) ELSE Decayed(weights[s])]
      /\ UNCHANGED <<file, deploys, poolRest, tokenRest, floors, closed, wanted, raced, cut, edits>>
  BY DEF Reweigh, memory, history, Signals
<1>2. LearnedOK'
  <2>1. LearnedOK BY DEF LearnInv
  <2>2. \A s \in Signals : Boosted(weights[s]) \in WeightRange /\ Decayed(weights[s]) \in WeightRange
    <3>1. \A s \in Signals : weights[s] \in WeightRange BY <2>1 DEF LearnedOK
    <3>2. SUFFICES ASSUME NEW s \in Signals
                   PROVE  Boosted(weights[s]) \in WeightRange /\ Decayed(weights[s]) \in WeightRange
      OBVIOUS
    <3>3. PICK w \in WeightRange : w = weights[s] BY <3>1
    <3>4. Boosted(w) \in WeightRange /\ Decayed(w) \in WeightRange BY WeightsStayInBounds
    <3> QED BY <3>3, <3>4
  <2>3. weights' \in [Signals -> WeightRange] BY <1>1, <2>1, <2>2 DEF LearnedOK
  <2> QED BY <1>1, <2>1, <2>3 DEF LearnedOK
<1>3. MemoryOK' BY <1>1 DEF LearnInv, MemoryOK
<1>4. PassOK' /\ ~Copied /\ ~Copied' /\ pass.at # "record" /\ pass'.at # "record"
  BY <1>1 DEF PassOK, Copied, NoPass
<1> QED BY <1>1, <1>2, <1>3, <1>4, QuietStep DEF LearnInv, HistoryOK

-----------------------------------------------------------------------------
(* The steps that change the records. *)
LEMMA CloseStep == ASSUME LearnInv, NEW t \in Traded, CloseTrade(t) PROVE LearnInv'
<1>1. PICK kind \in Kinds, state \in {"pending", "realized"} : \E pnl \in Results[kind] :
        \E taught \in SUBSET {t} :
          /\ state = "pending" => taught = {}
          /\ file' = [file EXCEPT !.records = [@ EXCEPT ![t] =
                                    [status |-> state, pnl |-> pnl, kind |-> kind]],
                                  !.lessons = @ \cup taught]
  <2>1. ASSUME NEW kind \in Kinds, NEW state \in {"pending", "realized"}, NEW pnl
        PROVE  (IF state = "realized" /\ Teaches(pnl, kind) THEN {t} ELSE {}) \in SUBSET {t}
    OBVIOUS
  <2> QED BY <2>1 DEF CloseTrade
<1>2. PICK pnl \in Results[kind], taught \in SUBSET {t} :
        /\ state = "pending" => taught = {}
        /\ file' = [file EXCEPT !.records = [@ EXCEPT ![t] =
                                  [status |-> state, pnl |-> pnl, kind |-> kind]],
                                !.lessons = @ \cup taught]
  BY <1>1
<1>3. /\ pass = NoPass /\ t \notin closed /\ closed' = closed \cup {t}
      /\ pass' = [at |-> "record", of |-> t, data |-> file']
      /\ UNCHANGED <<deploys, poolRest, tokenRest, floors, weights, wanted, raced, cut, edits>>
  BY DEF CloseTrade, memory
<1>4. file \in Files /\ LearnInv BY DEF LearnInv
<1>5. /\ file'.records = [file.records EXCEPT ![t] =
                            [status |-> state, pnl |-> pnl, kind |-> kind]]
      /\ file'.lessons = file.lessons \cup taught /\ file'.pinned = file.pinned
      /\ file' = [lessons |-> file'.lessons, pinned |-> file'.pinned, records |-> file'.records]
  BY <1>2, <1>4 DEF Files
<1>6. /\ file'.records[t].status = state
      /\ \A u \in Traded \ {t} : file'.records[u] = file.records[u]
      /\ \A o \in (Traded \cup Notes) \ {t} : o \in file'.lessons <=> o \in file.lessons
  BY <1>4, <1>5 DEF Files
<1>7. file' \in Files
  <2>1. pnl \in Int BY <1>2, LearningAssumption
  <2>2. [status |-> state, pnl |-> pnl, kind |-> kind] \in
          [status : Statuses, pnl : Int, kind : Kinds]
    BY <2>1 DEF Statuses, Settled
  <2>3. file'.records \in [Traded -> [status : Statuses, pnl : Int, kind : Kinds]]
    BY <1>4, <1>5, <2>2 DEF Files
  <2>4. file'.lessons \subseteq Origins /\ file'.pinned \subseteq Notes
    BY <1>4, <1>5 DEF Files, Origins
  <2> QED BY <1>5, <2>3, <2>4 DEF Files
<1>8. pass' \in RecordPass /\ pass'.at = "record" /\ pass'.of = t /\ pass'.data = file'
  BY <1>3, <1>7 DEF RecordPass
<1>9. \A u \in Traded : CountOf(u)' = CountOf(u) BY <1>3, CountStays
<1>10. ~Copied /\ ~Copied' /\ pass.at # "record" BY <1>3, <1>8 DEF Copied, NoPass
<1>11. MemoryOK' BY <1>3, <1>4 DEF LearnInv, MemoryOK
<1>12. LearnedOK' BY <1>3, <1>4 DEF LearnInv, LearnedOK
<1>13. HistoryOK' BY <1>3, <1>4 DEF LearnInv, HistoryOK
<1>14. PassOK' BY <1>8 DEF PassOK
<1>15. CountOf(t) = 0 /\ t \notin file.lessons
  BY <1>3, <1>4 DEF LearnInv, OpenIsUnseen, Unseen
<1>16. OpenIsUnseen'
  BY <1>3, <1>4, <1>6, <1>9, <1>10 DEF LearnInv, OpenIsUnseen, Unseen
<1>17. RecordedIsNew'
  <2>1. pass'.data.records[pass'.of] = file'.records[pass'.of] BY <1>8
  <2>2. t \in closed' /\ CountOf(t)' = 0 BY <1>3, <1>9, <1>15
  <2> QED BY <1>6, <1>8, <2>1, <2>2 DEF RecordedIsNew
<1>18. FilesAgree'
  <2>1. SUFFICES ASSUME NEW u \in Traded \ cut'
                 PROVE  /\ CountOf(u)' <= 1 /\ Silent(u, file)'
                        /\ ~(pass'.at = "record" /\ pass'.of = u) => Counted(u, file)'
    BY <1>10 DEF FilesAgree
  <2>2. /\ CountOf(u) <= 1 /\ Silent(u, file)
        /\ Counted(u, file)
    BY <1>3, <1>4, <1>10, <2>1 DEF LearnInv, FilesAgree
  <2>3. CASE u = t
    BY <1>2, <1>5, <1>6, <1>8, <1>9, <1>15, <2>2, <2>3 DEF Silent
  <2>4. CASE u # t
    <3>1. file'.records[u] = file.records[u] /\ CountOf(u)' = CountOf(u)
          /\ (u \in file'.lessons <=> u \in file.lessons)
      BY <1>6, <1>9, <2>1, <2>4
    <3> QED BY <2>2, <3>1 DEF Silent, Counted
  <2> QED BY <2>3, <2>4
<1>19. TodoWaits' BY <1>10 DEF TodoWaits
<1>20. NotesHold'
  <2>1. \A n \in Notes : n # t BY LearningAssumption
  <2> QED BY <1>3, <1>4, <1>5, <1>6, <1>10, <2>1 DEF LearnInv, NotesHold, Noted
<1> QED BY <1>7, <1>11, <1>12, <1>13, <1>14, <1>16, <1>17, <1>18, <1>19, <1>20 DEF LearnInv

LEMMA RecordedStep == ASSUME LearnInv, Recorded PROVE LearnInv'
<1>1. /\ pass.at = "record"
      /\ LET r == pass.data.records[pass.of] IN
           IF r.status # "pending" THEN Remember(pass.of, r.kind, Why[r.kind])
           ELSE UNCHANGED <<deploys, poolRest, tokenRest>>
      /\ pass' = [pass EXCEPT !.at = "evolve"] \/ pass' = NoPass
      /\ UNCHANGED <<file, floors, weights, closed, wanted, raced, cut, edits>>
  BY DEF Recorded, RecordedFinally, memory, history
<1>2. pass \in RecordPass BY <1>1, PassFacts DEF LearnInv
<1>3. PICK t \in Traded : t = pass.of BY <1>2 DEF RecordPass
<1>4. PICK r : r = pass.data.records[t] OBVIOUS
<1>5. r.kind \in Kinds BY <1>2, <1>4 DEF RecordPass, Files
<1>6. pass' \in {NoPass} \cup RecordPass /\ pass'.at \in {"idle", "evolve"}
  BY <1>1, <1>2 DEF RecordPass, NoPass
<1>7. ~Copied /\ ~Copied' /\ pass'.at # "record" BY <1>1, <1>6 DEF Copied
<1>8. /\ t \in closed /\ CountOf(t) = 0 /\ r.status \in {"pending", "realized"}
      /\ file.records[t].status \in {"none", r.status}
  BY <1>1, <1>3, <1>4 DEF LearnInv, RecordedIsNew
<1>9. MemoryOK BY DEF LearnInv
<1>10. /\ MemoryOK'
       /\ CountOf(t)' = IF r.status # "pending" THEN 1 ELSE 0
       /\ \A u \in Traded \ {t} : CountOf(u)' = CountOf(u)
  <2>1. CASE r.status # "pending"
    <3>1. Remember(t, r.kind, Why[r.kind]) /\ Why[r.kind] \in Reasons
      BY <1>1, <1>3, <1>4, <1>5, <2>1, LearningAssumption
    <3> QED BY <1>8, <1>9, <1>5, <2>1, <3>1, RememberKeeps
  <2>2. CASE r.status = "pending"
    <3>1. \A u \in Traded : CountOf(u)' = CountOf(u) BY <1>1, <1>3, <1>4, <2>2, CountStays
    <3>2. MemoryOK' BY <1>1, <1>3, <1>9, <1>4, <2>2 DEF MemoryOK
    <3> QED BY <1>3, <1>8, <2>2, <3>1, <3>2
  <2> QED BY <2>1, <2>2
<1>11. LearnedOK' BY <1>1 DEF LearnInv, LearnedOK
<1>12. HistoryOK' BY <1>1 DEF LearnInv, HistoryOK
<1>13. OpenIsUnseen'
  <2>1. \A u \in Traded \ closed : u # t BY <1>8
  <2> QED BY <1>1, <1>7, <1>10, <2>1 DEF LearnInv, OpenIsUnseen, Unseen
<1>14. FilesAgree'
  <2>1. SUFFICES ASSUME NEW u \in Traded \ cut'
                 PROVE  CountOf(u)' <= 1 /\ Silent(u, file)' /\ Counted(u, file)'
    BY <1>7 DEF FilesAgree
  <2>2. /\ CountOf(u) <= 1 /\ Silent(u, file) /\ (u # t => Counted(u, file))
    BY <1>1, <1>3, <1>7, <2>1 DEF LearnInv, FilesAgree
  <2>3. CASE u = t BY <1>1, <1>8, <1>10, <2>2, <2>3 DEF Silent, Counted, Settled
  <2>4. CASE u # t BY <1>1, <1>10, <2>1, <2>2, <2>4 DEF Silent, Counted
  <2> QED BY <2>3, <2>4
<1>15. TodoWaits' /\ RecordedIsNew' BY <1>7 DEF TodoWaits, RecordedIsNew
<1>16. NotesHold' BY <1>1, <1>7 DEF LearnInv, NotesHold, Noted
<1>17. file' \in Files /\ PassOK' BY <1>1, <1>6 DEF LearnInv, PassOK
<1> QED BY <1>10, <1>11, <1>12, <1>13, <1>14, <1>15, <1>16, <1>17 DEF LearnInv

LEMMA StartStep == ASSUME LearnInv, PassStarts PROVE LearnInv'
<1>1. PICK kind \in {"settle", "abandon", "orphans"}, T \in SUBSET Waiting(file.records) \ {{}} :
        pass' = [at |-> "each", kind |-> kind, copy |-> file, todo |-> T, taught |-> FALSE]
  BY DEF PassStarts
<1>2. /\ pass = NoPass
      /\ UNCHANGED <<file, deploys, poolRest, tokenRest, floors, weights,
                     closed, wanted, raced, cut, edits>>
  BY DEF PassStarts, memory, history
<1>3. T \in SUBSET Waiting(file.records) OBVIOUS
<1>4. \A t \in T : t \in Traded /\ file.records[t].status = "pending" BY <1>3 DEF Waiting
<1>5. pass' \in CopyPass /\ pass'.at = "each" /\ pass'.copy = file /\ pass'.todo = T
  <2>1. file \in Files BY DEF LearnInv
  <2>2. T \in SUBSET Traded BY <1>4
  <2> QED BY <1>1, <2>1, <2>2 DEF CopyPass
<1>6. Copied' /\ ~Copied /\ pass.at = "idle" /\ pass'.at # "record"
  BY <1>2, <1>5 DEF Copied, NoPass
<1>7. \A t \in Traded : CountOf(t)' = CountOf(t) BY <1>2, CountStays
<1>8. MemoryOK' BY <1>2 DEF LearnInv, MemoryOK
<1>9. LearnedOK' BY <1>2 DEF LearnInv, LearnedOK
<1>10. HistoryOK' BY <1>2 DEF LearnInv, HistoryOK
<1>11. OpenIsUnseen' BY <1>2, <1>5, <1>7 DEF LearnInv, OpenIsUnseen, Unseen
<1>12. RecordedIsNew' BY <1>6 DEF RecordedIsNew
<1>13. FilesAgree' BY <1>2, <1>5, <1>6, <1>7 DEF LearnInv, FilesAgree, Silent, Counted
<1>14. TodoWaits' BY <1>4, <1>5 DEF TodoWaits
<1>15. NotesHold' BY <1>2, <1>5 DEF LearnInv, NotesHold, Noted
<1>16. file' \in Files /\ PassOK' BY <1>2, <1>5 DEF LearnInv, PassOK
<1> QED BY <1>8, <1>9, <1>10, <1>11, <1>12, <1>13, <1>14, <1>15, <1>16 DEF LearnInv

LEMMA NextStep == ASSUME LearnInv, PassNext PROVE LearnInv'
<1> DEFINE Does(t, pnl, X) ==
        LET r == [pass.copy.records[t] EXCEPT
                   !.status = IF pass.kind = "settle" THEN "realized" ELSE "lost", !.pnl = pnl] IN
        /\ Remember(t, r.kind, IF pass.kind = "abandon" THEN "other" ELSE Why[r.kind])
        /\ pass' = [pass EXCEPT !.copy = [records |-> [@.records EXCEPT ![t] = r],
                                          lessons |-> @.lessons \cup X, pinned |-> @.pinned],
                                !.todo = @ \ {t}, !.taught = TRUE,
                                !.at = IF pass.todo = {t} THEN "save" ELSE @]
<1> DEFINE Teach(t, pnl) ==
        LET r == [pass.copy.records[t] EXCEPT
                   !.status = IF pass.kind = "settle" THEN "realized" ELSE "lost", !.pnl = pnl] IN
        \/ pass.kind = "settle" /\ Teaches(pnl, r.kind)
        \/ pass.kind = "abandon" /\ ~pass.taught
<1>0. PICK t \in pass.todo : \E pnl \in Results[pass.copy.records[t].kind] :
        \E X \in SUBSET {t} : Does(t, pnl, X)
  <2>1. \E t \in pass.todo : \E pnl \in Results[pass.copy.records[t].kind] :
          Does(t, pnl, IF Teach(t, pnl) THEN {t} ELSE {})
    BY DEF PassNext, Remembered
  <2>2. \A t, b : (IF b THEN {t} ELSE {}) \in SUBSET {t} OBVIOUS
  <2> HIDE DEF Does, Teach
  <2> QED BY <2>1, <2>2
<1>1. PICK pnl \in Results[pass.copy.records[t].kind], X \in SUBSET {t} : Does(t, pnl, X)
  BY <1>0
<1>2. pass.at = "each" /\ UNCHANGED <<file, floors, weights, closed, wanted, raced, cut, edits>>
  BY DEF PassNext, history
<1>3. Copied /\ pass \in CopyPass BY <1>2, PassFacts DEF LearnInv, Copied
<1>4. pass.copy \in Files /\ pass.todo \in SUBSET Traded BY <1>3 DEF CopyPass
<1>5. t \in Traded BY <1>1, <1>4
<1>6. PICK r : r = [pass.copy.records[t] EXCEPT
                     !.status = IF pass.kind = "settle" THEN "realized" ELSE "lost", !.pnl = pnl]
  OBVIOUS
<1>7. r \in [status : Statuses, pnl : Int, kind : Kinds] /\ r.status \in Settled
  <2>1. pass.copy.records[t] \in [status : Statuses, pnl : Int, kind : Kinds]
    BY <1>4, <1>5 DEF Files
  <2>2. pnl \in Int BY <1>1, <2>1, LearningAssumption
  <2>3. "realized" \in Settled \cap Statuses /\ "lost" \in Settled \cap Statuses
    BY DEF Settled, Statuses
  <2> HIDE DEF Settled, Statuses
  <2> QED BY <1>6, <2>1, <2>2, <2>3
<1>8. \E why \in Reasons : Remember(t, r.kind, why)
  <2>1. Remember(t, r.kind, IF pass.kind = "abandon" THEN "other" ELSE Why[r.kind]) BY <1>1, <1>6
  <2>2. Why[r.kind] \in Reasons /\ "other" \in Reasons BY <1>7, LearningAssumption DEF Reasons
  <2> QED BY <2>1, <2>2
<1>9. PICK copy : copy = [records |-> [pass.copy.records EXCEPT ![t] = r],
                          lessons |-> pass.copy.lessons \cup X, pinned |-> pass.copy.pinned]
  OBVIOUS
<1>10. /\ copy.records[t] = r
       /\ \A u \in Traded \ {t} : copy.records[u] = pass.copy.records[u]
       /\ \A o \in (Traded \cup Notes) \ {t} : o \in copy.lessons <=> o \in pass.copy.lessons
       /\ copy.pinned = pass.copy.pinned
  BY <1>4, <1>5, <1>9 DEF Files
<1>11. copy \in Files
  <2>1. copy.records \in [Traded -> [status : Statuses, pnl : Int, kind : Kinds]]
    BY <1>4, <1>7, <1>9 DEF Files
  <2>2. copy.lessons \subseteq Origins /\ copy.pinned \subseteq Notes
    BY <1>4, <1>5, <1>9 DEF Files, Origins
  <2>3. copy = [lessons |-> copy.lessons, pinned |-> copy.pinned, records |-> copy.records]
    BY <1>9
  <2> QED BY <2>1, <2>2, <2>3 DEF Files
<1>12. pass' = [pass EXCEPT !.copy = copy, !.todo = @ \ {t}, !.taught = TRUE,
                            !.at = IF pass.todo = {t} THEN "save" ELSE @]
  BY <1>1, <1>6, <1>9
<1>13. /\ pass'.copy = copy /\ pass'.todo = pass.todo \ {t} /\ pass' \in CopyPass
       /\ Copied' /\ pass'.at # "record"
  <2>1. (IF pass.todo = {t} THEN "save" ELSE pass.at) \in {"each", "save"} BY <1>2
  <2> QED BY <1>3, <1>4, <1>11, <1>12, <2>1 DEF CopyPass, Copied
<1>14. /\ MemoryOK' /\ CountOf(t)' = CountOf(t) + 1
       /\ \A u \in Traded \ {t} : CountOf(u)' = CountOf(u)
  BY <1>5, <1>7, <1>8, RememberKeeps DEF LearnInv
<1>15. pass.copy.records[t].status = "pending" BY <1>1, <1>3 DEF LearnInv, TodoWaits
<1>16. t \in closed
  BY <1>3, <1>5, <1>15 DEF LearnInv, OpenIsUnseen, Unseen
<1>17. LearnedOK' BY <1>2 DEF LearnInv, LearnedOK
<1>18. HistoryOK' BY <1>2 DEF LearnInv, HistoryOK
<1>19. OpenIsUnseen'
  BY <1>2, <1>3, <1>10, <1>13, <1>14, <1>16 DEF LearnInv, OpenIsUnseen, Unseen
<1>20. RecordedIsNew' BY <1>13 DEF RecordedIsNew
<1>21. FilesAgree'
  <2>1. SUFFICES ASSUME NEW u \in Traded \ cut'
                 PROVE  /\ CountOf(u)' <= 1 /\ Counted(u, file)'
                        /\ Silent(u, pass.copy)' /\ Counted(u, pass.copy)'
    BY <1>13 DEF FilesAgree
  <2>2. /\ CountOf(u) <= 1 /\ Counted(u, file)
        /\ Silent(u, pass.copy) /\ Counted(u, pass.copy)
    BY <1>2, <1>3, <2>1 DEF LearnInv, FilesAgree
  <2>3. CASE u = t
    <3>1. CountOf(t) = 0 BY <1>15, <2>2, <2>3 DEF Silent
    <3>2. r.status # "pending" BY <1>7 DEF Settled
    <3> QED BY <1>10, <1>13, <1>14, <2>3, <3>1, <3>2 DEF Silent, Counted
  <2>4. CASE u # t
    <3>1. CountOf(u)' = CountOf(u) BY <1>14, <2>1, <2>4
    <3>2. /\ copy.records[u] = pass.copy.records[u]
          /\ u \in copy.lessons <=> u \in pass.copy.lessons
      BY <1>10, <2>1, <2>4
    <3> QED BY <1>2, <1>13, <2>2, <3>1, <3>2 DEF Silent, Counted
  <2> QED BY <2>3, <2>4
<1>22. TodoWaits'
  <2>1. \A u \in pass.todo \ {t} : copy.records[u].status = "pending"
    BY <1>3, <1>4, <1>10 DEF LearnInv, TodoWaits
  <2> QED BY <1>13, <2>1 DEF TodoWaits
<1>23. NotesHold'
  <2>1. \A n \in Notes : n # t BY <1>5, LearningAssumption
  <2> QED BY <1>2, <1>3, <1>10, <1>13, <2>1 DEF LearnInv, NotesHold, Noted
<1>24. file' \in Files /\ PassOK' BY <1>2, <1>13 DEF LearnInv, PassOK
<1> QED BY <1>14, <1>17, <1>18, <1>19, <1>20, <1>21, <1>22, <1>23, <1>24 DEF LearnInv

LEMMA SaveStep == ASSUME LearnInv, PassSaves PROVE LearnInv'
<1>1. /\ pass.at = "save" /\ file' = pass.copy /\ pass' = NoPass
      /\ UNCHANGED <<deploys, poolRest, tokenRest, floors, weights,
                     closed, wanted, raced, cut, edits>>
  BY DEF PassSaves, memory, history
<1>2. Copied /\ pass \in CopyPass /\ pass.copy \in Files
  BY <1>1, PassFacts DEF LearnInv, Copied, CopyPass
<1>3. ~Copied' /\ pass'.at # "record" BY <1>1 DEF Copied, NoPass
<1>4. \A t \in Traded : CountOf(t)' = CountOf(t) BY <1>1, CountStays
<1>5. MemoryOK' BY <1>1 DEF LearnInv, MemoryOK
<1>6. LearnedOK' BY <1>1 DEF LearnInv, LearnedOK
<1>7. HistoryOK' BY <1>1 DEF LearnInv, HistoryOK
<1>8. OpenIsUnseen' BY <1>1, <1>2, <1>3, <1>4 DEF LearnInv, OpenIsUnseen, Unseen
<1>9. FilesAgree' BY <1>1, <1>2, <1>3, <1>4 DEF LearnInv, FilesAgree, Silent, Counted
<1>10. TodoWaits' /\ RecordedIsNew' BY <1>3 DEF TodoWaits, RecordedIsNew
<1>11. NotesHold' BY <1>1, <1>2, <1>3 DEF LearnInv, NotesHold, Noted
<1>12. file' \in Files /\ PassOK' BY <1>1, <1>2 DEF PassOK
<1> QED BY <1>5, <1>6, <1>7, <1>8, <1>9, <1>10, <1>11, <1>12 DEF LearnInv

-----------------------------------------------------------------------------
(* Edits and crashes.  An edit leaves a record or clears it, takes a        *)
(* trade's lesson or leaves it, and does to a note in the file what is     *)
(* wanted; if a copy is held, the copy's notes are unchanged or raced.     *)
LEMMA EditStep ==
  ASSUME LearnInv, NEW X \in SUBSET (Traded \cup Notes), Edited(X), file' \in Files,
         wanted' \in [lessons : SUBSET Notes, pinned : SUBSET Notes],
         \A t \in Traded : /\ file'.records[t] = file.records[t] \/ file'.records[t].status = "none"
                           /\ t \in file'.lessons => t \in file.lessons,
         \A n \in Notes : Noted(n, file) => Noted(n, file)',
         \A n \in Notes \ X : /\ n \in wanted'.lessons <=> n \in wanted.lessons
                              /\ n \in wanted'.pinned <=> n \in wanted.pinned
  PROVE  LearnInv'
<1>1. /\ edits < Edits /\ edits' = edits + 1
      /\ raced' = (IF Copied THEN raced \cup X ELSE raced)
      /\ UNCHANGED <<deploys, poolRest, tokenRest, floors, weights, pass, closed, cut>>
  BY DEF Edited, memory
<1>2. Copied' <=> Copied BY <1>1 DEF Copied
<1>3. \A t \in Traded : CountOf(t)' = CountOf(t) BY <1>1, CountStays
<1>4. MemoryOK' BY <1>1 DEF LearnInv, MemoryOK
<1>5. LearnedOK' BY <1>1 DEF LearnInv, LearnedOK
<1>6. HistoryOK'
  <2>1. edits' \in 0..Edits BY <1>1, LearningAssumption DEF LearnInv, HistoryOK
  <2>2. raced' \subseteq Traded \cup Notes BY <1>1 DEF LearnInv, HistoryOK
  <2> QED BY <1>1, <2>1, <2>2 DEF LearnInv, HistoryOK
<1>7. PassOK' BY <1>1 DEF LearnInv, PassOK
<1>8. OpenIsUnseen' BY <1>1, <1>2, <1>3 DEF LearnInv, OpenIsUnseen, Unseen
<1>9. RecordedIsNew'
  <2>1. pass.at = "record" => pass.of \in Traded BY PassFacts DEF LearnInv, RecordPass
  <2> QED BY <1>1, <1>3, <2>1 DEF LearnInv, RecordedIsNew
<1>10. FilesAgree' BY <1>1, <1>2, <1>3 DEF LearnInv, FilesAgree, Silent, Counted, Settled
<1>11. TodoWaits' BY <1>1, <1>2 DEF LearnInv, TodoWaits
<1>12. NotesHold'
  <2>1. SUFFICES ASSUME NEW n \in Notes \ raced'
                 PROVE  Noted(n, file)' /\ (Copied' => Noted(n, pass.copy)')
    BY DEF NotesHold
  <2>2. Noted(n, file) /\ (Copied => Noted(n, pass.copy))
    BY <1>1, <2>1 DEF LearnInv, NotesHold
  <2>3. Noted(n, file)' BY <2>1, <2>2
  <2>4. ASSUME Copied' PROVE Noted(n, pass.copy)'
    <3>1. n \notin X BY <1>1, <1>2, <2>1, <2>4
    <3> QED BY <1>1, <1>2, <2>1, <2>2, <2>4, <3>1 DEF Noted
  <2> QED BY <2>3, <2>4
<1> QED BY <1>4, <1>5, <1>6, <1>7, <1>8, <1>9, <1>10, <1>11, <1>12 DEF LearnInv

LEMMA AddStep == ASSUME LearnInv, NEW n \in Notes, AddLesson(n) PROVE LearnInv'
<1>1. /\ Edited({n}) /\ file' = [file EXCEPT !.lessons = @ \cup {n}]
      /\ wanted' = [wanted EXCEPT !.lessons = @ \cup {n}]
  BY DEF AddLesson
<1>2. file \in Files /\ wanted \in [lessons : SUBSET Notes, pinned : SUBSET Notes]
  BY DEF LearnInv, HistoryOK
<1>3. /\ file'.lessons = file.lessons \cup {n} /\ file'.pinned = file.pinned
      /\ file'.records = file.records /\ file' \in Files
  BY <1>1, <1>2 DEF Files, Origins
<1>4. /\ wanted'.lessons = wanted.lessons \cup {n} /\ wanted'.pinned = wanted.pinned
      /\ wanted' \in [lessons : SUBSET Notes, pinned : SUBSET Notes]
  BY <1>1, <1>2
<1>5. n \notin Traded BY LearningAssumption
<1>6. \A m \in Notes : Noted(m, file) => Noted(m, file)' BY <1>3, <1>4 DEF Noted
<1> QED BY <1>1, <1>3, <1>4, <1>5, <1>6, EditStep

LEMMA PinStep == ASSUME LearnInv, NEW n \in Notes, PinLesson(n) PROVE LearnInv'
<1> DEFINE mark(pin, pinned) == IF pin THEN pinned \cup {n} ELSE pinned \ {n}
<1>1. PICK pin \in BOOLEAN : /\ file' = [file EXCEPT !.pinned = mark(pin, @)]
                             /\ wanted' = [wanted EXCEPT !.pinned = mark(pin, @)]
  BY DEF PinLesson
<1>2. Edited({n}) BY DEF PinLesson
<1>3. file \in Files /\ wanted \in [lessons : SUBSET Notes, pinned : SUBSET Notes]
  BY DEF LearnInv, HistoryOK
<1>4. /\ file'.pinned = mark(pin, file.pinned) /\ file'.lessons = file.lessons
      /\ file'.records = file.records /\ file' \in Files
  BY <1>1, <1>3 DEF Files
<1>5. /\ wanted'.pinned = mark(pin, wanted.pinned) /\ wanted'.lessons = wanted.lessons
      /\ wanted' \in [lessons : SUBSET Notes, pinned : SUBSET Notes]
  BY <1>1, <1>3
<1>6. \A m \in Notes : Noted(m, file) => Noted(m, file)' BY <1>4, <1>5 DEF Noted
<1> QED BY <1>2, <1>4, <1>5, <1>6, EditStep

LEMMA RemoveStep == ASSUME LearnInv, RemoveLessons PROVE LearnInv'
<1>1. PICK L : /\ file' = [file EXCEPT !.lessons = @ \ L, !.pinned = @ \ L]
               /\ wanted' = [wanted EXCEPT !.lessons = @ \ L, !.pinned = @ \ L]
  BY DEF RemoveLessons
<1>2. Edited(Notes) BY DEF RemoveLessons
<1>3. file \in Files /\ wanted \in [lessons : SUBSET Notes, pinned : SUBSET Notes]
  BY DEF LearnInv, HistoryOK
<1>4. /\ file'.lessons = file.lessons \ L /\ file'.pinned = file.pinned \ L
      /\ file'.records = file.records /\ file' \in Files
  BY <1>1, <1>3 DEF Files
<1>5. /\ wanted'.lessons = wanted.lessons \ L /\ wanted'.pinned = wanted.pinned \ L
      /\ wanted' \in [lessons : SUBSET Notes, pinned : SUBSET Notes]
  BY <1>1, <1>3
<1>6. \A m \in Notes : Noted(m, file) => Noted(m, file)' BY <1>4, <1>5 DEF Noted
<1> QED BY <1>2, <1>4, <1>5, <1>6, EditStep

LEMMA ClearStep == ASSUME LearnInv, ClearPerformance PROVE LearnInv'
<1>1. Edited(Traded) /\ wanted' = wanted /\ file' = [file EXCEPT !.records = [t \in Traded |-> None]]
  BY DEF ClearPerformance
<1>2. file \in Files /\ wanted \in [lessons : SUBSET Notes, pinned : SUBSET Notes]
  BY DEF LearnInv, HistoryOK
<1>3. /\ file'.lessons = file.lessons /\ file'.pinned = file.pinned
      /\ file'.records = [t \in Traded |-> None] /\ file' \in Files
  BY <1>1, <1>2, NoneIsARecord DEF Files
<1>4. \A t \in Traded : file'.records[t].status = "none" BY <1>3, NoneIsARecord
<1>5. \A m \in Notes : Noted(m, file) => Noted(m, file)' BY <1>1, <1>3 DEF Noted
<1> QED BY <1>1, <1>2, <1>3, <1>4, <1>5, EditStep

LEMMA CutStep == ASSUME LearnInv, CutOff PROVE LearnInv'
<1>1. /\ edits < Edits /\ edits' = edits + 1 /\ pass' = NoPass
      /\ cut' = cut \cup (IF Copied THEN Waiting(file.records)
                          ELSE IF pass.at = "record" THEN {pass.of} ELSE {})
      /\ UNCHANGED <<file, deploys, poolRest, tokenRest, floors, weights, closed, wanted, raced>>
  BY DEF CutOff, memory
<1>2. ~Copied' /\ pass'.at # "record" BY <1>1 DEF Copied, NoPass
<1>3. \A t \in Traded : CountOf(t)' = CountOf(t) BY <1>1, CountStays
<1>4. MemoryOK' BY <1>1 DEF LearnInv, MemoryOK
<1>5. LearnedOK' BY <1>1 DEF LearnInv, LearnedOK
<1>6. HistoryOK'
  <2>1. edits' \in 0..Edits BY <1>1, LearningAssumption DEF LearnInv, HistoryOK
  <2>2. pass.at = "record" => pass.of \in Traded BY PassFacts DEF LearnInv, RecordPass
  <2>3. cut' \subseteq Traded BY <1>1, <2>2 DEF LearnInv, HistoryOK, Waiting
  <2> QED BY <1>1, <2>1, <2>3 DEF LearnInv, HistoryOK
<1>7. PassOK' /\ file' \in Files BY <1>1 DEF LearnInv, PassOK
<1>8. OpenIsUnseen' BY <1>1, <1>2, <1>3 DEF LearnInv, OpenIsUnseen, Unseen
<1>9. TodoWaits' /\ RecordedIsNew' BY <1>2 DEF TodoWaits, RecordedIsNew
<1>10. FilesAgree'
  <2>1. SUFFICES ASSUME NEW u \in Traded \ cut'
                 PROVE  CountOf(u)' <= 1 /\ Silent(u, file)' /\ Counted(u, file)'
    BY <1>2 DEF FilesAgree
  <2>2. u \in Traded \ cut BY <1>1, <2>1
  <2>3. CountOf(u) <= 1 BY <2>2 DEF LearnInv, FilesAgree
  <2>4. Silent(u, file)
    <3>1. Copied => file.records[u].status # "pending" BY <1>1, <2>1 DEF Waiting
    <3> QED BY <2>2, <3>1 DEF LearnInv, FilesAgree, Silent
  <2>5. Counted(u, file)
    <3>1. Copied => pass.at # "record" BY DEF Copied
    <3>2. ~(pass.at = "record" /\ pass.of = u) BY <1>1, <2>1, <3>1
    <3> QED BY <2>2, <3>2 DEF LearnInv, FilesAgree
  <2> QED BY <1>1, <1>3, <2>2, <2>3, <2>4, <2>5 DEF Silent, Counted
<1>11. NotesHold' BY <1>1, <1>2 DEF LearnInv, NotesHold, Noted
<1> QED BY <1>4, <1>5, <1>6, <1>7, <1>8, <1>9, <1>10, <1>11 DEF LearnInv

-----------------------------------------------------------------------------
LEMMA LearnStarts == LearnInit => LearnInv
<1>1. SUFFICES ASSUME LearnInit PROVE LearnInv OBVIOUS
<1>2. PICK N \in SUBSET Notes :
        /\ file = [lessons |-> N, pinned |-> {}, records |-> [t \in Traded |-> None]]
        /\ wanted = [lessons |-> N, pinned |-> {}]
  BY <1>1 DEF LearnInit
<1>3. /\ deploys = [p \in Pools |-> <<>>] /\ poolRest = [p \in Pools |-> 0] /\ tokenRest = 0
      /\ floors = [fee |-> Fee0, organic |-> Organic0] /\ weights = [s \in Signals |-> 1000]
      /\ pass = NoPass /\ closed = {} /\ raced = {} /\ cut = {} /\ edits = 0
  BY <1>1 DEF LearnInit
<1>4. file \in Files BY <1>2, NoneIsARecord DEF Files, Origins
<1>5. \A t \in Traded : Unseen(t, file) BY <1>2, NoneIsARecord, LearningAssumption DEF Unseen
<1>6. \A t \in Traded : CountOf(t) = 0
  <2>1. SUFFICES ASSUME NEW t \in Traded PROVE CountOf(t) = 0 OBVIOUS
  <2>2. deploys[PoolOf[t]] = <<>> BY <1>3, LearningAssumption
  <2>3. {i \in DOMAIN deploys[PoolOf[t]] : deploys[PoolOf[t]][i].of = t} = {} BY <2>2
  <2> QED BY <2>3, FS_EmptySet DEF CountOf
<1>7. ~Copied /\ pass.at # "record" BY <1>3 DEF Copied, NoPass
<1>8. MemoryOK BY <1>3, LearningAssumption DEF MemoryOK
<1>9. LearnedOK BY <1>3, LearningAssumption DEF LearnedOK, WeightRange
<1>10. HistoryOK BY <1>2, <1>3, LearningAssumption DEF HistoryOK
<1>11. PassOK /\ TodoWaits /\ RecordedIsNew BY <1>3, <1>7 DEF PassOK, TodoWaits, RecordedIsNew
<1>12. OpenIsUnseen BY <1>5, <1>6, <1>7 DEF OpenIsUnseen
<1>13. FilesAgree BY <1>5, <1>6, <1>7 DEF FilesAgree, Silent, Counted, Unseen, Settled
<1>14. NotesHold BY <1>2, <1>7 DEF NotesHold, Noted
<1> QED BY <1>4, <1>8, <1>9, <1>10, <1>11, <1>12, <1>13, <1>14 DEF LearnInv

LEMMA LearnGoesOn == LearnInv /\ [LearnNext]_learnVars => LearnInv'
<1>1. SUFFICES ASSUME LearnInv, [LearnNext]_learnVars PROVE LearnInv' OBVIOUS
<1>2. ASSUME NEW t \in Traded, CloseTrade(t) \/ CloseDropped(t) PROVE LearnInv'
  BY <1>1, <1>2, CloseStep, DropStep
<1>3. CASE Recorded \/ Evolve \/ Reweigh BY <1>1, <1>3, RecordedStep, EvolveStep, ReweighStep
<1>4. CASE PassStarts \/ PassNext \/ PassSaves BY <1>1, <1>4, StartStep, NextStep, SaveStep
<1>5. ASSUME NEW n \in Notes, AddLesson(n) \/ PinLesson(n) PROVE LearnInv'
  BY <1>1, <1>5, AddStep, PinStep
<1>6. CASE RemoveLessons \/ ClearPerformance BY <1>1, <1>6, RemoveStep, ClearStep
<1>7. CASE CutOff \/ HourPasses BY <1>1, <1>7, CutStep, HourStep
<1>8. CASE UNCHANGED learnVars BY <1>1, <1>8, StutterStep
<1> QED BY <1>1, <1>2, <1>3, <1>4, <1>5, <1>6, <1>7, <1>8 DEF LearnNext

LEMMA LearnInvHolds == LearnSpec => []LearnInv
BY LearnStarts, LearnGoesOn, PTL DEF LearnSpec

LEMMA TypesFollow == LearnInv => LearnTypeOK
<1>1. SUFFICES ASSUME LearnInv PROVE LearnTypeOK OBVIOUS
<1>2. deploys \in [Pools -> Seq(Deploys)]
      /\ poolRest \in [Pools -> Nat] /\ tokenRest \in Nat
  BY <1>1 DEF LearnInv, MemoryOK, Deploys
<1>3. floors \in [fee : UpFrom(Fee0, 1000), organic : UpFrom(Organic0, 90)]
  <2>1. LearnedOK /\ Fee0 \in Nat /\ Organic0 \in Nat
    BY <1>1, LearningAssumption DEF LearnInv
  <2>2. floors.fee \in UpFrom(Fee0, 1000) BY <2>1 DEF LearnedOK, UpFrom
  <2>3. floors.organic \in UpFrom(Organic0, 90) BY <2>1 DEF LearnedOK, UpFrom
  <2>4. floors = [fee |-> floors.fee, organic |-> floors.organic] BY <2>1 DEF LearnedOK
  <2> QED BY <2>2, <2>3, <2>4
<1>4. weights \in [Signals -> WeightRange] BY <1>1 DEF LearnInv, LearnedOK
<1>5. /\ closed \subseteq Traded /\ raced \subseteq Traded \cup Notes /\ cut \subseteq Traded
      /\ wanted \in [lessons : SUBSET Notes, pinned : SUBSET Notes]
      /\ edits \in 0..Edits
  BY <1>1 DEF LearnInv, HistoryOK
<1>6. /\ pass.at \in {"idle", "record", "evolve", "weigh", "each", "save"}
      /\ Copied => pass \in CopyPass
  BY <1>1, PassFacts DEF LearnInv
<1>7. Copied => /\ pass.copy \in Files
                /\ \A t \in pass.todo : pass.copy.records[t].status = "pending"
  BY <1>1, <1>6 DEF LearnInv, CopyPass, TodoWaits
<1>8. file \in Files BY <1>1 DEF LearnInv
<1> QED BY ZenonT(40), <1>2, <1>3, <1>4, <1>5, <1>6, <1>7, <1>8 DEF LearnTypeOK

(* lessons.json and pool-memory.json agree: every trade is counted in its   *)
(* pool once, when its record is final and not before, and what the        *)
(* operator wrote, pinned or removed stays so, whatever passes, edits and  *)
(* crashes come between.                                                   *)
THEOREM TheFilesAgree == LearnSpec => []MemoryIsTrue
<1>1. LearnInv => MemoryIsTrue
  <2>1. SUFFICES ASSUME LearnInv PROVE MemoryIsTrue OBVIOUS
  <2>2. CountedOnce BY <2>1 DEF LearnInv, FilesAgree, CountedOnce
  <2>3. FinalIsCounted BY <2>1 DEF LearnInv, FilesAgree, Counted, FinalIsCounted
  <2>4. PendingStaysSilent BY <2>1 DEF LearnInv, FilesAgree, Silent, PendingStaysSilent
  <2>5. EditsHold BY <2>1 DEF LearnInv, NotesHold, Noted, EditsHold
  <2> QED BY <2>1, <2>2, <2>3, <2>4, <2>5, TypesFollow DEF MemoryIsTrue
<1> QED BY <1>1, LearnInvHolds, PTL

(* evolveThresholds never raises a configured floor of 60 or more above a   *)
(* winner it learned from, and, with the same hours for a token's          *)
(* cooldowns, no trade shortens one that runs.                             *)
THEOREM LearningKeepsMeasure == LearnSpec => LearningIsMild
<1> DEFINE Spares == floors.organic >= 60 /\ floors'.organic # floors.organic
                       => \A t \in Winners(pass.data.records) :
                            Organic[pass.data.records[t].kind] >= floors'.organic
           Rests == StopHours = OorHours /\ tokenRest' < tokenRest => HourPasses
<1>1. LearnInv /\ [LearnNext]_learnVars => [Spares]_learnVars
  <2>1. SUFFICES ASSUME LearnInv, LearnNext, floors.organic >= 60,
                        floors'.organic # floors.organic
                 PROVE  \A t \in Winners(pass.data.records) :
                          Organic[pass.data.records[t].kind] >= floors'.organic
    OBVIOUS
  <2>2. Evolve
    BY <2>1 DEF LearnNext, CloseTrade, CloseDropped, Recorded, Reweigh, PassStarts, PassNext,
                PassSaves, AddLesson, PinLesson, RemoveLessons, ClearPerformance, Edited,
                CutOff, HourPasses
  <2>3. pass \in RecordPass /\ pass.data \in Files
    BY <2>1, <2>2, PassFacts DEF LearnInv, Evolve, RecordPass
  <2>4. floors'.organic = OrganicAfter(pass.data.records) BY <2>1, <2>2 DEF Evolve
  <2>5. floors.organic \in Nat BY <2>1 DEF LearnInv, LearnedOK
  <2> QED BY <2>1, <2>3, <2>4, <2>5, OrganicFloorRises
<1>2. LearnInv /\ [LearnNext]_learnVars => [Rests]_learnVars
  <2>1. SUFFICES ASSUME LearnInv, LearnNext, StopHours = OorHours, tokenRest' < tokenRest
                 PROVE  HourPasses
    OBVIOUS
  <2>2. tokenRest \in Nat /\ tokenRest <= StopHours /\ StopHours \in Nat
    BY <2>1, LearningAssumption DEF LearnInv, MemoryOK
  <2>3. ASSUME NEW t, NEW kind, NEW why, Remember(t, kind, why) PROVE FALSE
    <3>1. PICK s : tokenRest' = TokenRestAfter(s) BY <2>3 DEF Remember
    <3>2. TokenRestAfter(s) \in {StopHours, OorHours, tokenRest} BY DEF TokenRestAfter
    <3> QED BY <2>1, <2>2, <3>1, <3>2
  <2>4. tokenRest' # tokenRest BY <2>1, <2>2
  <2>5. ~Recorded BY <2>3, <2>4 DEF Recorded, memory
  <2>6. ~PassNext
    <3>1. ASSUME NEW t, NEW r, Remembered(t, r) PROVE FALSE BY <2>3, <3>1 DEF Remembered
    <3> QED BY <3>1 DEF PassNext
  <2> QED
    BY <2>1, <2>4, <2>5, <2>6
    DEF LearnNext, CloseTrade, CloseDropped, Evolve, Reweigh, PassStarts, PassSaves, AddLesson,
        PinLesson, RemoveLessons, ClearPerformance, Edited, CutOff, memory
<1>3. LearnSpec => []LearnInv /\ [][LearnNext]_learnVars BY LearnInvHolds DEF LearnSpec
<1>4. LearnSpec => [][Spares]_learnVars BY <1>1, <1>3, PTL
<1>5. LearnSpec => [][Rests]_learnVars BY <1>2, <1>3, PTL
<1> QED BY <1>4, <1>5 DEF LearningIsMild, FloorsSpareWinners, TokenRests
=============================================================================
