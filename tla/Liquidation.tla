------------------------------ MODULE Liquidation ------------------------------
(***************************************************************************)
(* What becomes of the base tokens that closing a position leaves in the   *)
(* wallet.  Two files must agree about them: the liquidation queue in      *)
(* state.json (domain/liquidation-queue.ts) and the performance records in *)
(* lessons.json (domain/lessons.ts).  The tools that sell tokens           *)
(* (adapters/ToolExecutor.ts: the swap after a close or a claim,           *)
(* swap_all_tokens_to_sol, sweep_unsold_tokens) update one and then the    *)
(* other, with awaits in between.                                          *)
(*                                                                         *)
(* Write tools run one at a time (module AsyncMutex), so one job is in     *)
(* progress; a crash drops it between two of its writes.  A balance is     *)
(* none, dust (below sweeperMinUsd) or some.  Ages are any: an entry may   *)
(* be older than the abandon window at each attempt; `recent' are the      *)
(* entries touched within the retention of settled ones.  The up to three  *)
(* attempts of one swapBaseToSolWithRetry are one step with every outcome  *)
(* they can have, among them a swap that lands although it was reported    *)
(* as failed and a swap of only a part.  Amounts are left out: what a sale *)
(* brought, and what a settled record books of it.                         *)
(***************************************************************************)
EXTENDS Naturals

CONSTANTS Trades,       \* how many positions are ever closed
          Mints, NoMint,
          MaxAttempts,  \* sweeperMaxAttempts
          BadReads,     \* how a wallet read can go wrong: "partial", "failed"
          Budget        \* bound on crashes, claims, price moves and bad reads, together

ASSUME LiquidationAssumption ==
  /\ Trades \in Nat /\ NoMint \notin Mints
  /\ MaxAttempts \in Nat \ {0}
  /\ BadReads \subseteq {"partial", "failed"}
  /\ Budget \in Nat

VARIABLES
  mint,                               \* base mint of each position; never changes
  wallet, unsold,                     \* balance of a mint; positions whose tokens it holds
  status, position, attempts, recent, \* pendingLiquidations, by mint
  record,                             \* performance record of each position
  job,                                \* the write tool in progress
  budget,
  (* history *)
  sold,                               \* positions whose tokens became SOL
  owed                                \* positions recorded as closed_pending_swap, except those a sweep
                                      \* overlooked or a sale of only a part has settled

walletVars == <<wallet, unsold, sold>>
queueVars == <<status, position, attempts, recent>>
recordVars == <<record, owed>>
vars == <<mint, walletVars, queueVars, recordVars, job, budget>>

(* Positions are numbered in the order in which their records are added to *)
(* lessons.json.                                                           *)
Positions == 1..Trades
NoPosition == 0

Levels == {"none", "dust", "some"}

(* at: what is awaited.  tool: who asked.  mint, pos, dead: the swap.      *)
(* kept (history): positions of whose tokens it left some in the wallet.   *)
(* todo, seen, whole: mints left, balances read and a complete scan.       *)
Idle == [at |-> "idle", tool |-> "none", mint |-> NoMint, pos |-> NoPosition, dead |-> FALSE,
         kept |-> {}, todo |-> {}, seen |-> [m \in Mints |-> "none"], whole |-> TRUE]

Of(m) == {p \in Positions : mint[p] = m}
Pending(m) == {p \in Of(m) : record[p] = "pending"}

(* A job goes on after one swap: a batch or a sweep takes its next token.  *)
Continue ==
  job' = IF job.tool \in {"sweep", "batch"}
         THEN [job EXCEPT !.at = "next", !.pos = NoPosition, !.dead = FALSE, !.kept = {}]
         ELSE Idle

-----------------------------------------------------------------------------
(* swapBaseToSolWithRetry begins. *)
Swapping(tool, m, pos) == [Idle EXCEPT !.at = "swap", !.tool = tool, !.mint = m, !.pos = pos]

(* resolveCloseAccounting: a record is pending if the wallet read after    *)
(* the close shows saleable tokens of the mint, which a failed read or one *)
(* without a price does not.                                               *)
CloseStatus(balance) == IF balance = "some" THEN {"pending", "realized"} ELSE {"realized"}

(* After a close its tokens are swapped, unless the caller said to hold.   *)
AfterClose(p) == {Idle, Swapping("close", mint[p], p)}

\* Mutant: a trade that is in lessons.json is closed and recorded once more.
CloseAgain(p) ==
  /\ job = Idle
  /\ \A q \in 1..(p - 1) : record[q] # "open"
  /\ \E got \in Levels :
       /\ wallet' = [wallet EXCEPT ![mint[p]] = IF @ = "some" \/ got = "none" THEN @ ELSE got]
       /\ unsold' = IF got = "none" THEN unsold ELSE unsold \cup {p}
  /\ \E r \in CloseStatus(wallet'[mint[p]]) :
       /\ record' = [record EXCEPT ![p] = r]
       /\ owed' = IF r = "pending" THEN owed \cup {p} ELSE owed
  /\ job' \in AfterClose(p)
  /\ UNCHANGED <<mint, sold, queueVars, budget>>

(* close_position: what was withdrawn reaches the wallet and the trade is  *)
(* recorded.                                                               *)
Close(p) ==
  /\ job = Idle /\ record[p] = "open"
  /\ \A q \in 1..(p - 1) : record[q] # "open"
  /\ \E got \in Levels :
       /\ wallet' = [wallet EXCEPT ![mint[p]] = IF @ = "some" \/ got = "none" THEN @ ELSE got]
       /\ unsold' = IF got = "none" THEN unsold ELSE unsold \cup {p}
  /\ \E r \in CloseStatus(wallet'[mint[p]]) :
       /\ record' = [record EXCEPT ![p] = r]
       /\ owed' = IF r = "pending" THEN owed \cup {p} ELSE owed
  /\ job' \in AfterClose(p)
  /\ UNCHANGED <<mint, sold, queueVars, budget>>

(* claim_fees: tokens that belong to no record. *)
Claim(p) ==
  /\ job = Idle /\ record[p] = "open" /\ budget > 0
  /\ budget' = budget - 1
  /\ \E got \in {"dust", "some"} : wallet' = [wallet EXCEPT ![mint[p]] = IF @ = "some" THEN @ ELSE got]
  /\ job' \in {Idle, Swapping("claim", mint[p], NoPosition)}
  /\ UNCHANGED <<mint, unsold, sold, queueVars, recordVars>>

(* Outcomes of swapBaseToSolWithRetry.  Its looks at the wallet may be     *)
(* answered from a cache 30 seconds old.  A swap may sell only a part: the *)
(* balance it read was an old one, or an attempt answered with             *)
(* liquidity.partial and the next ones offered half, a quarter or a tenth. *)
(* Some tokens of the positions in `kept' are then still in the wallet.    *)
Sells(m, kept, rest) ==
  /\ wallet[m] # "none"
  /\ kept # {} => rest # "none"
  /\ sold' = sold \cup ((unsold \cap Of(m)) \ kept)
  /\ unsold' = unsold \ (Of(m) \ kept)
  /\ wallet' = [wallet EXCEPT ![m] = rest]

(* Whether the last attempt was found to have no route at all: the error   *)
(* codes that count as liquidity.unavailable end the attempts at once.     *)
Unroutable == BOOLEAN

(* A look finds no token, or less than this caller's minimum (the swap     *)
(* after a close or a claim asks for more than the sweeper does).  The     *)
(* first look makes it not swapped, a later one swapped.                   *)
SwapSkips ==
  /\ job.at = "swap"
  /\ IF wallet[job.mint] # "some" \/ job.tool \in {"close", "claim"}
     THEN UNCHANGED budget
     ELSE BadReads # {} /\ budget > 0 /\ budget' = budget - 1
  /\ \/ job.tool = "sweep" /\ job' = [job EXCEPT !.at = "failed"]
     \/ Continue
  /\ UNCHANGED <<mint, walletVars, queueVars, recordVars>>

(* A swap is confirmed: an order of swapToken is signed and executed, or,  *)
(* when the aggregator has no route, the pool itself swaps                 *)
(* (swapDirectDlmm).  Nothing looks whether it sold all there is.          *)
SwapConfirms ==
  /\ job.at = "swap"
  /\ \E kept \in SUBSET (unsold \cap Of(job.mint)), rest \in Levels :
       /\ Sells(job.mint, kept, rest)
       /\ job' = [job EXCEPT !.at = "sold", !.kept = kept]
  /\ UNCHANGED <<mint, queueVars, recordVars, budget>>

(* An attempt reported as failed has landed: the next one finds no token,  *)
(* or less than the caller's minimum, and returns swapped, without         *)
(* markLiquidationSuccess.                                                 *)
SwapLanded ==
  /\ job.at = "swap" /\ wallet[job.mint] = "some"
  /\ \E kept \in SUBSET (unsold \cap Of(job.mint)), rest \in Levels :
       /\ rest = "some" => job.tool \in {"close", "claim"}
       /\ Sells(job.mint, kept, rest)
  /\ Continue
  /\ UNCHANGED <<mint, queueVars, recordVars, budget>>

\* Mutant: a token that is enqueued again starts with no attempts.
EnqueueResetting(M, pos, st) ==
  /\ status' = [m \in Mints |-> IF m \in M THEN st ELSE status[m]]
  /\ position' = [m \in Mints |-> IF m \in M /\ pos # NoPosition THEN pos ELSE position[m]]
  /\ recent' = recent \cup M
  /\ attempts' = [m \in Mints |-> IF m \in M THEN 0 ELSE attempts[m]]

(* enqueuePendingLiquidation. *)
Enqueue(M, pos, st) ==
  /\ status' = [m \in Mints |-> IF m \in M THEN st ELSE status[m]]
  /\ position' = [m \in Mints |-> IF m \in M /\ pos # NoPosition THEN pos ELSE position[m]]
  /\ recent' = recent \cup M
  /\ UNCHANGED attempts

(* Every attempt failed, or none that landed was reported so. *)
SwapFails ==
  /\ job.at = "swap"
  /\ \/ UNCHANGED walletVars
     \/ \E kept \in SUBSET (unsold \cap Of(job.mint)), rest \in Levels : Sells(job.mint, kept, rest)
  /\ \E dead \in Unroutable :
       /\ Enqueue({job.mint}, job.pos, IF dead THEN "abandoned" ELSE "pending")
       /\ IF job.tool = "sweep" THEN job' = [job EXCEPT !.at = "failed", !.dead = dead] ELSE Continue
  /\ UNCHANGED <<mint, recordVars, budget>>

(* markLiquidationSuccess, first write. *)
MarkSuccess ==
  /\ job.at = "sold"
  /\ IF status[job.mint] = "none"
     THEN Continue /\ UNCHANGED <<status, recent>>
     ELSE /\ status' = [status EXCEPT ![job.mint] = "liquidated"]
          /\ recent' = recent \cup {job.mint}
          /\ job' = [job EXCEPT !.at = "settle", !.pos = position[job.mint]]
  /\ UNCHANGED <<mint, walletVars, position, attempts, recordVars, budget>>

-----------------------------------------------------------------------------
\* Mutant: the position an entry names is taken whatever its record says.
TargetsUnchecked(m, pos) == IF pos # NoPosition THEN {pos} ELSE Pending(m)

(* The records a settlement or a write-off is about: the record of the     *)
(* position the entry names, if it is pending, else all of the mint.       *)
Targets(m, pos) == IF pos \in {p \in Positions : record[p] = "pending"} THEN {pos} ELSE Pending(m)

(* settleTradeLiquidation.  It does not know of a rest that was kept. *)
Settle ==
  /\ job.at = "settle"
  /\ LET targets == Targets(job.mint, job.pos) IN
     /\ record' = [p \in Positions |-> IF p \in targets THEN "realized" ELSE record[p]]
     /\ owed' = owed \ (targets \cap job.kept)
  /\ Continue
  /\ UNCHANGED <<mint, walletVars, queueVars, budget>>

(* abandonTradeLiquidation. *)
WriteOff ==
  /\ job.at = "writeOff"
  /\ LET targets == Targets(job.mint, job.pos) IN
       record' = [p \in Positions |-> IF p \in targets THEN "lost" ELSE record[p]]
  /\ Continue
  /\ UNCHANGED <<mint, walletVars, queueVars, owed, budget>>

-----------------------------------------------------------------------------
(* What a scan of the wallet shows if it lacks mints M. *)
Scan(M, whole) == [seen |-> [m \in Mints |-> IF m \in M THEN "none" ELSE wallet[m]], whole |-> whole]

(* Without an answer for the Token-2022 accounts a scan lacks their mints  *)
(* and says so.                                                            *)
Lacking == IF "partial" \in BadReads THEN SUBSET Mints ELSE {}

(* When no source answers, the balances of an earlier time are handed out, *)
(* from before some tokens arrived, or none at all; nothing says so.       *)
Outdated == IF "failed" \in BadReads THEN SUBSET Mints ELSE {}

(* What getWalletBalances shows. *)
Reads == {Scan({}, TRUE)} \cup {Scan(M, FALSE) : M \in Lacking} \cup {Scan(M, TRUE) : M \in Outdated}

Costs(r) ==
  \/ r = Scan({}, TRUE) /\ UNCHANGED budget
  \/ r # Scan({}, TRUE) /\ budget > 0 /\ budget' = budget - 1

(* swap_all_tokens_to_sol. *)
SwapAll ==
  /\ job = Idle
  /\ \E r \in Reads :
       /\ job' = [Idle EXCEPT !.at = "next", !.tool = "batch",
                              !.todo = {m \in Mints : r.seen[m] = "some"}]
       /\ Costs(r)
  /\ UNCHANGED <<mint, walletVars, queueVars, recordVars>>

BatchNext ==
  /\ job.at = "next" /\ job.tool = "batch"
  /\ IF job.todo = {} THEN job' = Idle
     ELSE \E m \in job.todo : job' = [job EXCEPT !.at = "swap", !.mint = m, !.todo = @ \ {m}]
  /\ UNCHANGED <<mint, walletVars, queueVars, recordVars, budget>>

(* sweep_unsold_tokens: whatever is held and has no entry, or a liquidated *)
(* one, is enqueued; then every pending entry is worked off.               *)
Sweep ==
  /\ job = Idle
  /\ \E r \in Reads :
       /\ Enqueue({m \in Mints : r.seen[m] # "none" /\ status[m] \in {"none", "liquidated"}},
                  NoPosition, "pending")
       /\ job' = [Idle EXCEPT !.at = "next", !.tool = "sweep", !.seen = r.seen, !.whole = r.whole,
                              !.todo = {m \in Mints : status'[m] = "pending"}]
       /\ owed' = {p \in owed : r.seen[mint[p]] = wallet[mint[p]]}
       /\ Costs(r)
  /\ UNCHANGED <<mint, walletVars, record>>

\* Mutant: a balance below sweeperMinUsd counts as an empty wallet.
SweepNextDustGone(m) ==
  /\ job.at = "next" /\ job.tool = "sweep" /\ m \in job.todo
  /\ LET rest == [job EXCEPT !.todo = @ \ {m}, !.mint = m] IN
     \/ /\ job.seen[m] # "some"
        /\ status' = [status EXCEPT ![m] = "liquidated"] /\ recent' = recent \cup {m}
        /\ job' = [rest EXCEPT !.at = "settle", !.pos = position[m]]
     \/ /\ job.seen[m] = "some"
        /\ job' = [rest EXCEPT !.at = "swap"]
        /\ UNCHANGED <<status, recent>>
  /\ UNCHANGED <<mint, walletVars, position, attempts, recordVars, budget>>

SweepNext(m) ==
  /\ job.at = "next" /\ job.tool = "sweep" /\ m \in job.todo
  /\ LET rest == [job EXCEPT !.todo = @ \ {m}, !.mint = m] IN
     \/ /\ job.seen[m] = "none"
        /\ status' = [status EXCEPT ![m] = "liquidated"] /\ recent' = recent \cup {m}
        /\ job' = [rest EXCEPT !.at = "settle", !.pos = position[m]]
     \/ /\ job.seen[m] = "dust"
        /\ status' = [status EXCEPT ![m] = "dust"] /\ recent' = recent \cup {m}
        /\ job' = rest
     \/ /\ job.seen[m] = "some"
        /\ job' = [rest EXCEPT !.at = "swap"]
        /\ UNCHANGED <<status, recent>>
  /\ UNCHANGED <<mint, walletVars, position, attempts, recordVars, budget>>

(* markLiquidationAttempt: dead, attempts exhausted, or the window passed. *)
(* The count, which has no limit of its own, is only compared with         *)
(* MaxAttempts: here MaxAttempts stands for that many attempts or more.    *)
MarkAttempt ==
  /\ job.at = "failed"
  /\ LET m == job.mint
         count == IF attempts[m] < MaxAttempts THEN attempts[m] + 1 ELSE MaxAttempts IN
     /\ attempts' = [attempts EXCEPT ![m] = count]
     /\ recent' = recent \cup {m}
     /\ \/ /\ status' = [status EXCEPT ![m] = "abandoned"]
           /\ job' = [job EXCEPT !.at = "writeOff", !.pos = position[m]]
        \/ /\ ~job.dead /\ count < MaxAttempts
           /\ UNCHANGED status
           /\ Continue
  /\ UNCHANGED <<mint, walletVars, position, recordVars, budget>>

(* pruneSettledLiquidations, unless the scan was incomplete. *)
Prunable ==
  {m \in Mints \ recent : status[m] = "liquidated"
                          \/ (status[m] \in {"abandoned", "dust"} /\ job.seen[m] = "none")}

\* Mutant: an incomplete scan is pruned by like any other.
SweepPrunesAnyScan ==
  /\ job.at = "next" /\ job.tool = "sweep" /\ job.todo = {}
  /\ status' = [m \in Mints |-> IF m \in Prunable THEN "none" ELSE status[m]]
  /\ position' = [m \in Mints |-> IF m \in Prunable THEN NoPosition ELSE position[m]]
  /\ attempts' = [m \in Mints |-> IF m \in Prunable THEN 0 ELSE attempts[m]]
  /\ job' = IF job.whole THEN [job EXCEPT !.at = "reconcile"] ELSE Idle
  /\ UNCHANGED <<mint, walletVars, recent, recordVars, budget>>

SweepPrunes ==
  /\ job.at = "next" /\ job.tool = "sweep" /\ job.todo = {}
  /\ IF job.whole
     THEN /\ status' = [m \in Mints |-> IF m \in Prunable THEN "none" ELSE status[m]]
          /\ position' = [m \in Mints |-> IF m \in Prunable THEN NoPosition ELSE position[m]]
          /\ attempts' = [m \in Mints |-> IF m \in Prunable THEN 0 ELSE attempts[m]]
          /\ job' = [job EXCEPT !.at = "reconcile"]
     ELSE job' = Idle /\ UNCHANGED <<status, position, attempts>>
  /\ UNCHANGED <<mint, walletVars, recent, recordVars, budget>>

(* reconcileOrphanedPendingSwaps. *)
Orphans == {p \in Positions : record[p] = "pending" /\ status[mint[p]] # "pending"}

Reconcile ==
  /\ job.at = "reconcile"
  /\ record' = [p \in Positions |-> IF p \in Orphans THEN "lost" ELSE record[p]]
  /\ job' = Idle
  /\ UNCHANGED <<mint, walletVars, queueVars, owed, budget>>

-----------------------------------------------------------------------------
PriceMoves(m) ==
  /\ wallet[m] # "none" /\ budget > 0
  /\ budget' = budget - 1
  /\ wallet' = [wallet EXCEPT ![m] = IF @ = "some" THEN "dust" ELSE "some"]
  /\ UNCHANGED <<mint, unsold, sold, queueVars, recordVars, job>>

(* More than the retention of settled entries passes between two tools. *)
DayPasses ==
  /\ job = Idle /\ recent' = {}
  /\ UNCHANGED <<mint, walletVars, status, position, attempts, recordVars, job, budget>>

Crash ==
  /\ job # Idle /\ budget > 0
  /\ budget' = budget - 1 /\ job' = Idle
  /\ UNCHANGED <<mint, walletVars, queueVars, recordVars>>

Init ==
  /\ mint \in [Positions -> Mints]
  /\ wallet = [m \in Mints |-> "none"] /\ unsold = {} /\ sold = {}
  /\ status = [m \in Mints |-> "none"] /\ position = [m \in Mints |-> NoPosition]
  /\ attempts = [m \in Mints |-> 0] /\ recent = {}
  /\ record = [p \in Positions |-> "open"]
  /\ job = Idle /\ budget = Budget
  /\ owed = {}

Swap == SwapSkips \/ SwapConfirms \/ SwapLanded \/ SwapFails

JobStep ==
  \/ Swap \/ MarkSuccess \/ Settle \/ WriteOff \/ MarkAttempt
  \/ BatchNext \/ SweepPrunes \/ Reconcile \/ \E m \in Mints : SweepNext(m)

Next ==
  \/ \E p \in Positions : Close(p) \/ Claim(p)
  \/ SwapAll \/ Sweep \/ JobStep
  \/ DayPasses \/ Crash \/ \E m \in Mints : PriceMoves(m)

Spec == Init /\ [][Next]_vars

(* Awaited calls settle; the sweeper's timer fires again and again, and    *)
(* the write mutex serves it in its turn.                                  *)
FairSpec == Spec /\ WF_vars(JobStep) /\ SF_vars(Sweep)

-----------------------------------------------------------------------------
States == {"none", "pending", "liquidated", "abandoned", "dust"}

Jobs ==
  [at : {"idle", "swap", "sold", "settle", "failed", "writeOff", "next", "reconcile"},
   tool : {"none", "close", "claim", "batch", "sweep"},
   mint : Mints \cup {NoMint}, pos : Positions \cup {NoPosition},
   dead : BOOLEAN, kept : SUBSET Positions,
   todo : SUBSET Mints, seen : [Mints -> Levels], whole : BOOLEAN]

(* The variables keep their types, the tokens of a position are not both   *)
(* sold and in the wallet, and a job that waits for a swap or its          *)
(* bookkeeping names a mint.                                               *)
TypeOK ==
  /\ mint \in [Positions -> Mints] /\ wallet \in [Mints -> Levels]
  /\ unsold \subseteq Positions /\ sold \subseteq Positions \ unsold
  /\ status \in [Mints -> States] /\ position \in [Mints -> Positions \cup {NoPosition}]
  /\ attempts \in [Mints -> 0..MaxAttempts] /\ recent \subseteq Mints
  /\ record \in [Positions -> {"open", "pending", "realized", "lost"}]
  /\ job \in Jobs /\ budget \in 0..Budget
  /\ job.at \in {"swap", "sold", "settle", "failed", "writeOff"} => job.mint \in Mints
  /\ owed \subseteq Positions

(* pruneSettledLiquidations: however long ago a token was given up, and    *)
(* even if the scan missed it, a sweep neither forgets the abandoned entry *)
(* of a mint the wallet still holds nor tries to sell it again.            *)
TombstonesHold ==
  [][job.tool = "sweep" \/ job'.tool = "sweep" =>
       \A m \in Mints : status[m] = "abandoned" /\ wallet[m] # "none" => status'[m] = "abandoned"]_vars

(* A performance record that was settled or written off stays as it is,    *)
(* whichever sales, sweeps and closes of the same mint follow.             *)
SettledIsFinal ==
  [][\A p \in Positions : record[p] \in {"realized", "lost"} => record'[p] = record[p]]_vars

(* A trade that was recorded as closed_pending_swap turns into realized    *)
(* only when the wallet holds none of its tokens any more, whatever other  *)
(* trades of the mint the entry stood for.  The code breaks this in two    *)
(* cases, which `owed' leaves out: a sweep takes what an incomplete scan   *)
(* lacks for sold, and a confirmed swap of only a part settles the record  *)
(* with the rest in the wallet (amountMultiplier in swapBaseToSolWithRetry *)
(* and the call of markLiquidationSuccess, which is told no amount).       *)
RealizedMeansGone ==
  \A p \in owed : record[p] = "realized" => p \notin unsold

(* lessons.ts: sales that complete leave no record behind: every           *)
(* closed_pending_swap record is settled or written off in the end, also   *)
(* after crashes between the write of state.json and that of lessons.json. *)
EveryCloseSettles ==
  \A p \in Positions : record[p] = "pending" ~> record[p] # "pending"
=============================================================================
