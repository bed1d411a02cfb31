------------------------------ MODULE DeployGate ------------------------------
(***************************************************************************)
(* What stands between a decision to deploy and a position.  Agent         *)
(* sessions (application/agent-loop.ts) ask for the tool deploy_position:  *)
(* executeTool runs it under the write-tool lock, after the checks of      *)
(* runSafetyChecks (adapters/tooling/deploySafety.ts) and before those of  *)
(* deployPosition.  The smart-wallet screening (Daemon.ts) follows the     *)
(* wallets it watches and calls deployPosition itself, without the lock    *)
(* and with checks of its own.  Closes of any origin take the lock; the    *)
(* swap after a close drives the circuit breaker.                          *)
(*                                                                         *)
(* A step runs from one await to the next.  An order is a record of the    *)
(* deploy or close that a caller carries out.  Module AsyncMutex is the    *)
(* lock, module PositionBook the reads and the book, module Liquidation    *)
(* the swaps; here a read shows the chain or is wrong, at a bounded cost.  *)
(***************************************************************************)
EXTENDS Naturals, FiniteSets

CONSTANTS Sessions,   \* agent sessions that may deploy
          Closers,    \* callers that close: management, commands, sessions
          Pools, Token,   \* Token[pool]: the base token of a pool
          Leads, LeadPool,   \* positions of watched wallets, and their pools
          Sources,    \* screening.entrySource: "candidates", "smart_wallets"
          MaxPositions, MaxFailures,   \* the limits in config
          Ids,        \* bound: positions known at a time
          Budget,     \* bound: wrong reads and lost confirmations
          MostFailures,   \* bound: where the count of failed swaps stops
          Cooling,    \* bound: the pools and tokens whose closes may cool them
          Nobody

Tokens == {Token[p] : p \in Pools}

ASSUME DeployGateAssumption ==
  /\ Nobody \notin Sessions \cup Closers /\ Sessions \cap Closers = {}
  /\ Token \in [Pools -> Tokens] /\ LeadPool \in [Leads -> Pools]
  /\ Sources \subseteq {"candidates", "smart_wallets"}
  /\ MaxPositions \in Nat \ {0} /\ MaxFailures \in Nat \ {0}
  /\ Ids \in Nat /\ Budget \in Nat
  /\ MostFailures \in Nat /\ MostFailures >= MaxFailures
  /\ Cooling \subseteq Pools \cup Tokens

VARIABLES
  open,      \* positions on chain: [id, pool]
  book,      \* positions that state.json counts as open
  cooled,    \* pools and tokens on cooldown
  failures,  \* consecutive failed swaps
  holder,    \* the caller that holds the write-tool lock
  order,     \* what each caller is about
  fired,     \* sessions whose deploy was carried out or failed
  source, smart, ledger, leads,
             \* the smart-wallet screening, its snapshot, the wallets' positions
  landed,    \* history: positions each session opened
  followed,  \* history: positions opened after each lead
  baseline,  \* history: what the wallets held when the snapshot began
  excused,   \* history: a read was wrong, or a landing was not recorded
  spent      \* of Budget

orders == <<holder, order, fired>>
screening == <<smart, ledger>>
history == <<landed, followed, baseline, excused>>
vars == <<open, book, cooled, failures, orders, source, screening, leads, history, spent>>

Callers == Sessions \cup Closers
NoPool == "none"
Idle == [pc |-> "idle", pool |-> NoPool, named |-> FALSE, left |-> {}]
SmartIdle == [pc |-> "idle", todo |-> {}, lead |-> NoPool, made |-> {}, first |-> 0,
              pools |-> {}, saved |-> {}, vetoed |-> {}]

-----------------------------------------------------------------------------
(* isHalted *)
Halted == failures >= MaxFailures

PoolsOf(ps) == {p.pool : p \in ps}

\* Mutant: a reserved place is not counted.
RoomAndOne(seen) == Cardinality(seen) <= MaxPositions

(* The position count, the duplicate pool and, when the caller named it,   *)
(* the base token.                                                         *)
Room(seen) == Cardinality(seen) < MaxPositions

\* Mutant: a pool that holds a position may be used again.
FreshAnywhere(seen, o) == TRUE

Fresh(seen, o) ==
  /\ o.pool \notin PoolsOf(seen)
  /\ o.named => Token[o.pool] \notin {Token[p] : p \in PoolsOf(seen)}

(* What getMyPositions may show: the positions; in a degraded answer, that *)
(* the checks do not tell from a good one, none of them; in an answer to a *)
(* request that was under way already, not those that landed since.        *)
Reads == {[seen |-> open, wrong |-> FALSE]}
         \cup IF spent < Budget
              THEN {[seen |-> ps, wrong |-> TRUE] : ps \in (SUBSET open) \ {open}} ELSE {}

Charge(r) == IF r.wrong THEN spent + 1 ELSE spent

-----------------------------------------------------------------------------
(* The agent loop.  One deploy per message, and none once one was carried  *)
(* out or failed in this session.                                          *)
SessionStarts(s) ==
  /\ order[s] = Idle /\ s \in fired
  /\ fired' = fired \ {s}
  /\ landed' = [landed EXCEPT ![s] = 0]
  /\ UNCHANGED <<open, book, cooled, failures, holder, order, source, screening, leads,
                 followed, baseline, excused, spent>>

\* Mutant: deploys that ended in an error may be tried again.
AnsweredAgain(s, blocked) == fired

Answered(s, blocked) == IF blocked THEN fired ELSE fired \cup {s}

(* The tool's answer: the lock is released.  A check that refuses marks    *)
(* the answer as blocked, and the session may then try another pool.       *)
Ends(c, blocked) ==
  /\ order' = [order EXCEPT ![c] = Idle]
  /\ holder' = Nobody
  /\ fired' = IF c \in Sessions THEN Answered(c, blocked) ELSE fired

Goes(c, pc) ==
  /\ order' = [order EXCEPT ![c].pc = pc]
  /\ UNCHANGED <<holder, fired>>

\* Mutant: a deploy does not wait for the lock.
FreeForDeploys(c) == c \in Sessions \/ holder = Nobody

Free(c) == holder = Nobody

(* What is left of the arguments that pass the checks of their own: the    *)
(* bin step, the sides and the range may be anything that passes.          *)
Passed(pool, named) == [Idle EXCEPT !.pc = "look", !.pool = pool, !.named = named]

(* A call of the tool has the lock; the circuit breaker, then              *)
(* validateDeployPoolThresholds and the checks of the arguments refuse it, *)
(* or not.  A caller that waits for the lock differs in nothing from one   *)
(* that has not called.                                                    *)
Asks(s) ==
  /\ order[s] = Idle /\ s \notin fired /\ Free(s) /\ ~Halted
  /\ \E pool \in Pools, named \in BOOLEAN :
       order' = [order EXCEPT ![s] = Passed(pool, named)]
  /\ holder' = s
  /\ UNCHANGED <<open, book, cooled, failures, fired, source, screening, leads, history, spent>>

(* The forced read of the positions.  A good one also brings the book up   *)
(* to date.                                                                *)
Looked(s) ==
  /\ order[s].pc = "look"
  /\ \E r \in Reads :
       /\ IF Room(r.seen) /\ Fresh(r.seen, order[s]) THEN Goes(s, "fund") ELSE Ends(s, TRUE)
       /\ excused' = (excused \/ r.wrong)
       /\ spent' = Charge(r)
       /\ book' = IF r.wrong THEN book ELSE open
  /\ UNCHANGED <<open, cooled, failures, source, screening, leads, landed, followed, baseline>>

(* The amount and the balance; then deployPosition looks at the pool's     *)
(* cooldown, at once, and at the token's, when it has fetched the pool.    *)
Funded(s) ==
  /\ order[s].pc = "fund"
  /\ \/ Ends(s, TRUE)
     \/ IF order[s].pool \in cooled THEN Ends(s, FALSE) ELSE Goes(s, "price")
  /\ UNCHANGED <<open, book, cooled, failures, source, screening, leads, history, spent>>

\* Mutant: the token's cooldown is not looked at.
TokenRestsNever(pool) == FALSE

TokenRests(pool) == Token[pool] \in cooled

Priced(s) ==
  /\ order[s].pc = "price"
  /\ IF TokenRests(order[s].pool) THEN Ends(s, FALSE) ELSE Goes(s, "send") \/ Ends(s, FALSE)
  /\ UNCHANGED <<open, book, cooled, failures, source, screening, leads, history, spent>>

Known == open \cup book \cup smart.made \cup UNION {order[c].left : c \in Callers}

(* An id tells positions of one pool apart, and is used again when the     *)
(* position is gone and forgotten.                                         *)
New(pool) ==
  LET used == {p.id : p \in {q \in Known : q.pool = pool}}
  IN [id |-> CHOOSE i \in 1 .. Ids : i \notin used /\ 1 .. i - 1 \subseteq used, pool |-> pool]

Lands(s) ==
  /\ order[s].pc = "send" /\ Cardinality(Known) < Ids
  /\ open' = open \cup {New(order[s].pool)}
  /\ landed' = [landed EXCEPT ![s] = @ + 1]
  /\ order' = [order EXCEPT ![s].pc = "confirm", ![s].left = {New(order[s].pool)}]
  /\ UNCHANGED <<book, cooled, failures, holder, fired, source, screening, leads,
                 followed, baseline, excused, spent>>

(* The transaction fails, or is confirmed and the position tracked, or     *)
(* lands and its confirmation is lost.                                     *)
SendFails(s) ==
  /\ order[s].pc = "send"
  /\ Ends(s, FALSE)
  /\ UNCHANGED <<open, book, cooled, failures, source, screening, leads, history, spent>>

Confirmed(s) ==
  /\ order[s].pc = "confirm"
  /\ book' = book \cup order[s].left
  /\ Ends(s, FALSE)
  /\ UNCHANGED <<open, cooled, failures, source, screening, leads, history, spent>>

Unconfirmed(s) ==
  /\ order[s].pc = "confirm" /\ spent < Budget
  /\ spent' = spent + 1
  /\ excused' = (excused \/ source = "smart_wallets")
  /\ Ends(s, FALSE)
  /\ UNCHANGED <<open, book, cooled, failures, source, screening, leads, landed, followed, baseline>>

-----------------------------------------------------------------------------
(* Closes: of one position, or of all.  closeAllPositions reads the        *)
(* positions under the lock and closes one after the other.                *)
AsksClose(c) ==
  /\ order[c] = Idle /\ Free(c)
  /\ \E ps \in {{p} : p \in book} \cup {{}} :
       order' = [order EXCEPT ![c].pc = "close", ![c].left = ps]
  /\ holder' = c
  /\ UNCHANGED <<open, book, cooled, failures, fired, source, screening, leads, history, spent>>

Listed(c) ==
  /\ order[c].pc = "close" /\ order[c].left = {}
  /\ \E r \in Reads :
       /\ IF r.seen = {} THEN Ends(c, FALSE)
          ELSE /\ order' = [order EXCEPT ![c].left = r.seen]
               /\ UNCHANGED <<holder, fired>>
       /\ spent' = Charge(r)
       /\ book' = IF r.wrong THEN book ELSE open
  /\ UNCHANGED <<open, cooled, failures, source, screening, leads, history>>

CloseNext(c, p) ==
  IF order[c].left = {p} THEN Ends(c, FALSE)
  ELSE /\ order' = [order EXCEPT ![c].left = @ \ {p}, ![c].pc = "close"]
       /\ UNCHANGED <<holder, fired>>

(* A close ends well: its reason and the record of past closes may put the *)
(* pool or its token on cooldown, and the base token is to be swapped.  Or *)
(* it fails.                                                               *)
Closed(c) ==
  /\ order[c].pc = "close"
  /\ \E p \in order[c].left \cap open :
       /\ open' = open \ {p} /\ book' = book \ {p}
       /\ \E rest \in SUBSET (Cooling \cap {p.pool, Token[p.pool]}) : cooled' = cooled \cup rest
       /\ order' = [order EXCEPT ![c].pc = "swap", ![c].left = @ \ {p}]
  /\ UNCHANGED <<failures, holder, fired, source, screening, leads, history, spent>>

CloseFails(c) ==
  /\ order[c].pc = "close"
  /\ \E p \in order[c].left : CloseNext(c, p)
  /\ UNCHANGED <<open, book, cooled, failures, source, screening, leads, history, spent>>

(* recordSwapFailure, recordSwapSuccess, or nothing to swap; the count     *)
(* stops at MostFailures.                                                  *)
SwapCounted ==
  {failures, IF failures = 0 THEN 0 ELSE failures - 1,
   IF failures = MostFailures THEN failures ELSE failures + 1}

SwapEnds(c) ==
  /\ order[c].pc = "swap"
  /\ failures' \in SwapCounted
  /\ IF order[c].left = {} THEN Ends(c, FALSE) ELSE Goes(c, "close")
  /\ UNCHANGED <<open, book, cooled, source, screening, leads, history, spent>>

(* /reset-halt, and time. *)
ResetHalt ==
  /\ failures > 0 /\ failures' = 0
  /\ UNCHANGED <<open, book, cooled, orders, source, screening, leads, history, spent>>

CooldownEnds ==
  /\ \E x \in cooled : cooled' = cooled \ {x}
  /\ UNCHANGED <<open, book, failures, orders, source, screening, leads, history, spent>>

-----------------------------------------------------------------------------
(* The smart-wallet screening.  ledger is the snapshot file: positions     *)
(* handled for good, and those vetoed not long ago.                        *)
ScreeningStarts ==
  /\ source = "smart_wallets" /\ smart = SmartIdle
  /\ \E r \in Reads :
       /\ smart' = IF Room(r.seen) THEN [SmartIdle EXCEPT !.pc = "wallets"] ELSE SmartIdle
       /\ book' = IF r.wrong THEN book ELSE open
       /\ excused' = (excused \/ r.wrong)
       /\ spent' = Charge(r)
  /\ UNCHANGED <<open, cooled, failures, orders, source, ledger, leads, landed, followed, baseline>>

(* diffSmartWalletPositions *)
NewLeads(seen) == seen \ (ledger.known \cup ledger.vetoed)

(* The positions of the wallets; a wallet whose request fails is passed    *)
(* over.  The first run records what it sees as the baseline.              *)
WalletsRead ==
  /\ smart.pc = "wallets"
  /\ \E seen \in SUBSET leads :
       /\ seen = leads \/ spent < Budget
       /\ spent' = IF seen = leads THEN spent ELSE spent + 1
       /\ IF ledger.begun
          THEN /\ smart' = IF NewLeads(seen) = {} \/ ~Room(book) THEN SmartIdle
                           ELSE [smart EXCEPT !.pc = "next", !.todo = NewLeads(seen),
                                              !.first = Cardinality(book)]
               /\ UNCHANGED <<ledger, baseline, excused>>
          ELSE /\ smart' = SmartIdle
               /\ ledger' = [begun |-> TRUE, known |-> seen, vetoed |-> {}]
               /\ baseline' = leads
               /\ excused' = (excused \/ seen # leads)
  /\ UNCHANGED <<open, book, cooled, failures, orders, source, leads, landed, followed>>

(* The cap between two leads counts what this run deployed, once more when *)
(* the book has it too.                                                    *)
Full ==
  \/ smart.first + Cardinality(smart.pools) >= MaxPositions
  \/ Cardinality(book) + Cardinality(smart.pools) >= MaxPositions

Passes(pc) == smart' = [smart EXCEPT !.pc = pc]

Resolves(l, saved, vetoed) ==
  smart' = [smart EXCEPT !.pc = "next", !.lead = NoPool, !.made = {}, !.todo = @ \ {l},
                         !.saved = @ \cup saved, !.vetoed = @ \cup vetoed]

SmartNext ==
  /\ smart.pc = "next" /\ ~Full
  /\ \E l \in smart.todo :
       IF LeadPool[l] \in PoolsOf(book) \cup smart.pools THEN Resolves(l, {l}, {})
       ELSE smart' = [smart EXCEPT !.pc = "detail", !.lead = l]
  /\ UNCHANGED <<open, book, cooled, failures, orders, source, ledger, leads, history, spent>>

(* getPoolDetail fails; the filters veto the pool; or deployPosition, at   *)
(* once, looks at the pool's cooldown.                                     *)
Detailed ==
  /\ smart.pc = "detail"
  /\ \/ Resolves(smart.lead, {}, {})
     \/ Resolves(smart.lead, {}, {smart.lead})
     \/ LeadPool[smart.lead] \notin cooled /\ Passes("price")
  /\ UNCHANGED <<open, book, cooled, failures, orders, source, ledger, leads, history, spent>>

SmartPriced ==
  /\ smart.pc = "price"
  /\ \/ Resolves(smart.lead, {}, {})
     \/ ~TokenRests(LeadPool[smart.lead]) /\ Passes("send")
  /\ UNCHANGED <<open, book, cooled, failures, orders, source, ledger, leads, history, spent>>

SmartLands ==
  /\ smart.pc = "send" /\ Cardinality(Known) < Ids
  /\ open' = open \cup {New(LeadPool[smart.lead])}
  /\ followed' = [followed EXCEPT ![smart.lead] = IF @ > 1 THEN @ ELSE @ + 1]
  /\ smart' = [smart EXCEPT !.pc = "confirm", !.made = {New(LeadPool[smart.lead])}]
  /\ UNCHANGED <<book, cooled, failures, orders, source, ledger, leads, landed, baseline, excused,
                 spent>>

SmartSendFails ==
  /\ smart.pc = "send"
  /\ Resolves(smart.lead, {}, {})
  /\ UNCHANGED <<open, book, cooled, failures, orders, source, ledger, leads, history, spent>>

\* Mutant: a lead that was deployed is left unresolved.
KeptNever(l) == {}

Kept(l) == {l}

SmartConfirmed ==
  /\ smart.pc = "confirm"
  /\ book' = book \cup smart.made
  /\ smart' = [smart EXCEPT !.pc = "next", !.lead = NoPool, !.made = {}, !.todo = @ \ {smart.lead},
                            !.pools = @ \cup {LeadPool[smart.lead]},
                            !.saved = @ \cup Kept(smart.lead)]
  /\ UNCHANGED <<open, cooled, failures, orders, source, ledger, leads, history, spent>>

SmartUnconfirmed ==
  /\ smart.pc = "confirm" /\ spent < Budget
  /\ spent' = spent + 1
  /\ excused' = TRUE
  /\ Resolves(smart.lead, {}, {})
  /\ UNCHANGED <<open, book, cooled, failures, orders, source, ledger, leads, landed, followed, baseline>>

\* Mutant: the snapshot keeps this run's leads only.
UpdatedAnew(saved, vetoed) == [begun |-> TRUE, known |-> saved, vetoed |-> vetoed]

(* updateSnapshotPositions *)
Updated(saved, vetoed) ==
  [begun |-> TRUE, known |-> ledger.known \cup saved, vetoed |-> (ledger.vetoed \cup vetoed) \ saved]

(* All leads were looked at, or there is no room: the snapshot is saved.   *)
Saves ==
  /\ smart.pc = "next" /\ (smart.todo = {} \/ Full)
  /\ ledger' = Updated(smart.saved, smart.vetoed)
  /\ smart' = SmartIdle
  /\ UNCHANGED <<open, book, cooled, failures, orders, source, leads, history, spent>>

(* A veto is looked at when a run starts. *)
VetoAges ==
  /\ smart = SmartIdle
  /\ \E l \in ledger.vetoed : ledger' = [ledger EXCEPT !.vetoed = @ \ {l}]
  /\ UNCHANGED <<open, book, cooled, failures, orders, source, smart, leads, history, spent>>

LeadOpens(l) ==
  /\ l \notin leads /\ leads' = leads \cup {l}
  /\ UNCHANGED <<open, book, cooled, failures, orders, source, screening, history, spent>>

-----------------------------------------------------------------------------
(* The process ends and starts again: what was under way is forgotten.     *)
Restart ==
  /\ spent < Budget
  /\ spent' = spent + 1
  /\ order' = [c \in Callers |-> Idle] /\ holder' = Nobody /\ fired' = {}
  /\ landed' = [s \in Sessions |-> 0]
  /\ smart' = SmartIdle
  /\ excused' = (excused \/ source = "smart_wallets")
  /\ UNCHANGED <<open, book, cooled, failures, source, ledger, leads, followed, baseline>>

Init ==
  /\ open = {} /\ book = {} /\ cooled = {} /\ failures = 0
  /\ holder = Nobody /\ order = [c \in Callers |-> Idle] /\ fired = {}
  /\ source \in Sources /\ smart = SmartIdle
  /\ ledger = [begun |-> FALSE, known |-> {}, vetoed |-> {}]
  /\ leads \in SUBSET Leads
  /\ landed = [s \in Sessions |-> 0] /\ followed = [l \in Leads |-> 0]
  /\ baseline = {} /\ excused = FALSE
  /\ spent = 0

DeployStep(s) ==
  \/ SessionStarts(s) \/ Asks(s) \/ Looked(s) \/ Funded(s) \/ Priced(s)
  \/ Lands(s) \/ SendFails(s) \/ Confirmed(s) \/ Unconfirmed(s)

CloseStep(c) == AsksClose(c) \/ Listed(c) \/ Closed(c) \/ CloseFails(c) \/ SwapEnds(c)

SmartStep ==
  \/ ScreeningStarts \/ WalletsRead \/ SmartNext \/ Detailed \/ SmartPriced \/ SmartLands
  \/ SmartSendFails \/ SmartConfirmed \/ SmartUnconfirmed \/ Saves

Next ==
  \/ \E s \in Sessions : DeployStep(s)
  \/ \E c \in Closers : CloseStep(c)
  \/ SmartStep
  \/ VetoAges \/ \E l \in Leads : LeadOpens(l)
  \/ ResetHalt \/ CooldownEnds \/ Restart

Spec == Init /\ [][Next]_vars

-----------------------------------------------------------------------------
Positions == [id : 1 .. Ids, pool : Pools]

(* Values of the variables; the lock is held by the one caller that works. *)
TypeOK ==
  /\ open \subseteq Positions /\ book \subseteq Positions
  /\ cooled \subseteq Cooling /\ failures \in 0 .. MostFailures
  /\ holder \in Callers \cup {Nobody} /\ fired \subseteq Sessions
  /\ \A c \in Callers : (order[c].pc # "idle") <=> (holder = c)
  /\ leads \subseteq Leads
  /\ ledger.known \cap ledger.vetoed = {}
  /\ spent \in 0 .. Budget

(* docs/CONFIGURATION.md, maxPositions: the limit holds for what sessions  *)
(* deploy.  The smart-wallet screening counts without the lock: beside     *)
(* sessions it may exceed the limit, by one position.                      *)
WithinLimit ==
  excused \/ Cardinality(open) <= MaxPositions + IF source = "smart_wallets" THEN 1 ELSE 0

(* A session deploys at most once, however its deploy ends and however     *)
(* often it asks.                                                          *)
OncePerSession == \A s \in Sessions : landed[s] <= 1

Deploys(s) == landed'[s] > landed[s]

(* What a session opens is in a pool without a position, and, if it named  *)
(* the token, the only position in that token; unless a read was wrong or  *)
(* the smart-wallet screening deploys beside it.                           *)
DeploysAreFresh ==
  [][\A s \in Sessions : Deploys(s) /\ ~excused /\ source = "candidates"
       => \A p \in open : /\ p.pool # order[s].pool
                          /\ order[s].named => Token[p.pool] # Token[order[s].pool]]_vars

(* No session opens a position while the circuit breaker holds, although   *)
(* it was looked at long before: swaps that trip it need the same lock.    *)
HaltHolds == [][\A s \in Sessions : Deploys(s) => ~Halted]_vars

(* Nor in a pool or a token on cooldown. *)
CooledRest ==
  [][\A s \in Sessions : Deploys(s) => {order[s].pool, Token[order[s].pool]} \cap cooled = {}]_vars

(* A position of a watched wallet is followed once, through vetoes,        *)
(* failures and runs cut short by the cap; a landing that is not recorded  *)
(* excuses, as the lead is then taken for a failed deploy.                 *)
FollowedOnce == excused \/ \A l \in Leads : followed[l] <= 1

(* What the wallets held when the snapshot began is never followed. *)
BaselineStays == excused \/ \A l \in baseline : followed[l] = 0

(* However deploys overlap, what is at stake stays within the limit, and a *)
(* session adds to it once.                                                *)
ExposureIsBounded == TypeOK /\ WithinLimit /\ OncePerSession

(* Of the positions of watched wallets, the old ones are not followed and  *)
(* the new ones once.                                                      *)
LeadsAreFollowedOnce == FollowedOnce /\ BaselineStays

(* What the checks of a deploy found still holds when it lands, many       *)
(* awaits later.                                                           *)
DeploysHeedChecks == DeploysAreFresh /\ HaltHolds /\ CooledRest
=============================================================================
