----------------------------- MODULE PositionBook -----------------------------
(***************************************************************************)
(* Which positions the agent believes it has.  The truth is on chain; the  *)
(* portfolio API shows it with a delay; state.json (domain/state.ts) is    *)
(* the agent's book, corrected by every read of the positions              *)
(* (adapters/blockchain/MeteoraAdapter.ts: getMyPositions and the request  *)
(* that concurrent readers share); deployPosition and closePosition write  *)
(* the chain first and the book later.                                     *)
(*                                                                         *)
(* One write tool is in progress at a time (module AsyncMutex); readers    *)
(* are any.  A position's address is never used again, and positions are   *)
(* in different pools (module DeployGate).                                 *)
(***************************************************************************)
EXTENDS Naturals, FiniteSets

CONSTANTS Positions, NoPosition,
          Foreign,    \* positions the owner opens without the agent
          Relay,      \* lpAgentRelayEnabled: a close may go through the relay
          Looks,      \* how often a close looks for its position (4)
          BadReads,   \* "fails": a read ends degraded; "omits": one lacks positions
          Budget      \* bound on crashes and moves of the owner, together

ASSUME PositionBookAssumption ==
  /\ NoPosition \notin Positions
  /\ Foreign \subseteq Positions /\ Relay \in BOOLEAN
  /\ Looks \in Nat \ {0}
  /\ BadReads \subseteq {"fails", "omits"}
  /\ Budget \in Nat

VARIABLES
  account, listed,     \* on chain; what the source of positions shows
  pendingRelay,        \* closes the relay took and has not sent
  book, young,         \* state.json; young: open in it and within SYNC_GRACE_MS of deployed_at
  read,                \* _positionsInflight
  job,                 \* the write tool in progress
  performance,         \* lessons.json: the records of each position
  budget,
  misled               \* history: positions some answer wrongly showed as gone

chainVars == <<account, listed, pendingRelay>>
bookVars == <<book, young>>
vars == <<chainVars, bookVars, read, job, performance, budget, misled>>

NoRead == [at |-> "none", shows |-> {}]
NoJob == [at |-> "none", pos |-> NoPosition, tracked |-> FALSE, tries |-> 0, seen |-> {}]

Open == {p \in Positions : account[p] = "open"}
Watched == {"deployed", "imported"}

-----------------------------------------------------------------------------
(* getMyPositions.  A call that finds no request in flight begins one; a   *)
(* fresh cache answers without one, unless `force'.                        *)
Ask == read' = IF read.at = "none" THEN [NoRead EXCEPT !.at = "asked"] ELSE read

ReaderAsks ==
  /\ read.at = "none"
  /\ Ask
  /\ UNCHANGED <<chainVars, bookVars, job, performance, budget, misled>>

(* The answer shows what the source lists at that moment; it may lack some *)
(* positions.  A fallback to the other source is as current as the first.  *)
Answer ==
  /\ read.at = "asked"
  /\ \E lost \in IF "omits" \in BadReads THEN SUBSET listed ELSE {{}} :
       /\ read' = [at |-> "answered", shows |-> listed \ lost]
       /\ misled' = misled \cup (lost \cap Open)
  /\ UNCHANGED <<chainVars, bookVars, job, performance, budget>>

(* The job takes the list it waited for. *)
Hand(shows) == job' = IF job.at = "look" THEN [job EXCEPT !.at = "looked", !.seen = shows] ELSE job

(* What a sync makes of the book: `missing' positions are closed and what  *)
(* is shown and `unknown' is imported.                                     *)
Merge(missing, unknown) ==
  /\ book' = [p \in Positions |->
                IF p \in missing THEN "closed" ELSE IF p \in unknown THEN "imported" ELSE book[p]]
  /\ young' = (young \ missing) \cup unknown

Unknown(shows) == {p \in shows : book[p] = "absent"}
Missing(shows) == {p \in Positions : book[p] \in Watched /\ p \notin shows \cup young}

\* Mutants: positions that are missing are closed at once; what is shown is imported although
\* the book knows it; nothing is closed; nothing is imported.
SyncAtOnce(shows) == Merge({p \in Positions : book[p] \in Watched} \ shows, Unknown(shows))
SyncClobbers(shows) == Merge(Missing(shows), {p \in shows : book[p] # "imported"})
SyncImportsOnly(shows) == Merge({}, Unknown(shows))
SyncClosesOnly(shows) == Merge(Missing(shows), {})

(* syncOpenPositions closes what is missing, after its grace period;       *)
(* reconcileTrackedPositions imports what the book does not know.          *)
Sync(shows) == Merge(Missing(shows), Unknown(shows))

ReadDone ==
  /\ read.at = "answered"
  /\ Sync(read.shows)
  /\ Hand(read.shows)
  /\ read' = NoRead
  /\ UNCHANGED <<chainVars, performance, budget, misled>>

(* Both sources fail: an empty list marked degraded, and nothing else.     *)
ReadFails ==
  /\ read.at = "asked" /\ "fails" \in BadReads
  /\ Hand({})
  /\ misled' = misled \cup (IF job.at = "look" THEN {job.pos} \cap Open ELSE {})
  /\ read' = NoRead
  /\ UNCHANGED <<chainVars, bookVars, performance, budget>>

(* The forced read of a job, which may join a request already in flight.   *)
JobAsks ==
  /\ job.at = "ask"
  /\ Ask
  /\ job' = [job EXCEPT !.at = "look"]
  /\ UNCHANGED <<chainVars, bookVars, performance, budget, misled>>

-----------------------------------------------------------------------------
(* deployPosition.  Its transactions are confirmed; or the account exists  *)
(* and an error ends the tool, a timeout or a second transaction of a wide *)
(* range that failed.  Deploys never go through the relay.                 *)
DeployLands(p) ==
  /\ p \notin Foreign /\ job = NoJob /\ account[p] = "none"
  /\ account' = [account EXCEPT ![p] = "open"]
  /\ job' \in {[NoJob EXCEPT !.at = "track", !.pos = p], NoJob}
  /\ UNCHANGED <<listed, pendingRelay, bookVars, read, performance, budget, misled>>

(* trackPosition *)
Track(p) ==
  /\ book' = [book EXCEPT ![p] = "deployed"]
  /\ young' = young \cup {p}

DeployTracks ==
  /\ job.at = "track"
  /\ Track(job.pos)
  /\ job' = NoJob
  /\ UNCHANGED <<chainVars, read, performance, budget, misled>>

(* The relay sends the close it took, or never does. *)
RelaySends(p) ==
  /\ p \in pendingRelay
  /\ pendingRelay' = pendingRelay \ {p}
  /\ account' = [account EXCEPT ![p] = "gone"]
  /\ UNCHANGED <<listed, bookVars, read, job, performance, budget, misled>>

RelayDrops(p) ==
  /\ p \in pendingRelay
  /\ pendingRelay' = pendingRelay \ {p}
  /\ UNCHANGED <<account, listed, bookVars, read, job, performance, budget, misled>>

-----------------------------------------------------------------------------
(* recordClose *)
RecordClose(p) ==
  /\ book' = [book EXCEPT ![p] = IF @ = "absent" THEN "absent" ELSE "closed"]
  /\ young' = young \ {p}

(* closePosition.  `tracked' is read once, at the beginning. *)
Closing(p, at) == [NoJob EXCEPT !.at = at, !.pos = p, !.tracked = book[p] # "absent"]

\* Mutant: a position that is closed already is recorded again.
CloseAgain(p) ==
  /\ job = NoJob /\ account[p] # "none"
  /\ account' = [account EXCEPT ![p] = "gone"]
  /\ job' \in {Closing(p, "ask"), NoJob}
  /\ UNCHANGED <<pendingRelay, book>>
  /\ UNCHANGED <<listed, young, read, performance, budget, misled>>

(* Through the relay a close is only submitted.  What the agent closes was *)
(* shown to it by a read, so that later answers show it too.               *)
CloseByRelay(p) ==
  /\ Relay /\ account[p] = "open"
  /\ p \in listed /\ (read.at = "answered" => p \in read.shows)
  /\ pendingRelay' = pendingRelay \cup {p}
  /\ job' \in {Closing(p, "ask"), NoJob}
  /\ UNCHANGED <<account, bookVars>>

(* Without the relay, or when it fails before it was given anything: the   *)
(* transactions are confirmed; or they fail, perhaps after they landed.    *)
CloseBySelf(p) ==
  /\ account[p] = "open"
  /\ account' = [account EXCEPT ![p] = "gone"]
  /\ job' \in {Closing(p, "ask"), NoJob}
  /\ UNCHANGED <<pendingRelay, bookVars>>

(* The error says that the account does not exist any more. *)
CloseOfGone(p) ==
  /\ account[p] = "gone"
  /\ RecordClose(p)
  /\ UNCHANGED <<account, pendingRelay, job>>

Close(p) ==
  /\ job = NoJob
  /\ CloseByRelay(p) \/ CloseBySelf(p) \/ CloseOfGone(p)
  /\ UNCHANGED <<listed, read, performance, budget, misled>>

\* Mutant: one attempt too many.
LooksOnceMore(tries) == tries < Looks

LooksAgain(tries) == tries + 1 < Looks

Confirmed(seen, p) == p \notin seen

CloseLooked ==
  /\ job.at = "looked"
  /\ IF Confirmed(job.seen, job.pos)
     THEN /\ RecordClose(job.pos)
          /\ job' = IF job.tracked THEN [job EXCEPT !.at = "account"] ELSE NoJob
     ELSE /\ job' = IF LooksAgain(job.tries) THEN [job EXCEPT !.at = "ask", !.tries = @ + 1] ELSE NoJob
          /\ UNCHANGED bookVars
  /\ UNCHANGED <<chainVars, read, performance, budget, misled>>

(* recordPerformance, after the closed position's value was asked for; a   *)
(* relayed close does the same.                                            *)
Recorded(p) == [performance EXCEPT ![p] = IF @ < 2 THEN @ + 1 ELSE @]

CloseRecorded ==
  /\ job.at = "account"
  /\ performance' = Recorded(job.pos)
  /\ job' = NoJob
  /\ UNCHANGED <<chainVars, bookVars, read, budget, misled>>

-----------------------------------------------------------------------------
(* The API catches up with the chain. *)
Index ==
  /\ listed # Open /\ listed' = Open
  /\ UNCHANGED <<account, pendingRelay, bookVars, read, job, performance, budget, misled>>

(* Indexing and one read take less than the grace period. *)
GraceEnds(p) ==
  /\ p \in young
  /\ account[p] = "open" => p \in listed /\ (read.at = "answered" => p \in read.shows \cup misled)
  /\ young' = young \ {p}
  /\ UNCHANGED <<chainVars, book, read, job, performance, budget, misled>>

(* The owner opens and closes positions without the agent. *)
Owner(p) ==
  /\ budget > 0 /\ budget' = budget - 1
  /\ account[p] = "none" => p \in Foreign
  /\ account[p] # "gone" /\ p \notin pendingRelay \cup {job.pos}
  /\ account' = [account EXCEPT ![p] = IF @ = "none" THEN "open" ELSE "gone"]
  /\ UNCHANGED <<listed, pendingRelay, bookVars, read, job, performance, misled>>

Crash ==
  /\ budget > 0 /\ budget' = budget - 1
  /\ read' = NoRead /\ job' = NoJob
  /\ UNCHANGED <<chainVars, bookVars, performance, misled>>

Init ==
  /\ account = [p \in Positions |-> "none"] /\ listed = {} /\ pendingRelay = {}
  /\ book = [p \in Positions |-> "absent"] /\ young = {}
  /\ read = NoRead /\ job = NoJob
  /\ performance = [p \in Positions |-> 0]
  /\ budget = Budget /\ misled = {}

ReadStep == ReadDone \/ ReadFails \/ ReaderAsks

JobStep ==
  \/ JobAsks \/ DeployTracks \/ CloseLooked \/ CloseRecorded

Tool(p) == DeployLands(p) \/ Close(p)

Next ==
  \/ ReadStep \/ Answer \/ JobStep \/ Index \/ Crash
  \/ \E p \in Positions : Tool(p) \/ RelaySends(p) \/ RelayDrops(p) \/ GraceEnds(p) \/ Owner(p)

Spec == Init /\ [][Next]_vars

(* Positions are read again and again and not every read fails; awaited    *)
(* calls settle; the API catches up; grace periods pass.  Tools, the relay *)
(* and the owner owe nothing.                                              *)
FairSpec ==
  /\ Spec
  /\ WF_vars(ReadStep) /\ SF_vars(Answer) /\ WF_vars(JobStep) /\ WF_vars(Index)
  /\ \A p \in Positions : SF_vars(GraceEnds(p))

-----------------------------------------------------------------------------
Ats == {"none", "track", "ask", "look", "looked", "account"}

(* The variables keep their types; a job names its position, and a read    *)
(* that has no answer shows nothing.                                       *)
TypeOK ==
  /\ account \in [Positions -> {"none", "open", "gone"}]
  /\ listed \subseteq Positions /\ pendingRelay \subseteq Positions
  /\ book \in [Positions -> Watched \cup {"absent", "closed"}]
  /\ young \subseteq Positions
  /\ read \in [at : {"none", "asked", "answered"}, shows : SUBSET Positions]
  /\ job \in [at : Ats, pos : Positions \cup {NoPosition}, tracked : BOOLEAN,
              tries : 0..(Looks - 1), seen : SUBSET Positions]
  /\ job.at # "none" => job.pos \in Positions
  /\ performance \in [Positions -> 0..2]
  /\ budget \in 0..Budget /\ misled \subseteq Positions

(* What the book calls closed is gone: neither a read that began before a  *)
(* deploy landed nor one that a close joined makes the agent stop watching *)
(* a position that still holds money, unless an answer lacked it or a      *)
(* relayed close was confirmed by a read that failed.                      *)
ClosedMeansGone ==
  \A p \in Positions : book[p] = "closed" => account[p] # "open" \/ p \in misled

(* reconcileTrackedPositions, "never clobber existing metadata": late and  *)
(* outdated lists neither reopen a closed position nor turn a deployed one *)
(* into an imported one.                                                   *)
RecordsNotClobbered ==
  [][\A p \in Positions :
       /\ book[p] = "closed" => book'[p] = "closed"
       /\ book[p] = "deployed" => book'[p] # "imported"]_vars

(* A trade is recorded once, however often it is closed, by the agent or   *)
(* by the owner, and whatever the verification saw.                        *)
TradeRecordedOnce ==
  \A p \in Positions : performance[p] <= 1 \/ p \in misled

(* A position on chain gets into the book although the process that opened *)
(* it crashed, timed out or never learnt its address.                      *)
OpenGetsTracked ==
  \A p \in Positions : account[p] = "open" ~> (book[p] \in Watched \/ account[p] = "gone" \/ p \in misled)

(* A position that is gone does not stay open in the book, whoever closed  *)
(* it and whatever happened to the tool that did.                          *)
GoneGetsClosed ==
  \A p \in Positions : account[p] = "gone" ~> book[p] \notin Watched

(* The book is right about what is over: what it calls closed is gone and  *)
(* was recorded once.                                                      *)
BookIsRight == TypeOK /\ ClosedMeansGone /\ TradeRecordedOnce
=============================================================================
