--------------------------- MODULE DeployGateProofs ---------------------------
(***************************************************************************)
(* What DeployGate promises, for any sessions, closers, pools, watched     *)
(* wallets and limits.                                                     *)
(*                                                                         *)
(* A deploy is many awaits long; what its checks found is kept until it    *)
(* lands by the write-tool lock.  So the invariant says, of each stage of  *)
(* a deploy, what the checks before it established, and that the lock's    *)
(* holder is the only one at work.  The smart-wallet screening is outside  *)
(* the lock: it is counted by a place of its own.                          *)
(***************************************************************************)
EXTENDS DeployGate, FiniteSetTheorems, WellFoundedInduction, TLAPS

DeployStages == {"look", "fund", "price", "send", "confirm"}
CloseStages == {"close", "swap"}
SmartStages == {"wallets", "next", "detail", "price", "send", "confirm"}

Orders == [pc : {"idle"} \cup DeployStages \cup CloseStages, pool : Pools \cup {NoPool},
           named : BOOLEAN, left : SUBSET Positions]

SmartRuns == [pc : {"idle"} \cup SmartStages, todo : SUBSET Leads, lead : Leads \cup {NoPool},
              made : SUBSET Positions, first : Nat, pools : SUBSET Pools,
              saved : SUBSET Leads, vetoed : SUBSET Leads]

(* Who may be at which stage, with what in hand. *)
Staged(c) ==
  /\ IsFiniteSet(order[c].left)
  /\ order[c].pc = "idle" => order[c] = Idle
  /\ order[c].pc \in DeployStages => c \in Sessions /\ order[c].pool \in Pools
  /\ order[c].pc \in DeployStages \ {"confirm"} => order[c].left = {}
  /\ order[c].pc = "confirm" => \E p \in Positions : order[c].left = {p}
  /\ order[c].pc \in CloseStages => c \in Closers

OrderOK ==
  /\ order \in [Callers -> Orders] /\ holder \in Callers \cup {Nobody} /\ fired \subseteq Sessions
  /\ \A c \in Callers : (order[c].pc # "idle") <=> (holder = c)
  /\ \A c \in Callers : Staged(c)

SmartStaged ==
  /\ source = "candidates" => smart = SmartIdle
  /\ smart.pc = "idle" => smart = SmartIdle
  /\ smart.pc = "wallets" => smart.saved = {} /\ smart.vetoed = {} /\ smart.todo = {}
  /\ smart.pc \in {"detail", "price", "send", "confirm"} => smart.lead \in smart.todo
  /\ IF smart.pc = "confirm" THEN \E p \in Positions : smart.made = {p} ELSE smart.made = {}

(* What a run has yet to look at is neither in the snapshot nor saved. *)
LeadsApart ==
  /\ smart.todo \cap (ledger.known \cup smart.saved) = {}
  /\ (ledger.vetoed \cup smart.vetoed) \cap ledger.known = {}

SmartOK ==
  /\ smart \in SmartRuns /\ IsFiniteSet(smart.pools)
  /\ ledger \in [begun : BOOLEAN, known : SUBSET Leads, vetoed : SUBSET Leads]
  /\ followed \in [Leads -> 0 .. 2] /\ baseline \subseteq Leads
  /\ SmartStaged /\ LeadsApart

ChainOK ==
  /\ open \subseteq Positions /\ IsFiniteSet(open)
  /\ book \subseteq Positions /\ IsFiniteSet(book)
  /\ cooled \subseteq Cooling /\ failures \in 0 .. MostFailures
  /\ leads \subseteq Leads /\ landed \in [Sessions -> Nat]
  /\ excused \in BOOLEAN /\ source \in Sources /\ spent \in 0 .. Budget

Base == ChainOK /\ OrderOK /\ SmartOK

-----------------------------------------------------------------------------
(* What the checks of a deploy established, stage by stage. *)
Committed(s) == order[s].pc \in {"fund", "price", "send"}

NotHalted == \A s \in Sessions : order[s].pc \in DeployStages \ {"confirm"} => ~Halted

Warm ==
  \A s \in Sessions :
    /\ order[s].pc \in {"price", "send"} => order[s].pool \notin cooled
    /\ order[s].pc = "send" => Token[order[s].pool] \notin cooled

StillFresh ==
  ~excused /\ source = "candidates" => \A s \in Sessions : Committed(s) => Fresh(open, order[s])

(* Of the session at work and of the screening: a place kept for the       *)
(* position that either is about to open.                                  *)
One(b) == IF b THEN 1 ELSE 0

SessionCommitted == \E s \in Sessions : Committed(s)
SmartCommitted == smart.pc \in {"detail", "price", "send"}

RoomIsKept ==
  ~excused => Cardinality(open) + One(SessionCommitted) + One(SmartCommitted)
                <= MaxPositions + One(source = "smart_wallets")

(* A position that the book lacks has just landed. *)
Landing == UNION {order[s].left : s \in Sessions}

BookLagsBehind ==
  ~excused /\ source = "smart_wallets" => open \subseteq book \cup smart.made \cup Landing

OneLanding ==
  \A s \in Sessions : /\ landed[s] \in {0, 1}
                      /\ landed[s] = 1 => s \in fired \/ order[s].pc = "confirm"
                      /\ order[s].pc \in DeployStages \ {"confirm"} => landed[s] = 0

(* A lead that was followed is in the snapshot, or on its way into it. *)
Recorded ==
  ~excused => \A l \in Leads :
    /\ followed[l] <= 1
    /\ followed[l] = 1 => \/ l \in ledger.known \cup smart.saved
                          \/ smart.pc = "confirm" /\ smart.lead = l

BaselineKnown ==
  /\ ~ledger.begun => ledger.known = {} /\ baseline = {} /\ smart.pc \in {"idle", "wallets"}
  /\ ~excused => baseline \subseteq ledger.known /\ \A l \in baseline : followed[l] = 0

Inv ==
  /\ Base
  /\ NotHalted /\ Warm /\ StillFresh
  /\ RoomIsKept /\ BookLagsBehind /\ OneLanding
  /\ Recorded /\ BaselineKnown

-----------------------------------------------------------------------------
(* Positions and reads. *)

(* Some id of a pool is free while fewer than Ids positions are known; the *)
(* least one is what New chooses.                                          *)
LEMMA NewIsPosition ==
  ASSUME NEW pool \in Pools, IsFiniteSet(Known), Known \subseteq Positions, Cardinality(Known) < Ids
  PROVE  New(pool) \in Positions /\ New(pool).pool = pool
<1> DEFINE used == {p.id : p \in {q \in Known : q.pool = pool}}
           free == (1 .. Ids) \ used
<1>1. Ids \in Nat BY DeployGateAssumption
<1>2. IsFiniteSet(used) /\ Cardinality(used) < Ids
  <2> DEFINE mine == {q \in Known : q.pool = pool}
             f == [q \in mine |-> q.id]
  <2>1. IsFiniteSet(mine) /\ Cardinality(mine) <= Cardinality(Known) BY FS_Subset
  <2>2. f \in Surjection(mine, used) BY DEF Surjection
  <2>3. IsFiniteSet(used) /\ Cardinality(used) <= Cardinality(mine) BY <2>1, <2>2, FS_Surjection
  <2> QED BY <2>1, <2>3, <1>1, FS_CardinalityType
<1>3. free # {}
  <2> SUFFICES ASSUME free = {} PROVE FALSE OBVIOUS
  <2>1. 1 .. Ids \subseteq used OBVIOUS
  <2>2. Cardinality(1 .. Ids) <= Cardinality(used) BY <1>2, <2>1, FS_Subset
  <2>3. Cardinality(1 .. Ids) = Ids BY <1>1, FS_Interval
  <2> QED BY <1>1, <1>2, <2>2, <2>3, FS_CardinalityType
<1>4. PICK i \in free : \A j \in free : ~(j < i)
  <2>1. free \subseteq Nat BY <1>1
  <2>2. PICK i \in free : \A j \in free : ~(<<j, i>> \in OpToRel(<, Nat))
    BY <1>3, <2>1, NatLessThanWellFounded, WFMin
  <2> QED BY <2>1, <2>2 DEF OpToRel
<1>5. i \in 1 .. Ids /\ i \notin used /\ 1 .. i - 1 \subseteq used BY <1>1, <1>4
<1>6. (CHOOSE k \in 1 .. Ids : k \notin used /\ 1 .. k - 1 \subseteq used) \in 1 .. Ids BY <1>5
<1> QED BY <1>6 DEF New, Positions

LEMMA ReadIsOpen ==
  ASSUME NEW r \in Reads, spent \in 0 .. Budget
  PROVE  /\ r.seen \subseteq open /\ r.wrong \in BOOLEAN
         /\ ~r.wrong => r.seen = open
         /\ Charge(r) \in 0 .. Budget
<1>1. CASE r = [seen |-> open, wrong |-> FALSE] BY <1>1 DEF Charge
<1>2. CASE spent < Budget /\ \E ps \in SUBSET open : r = [seen |-> ps, wrong |-> TRUE]
  <2>1. r.seen \subseteq open /\ r.wrong = TRUE BY <1>2
  <2>2. spent + 1 \in 0 .. Budget BY <1>2, DeployGateAssumption
  <2> QED BY <2>1, <2>2 DEF Charge
<1> QED BY <1>1, <1>2 DEF Reads

-----------------------------------------------------------------------------
(* The control: the lock and who works under it. *)

LEMMA IdleIsOrder == Idle \in Orders
BY DEF Idle, Orders

(* One caller changes its order, and the lock goes with it. *)
LEMMA OrderChanges ==
  ASSUME OrderOK, NEW c \in Callers, holder \in {c, Nobody},
         NEW o \in Orders, order' = [order EXCEPT ![c] = o],
         holder' = IF o.pc = "idle" THEN Nobody ELSE c,
         fired' \subseteq Sessions, Staged(c)'
  PROVE  OrderOK'
<1>1. \A d \in Callers \ {c} : order'[d] = order[d] /\ order[d].pc = "idle"
  BY DeployGateAssumption DEF OrderOK, Callers
<1>2. order'[c] = o BY DEF OrderOK
<1>3. order' \in [Callers -> Orders] BY DEF OrderOK
<1>4. holder' \in Callers \cup {Nobody} OBVIOUS
<1>5. \A d \in Callers : (order'[d].pc # "idle") <=> (holder' = d)
  BY <1>1, <1>2, DeployGateAssumption DEF Callers
<1>6. \A d \in Callers \ {c} : Staged(d)'
  BY <1>1 DEF OrderOK, Staged
<1> QED BY <1>3, <1>4, <1>5, <1>6 DEF OrderOK

LEMMA EndsOK ==
  ASSUME OrderOK, NEW c \in Callers, NEW b, order[c].pc # "idle", Ends(c, b)
  PROVE  OrderOK'
<1>1. Staged(c)'
  <2>1. order'[c] = Idle BY DEF Ends, OrderOK
  <2> QED BY <2>1, FS_EmptySet DEF Staged, Idle, DeployStages, CloseStages
<1>2. fired' \subseteq Sessions BY DEF Ends, Answered, OrderOK
<1>3. holder = c BY DEF OrderOK
<1> QED BY <1>1, <1>2, <1>3, OrderChanges, IdleIsOrder DEF Ends, Idle

(* A caller at work goes on with an order that suits its next stage. *)
LEMMA WorkGoesOn ==
  ASSUME OrderOK, NEW c \in Callers, order[c].pc # "idle", UNCHANGED <<holder, fired>>,
         NEW o \in Orders, o.pc # "idle", order' = [order EXCEPT ![c] = o],
         IsFiniteSet(o.left),
         o.pc \in DeployStages => c \in Sessions /\ o.pool \in Pools,
         o.pc \in DeployStages \ {"confirm"} => o.left = {},
         o.pc = "confirm" => \E p \in Positions : o.left = {p},
         o.pc \in CloseStages => c \in Closers
  PROVE  OrderOK'
<1>1. order'[c] = o BY DEF OrderOK
<1>2. Staged(c)' BY <1>1 DEF Staged
<1>3. holder = c BY DEF OrderOK
<1> QED BY <1>2, <1>3, OrderChanges DEF OrderOK

LEMMA GoesOK ==
  ASSUME OrderOK, NEW s \in Sessions, order[s].pc \in DeployStages \ {"confirm"},
         NEW pc \in DeployStages \ {"confirm"}, Goes(s, pc)
  PROVE  OrderOK'
<1> DEFINE o == [order[s] EXCEPT !.pc = pc]
<1>1. s \in Callers /\ order[s] \in Orders /\ Staged(s) BY DEF OrderOK, Callers
<1>2. o \in Orders /\ o.pc = pc /\ o.left = order[s].left /\ o.pool = order[s].pool
  BY <1>1 DEF Orders
<1>3. order[s].pc # "idle" /\ pc # "idle" /\ pc \notin CloseStages BY DEF DeployStages, CloseStages
<1>4. IsFiniteSet(o.left) /\ o.left = {} /\ o.pool \in Pools BY <1>1, <1>2 DEF Staged
<1> HIDE DEF o
<1>5. order' = [order EXCEPT ![s] = o] BY DEF Goes, o
<1> QED BY <1>1, <1>2, <1>3, <1>4, <1>5, WorkGoesOn DEF Goes

LEMMA KnownIsFinite == ASSUME Base PROVE IsFiniteSet(Known) /\ Known \subseteq Positions
<1>1. PICK left \in SUBSET Positions : IsFiniteSet(left) /\ UNION {order[c].left : c \in Callers} = left
  <2>1. CASE holder = Nobody
    <3>1. \A c \in Callers : order[c].left = {} BY <2>1, DeployGateAssumption DEF Base, OrderOK, Staged, Idle, Callers
    <3> QED BY <3>1, FS_EmptySet
  <2>2. CASE holder \in Callers
    <3>1. \A c \in Callers \ {holder} : order[c].left = {} BY DEF Base, OrderOK, Staged, Idle
    <3>2. order[holder].left \subseteq Positions /\ IsFiniteSet(order[holder].left)
      BY <2>2 DEF Base, OrderOK, Staged, Orders
    <3>3. UNION {order[c].left : c \in Callers} = order[holder].left BY <2>2, <3>1
    <3> QED BY <3>2, <3>3
  <2> QED BY <2>1, <2>2 DEF Base, OrderOK
<1>2. IsFiniteSet(smart.made) /\ smart.made \subseteq Positions
  <2>1. smart.made = {} \/ \E p \in Positions : smart.made = {p} BY DEF Base, SmartOK, SmartStaged
  <2> QED BY <2>1, FS_EmptySet, FS_Singleton
<1>3. IsFiniteSet(open \cup book \cup smart.made \cup left) BY <1>1, <1>2, FS_Union DEF Base, ChainOK
<1> QED BY <1>1, <1>2, <1>3 DEF Known, Base, ChainOK

LEMMA SmartIdleOK == SmartIdle \in SmartRuns /\ IsFiniteSet(SmartIdle.pools)
BY FS_EmptySet DEF SmartIdle, SmartRuns

LEMMA BaseInit == Init => Base
<1> SUFFICES ASSUME Init PROVE Base OBVIOUS
<1> USE DEF Init
<1>1. ChainOK
  <2>1. 0 \in 0 .. MostFailures /\ 0 \in 0 .. Budget BY DeployGateAssumption
  <2>2. landed \in [Sessions -> Nat] OBVIOUS
  <2>3. IsFiniteSet(open) /\ IsFiniteSet(book) BY FS_EmptySet
  <2> QED BY <2>1, <2>2, <2>3 DEF ChainOK
<1>2. OrderOK
  <2>1. \A c \in Callers : order[c] = Idle OBVIOUS
  <2>2. \A c \in Callers : Staged(c)
    BY <2>1, FS_EmptySet DEF Staged, Idle, DeployStages, CloseStages
  <2>3. order \in [Callers -> Orders] BY IdleIsOrder
  <2> QED BY <2>1, <2>2, <2>3, DeployGateAssumption DEF OrderOK, Idle, Callers
<1>3. SmartOK BY SmartIdleOK DEF SmartOK, SmartStaged, LeadsApart, SmartIdle
<1> QED BY <1>1, <1>2, <1>3 DEF Base

(* Steps of the sessions and the closers that leave the screening alone. *)
LEMMA SmartStays ==
  ASSUME SmartOK, UNCHANGED <<source, screening, followed, baseline>> PROVE SmartOK'
BY DEF SmartOK, SmartStaged, LeadsApart, screening

(* The book after a read of the positions. *)
LEMMA ReadChain ==
  ASSUME ChainOK, NEW r \in Reads, book' = (IF r.wrong THEN book ELSE open),
         spent' = Charge(r), excused' \in {excused, excused \/ r.wrong},
         UNCHANGED <<open, cooled, failures, leads, landed, source>>
  PROVE  ChainOK'
<1>1. r.wrong \in BOOLEAN /\ Charge(r) \in 0 .. Budget BY ReadIsOpen DEF ChainOK
<1>2. excused' \in BOOLEAN BY <1>1 DEF ChainOK
<1> QED BY <1>1, <1>2 DEF ChainOK

LEMMA DeployBase == ASSUME Base, NEW s \in Sessions, DeployStep(s) PROVE Base'
<1> USE DEF Base
<1>1. s \in Callers /\ order[s] \in Orders /\ Staged(s) /\ Idle \in Orders
  BY IdleIsOrder DEF OrderOK, Callers
<1>2. CASE SessionStarts(s)
  <2>1. OrderOK' BY <1>2 DEF SessionStarts, OrderOK, Staged
  <2>2. ChainOK' BY <1>2 DEF SessionStarts, ChainOK
  <2> QED BY <1>2, <2>1, <2>2, SmartStays DEF SessionStarts
<1>3. CASE Asks(s)
  <2>1. PICK pool \in Pools, named \in BOOLEAN : order' = [order EXCEPT ![s] = Passed(pool, named)]
    BY <1>3 DEF Asks
  <2> DEFINE o == Passed(pool, named)
  <2>2. o \in Orders /\ o.pc = "look" /\ o.left = {} /\ o.pool = pool
    BY DEF Passed, Idle, Orders, DeployStages
  <2> HIDE DEF o
  <2>3. order'[s] = o BY <2>1 DEF OrderOK, Callers, o
  <2>4. Staged(s)' BY <2>2, <2>3, FS_EmptySet DEF Staged, DeployStages, CloseStages
  <2>5. OrderOK' BY <1>1, <1>3, <2>1, <2>2, <2>4, OrderChanges DEF Asks, Free, o, OrderOK
  <2>6. ChainOK' BY <1>3 DEF Asks, ChainOK, history
  <2> QED BY <1>3, <2>5, <2>6, SmartStays DEF Asks, history
<1>4. CASE Looked(s)
  <2>1. PICK r \in Reads :
          /\ IF Room(r.seen) /\ Fresh(r.seen, order[s]) THEN Goes(s, "fund") ELSE Ends(s, TRUE)
          /\ excused' = (excused \/ r.wrong) /\ spent' = Charge(r)
          /\ book' = IF r.wrong THEN book ELSE open
    BY <1>4 DEF Looked
  <2>2. order[s].pc = "look" BY <1>4 DEF Looked
  <2>3. OrderOK' BY <1>1, <2>1, <2>2, GoesOK, EndsOK DEF DeployStages
  <2>4. ChainOK' BY <1>4, <2>1, ReadChain DEF Looked
  <2> QED BY <1>4, <2>3, <2>4, SmartStays DEF Looked
<1>5. CASE Funded(s) \/ Priced(s)
  <2>1. order[s].pc \in {"fund", "price"} BY <1>5 DEF Funded, Priced
  <2>2. \/ \E b \in BOOLEAN : Ends(s, b)
        \/ \E pc \in {"price", "send"} : Goes(s, pc)
    BY <1>5 DEF Funded, Priced
  <2>3. OrderOK' BY <1>1, <2>1, <2>2, GoesOK, EndsOK DEF DeployStages
  <2>4. ChainOK' BY <1>5 DEF Funded, Priced, ChainOK, history
  <2> QED BY <1>5, <2>3, <2>4, SmartStays DEF Funded, Priced, history
<1>6. CASE Lands(s)
  <2> DEFINE n == New(order[s].pool)
             o == [order[s] EXCEPT !.pc = "confirm", !.left = {n}]
  <2>1. order[s].pc = "send" /\ order[s].pool \in Pools
    BY <1>1, <1>6 DEF Lands, Staged, DeployStages
  <2>2. n \in Positions BY <1>6, <2>1, KnownIsFinite, NewIsPosition DEF Lands
  <2> HIDE DEF n
  <2>3. o \in Orders /\ o.pc = "confirm" /\ o.left = {n} /\ o.pool = order[s].pool
    BY <1>1, <2>2 DEF Orders, DeployStages
  <2>4. order' = [order EXCEPT ![s] = o] BY <1>6 DEF Lands, n
  <2> HIDE DEF o
  <2>5. IsFiniteSet(o.left) /\ \E p \in Positions : o.left = {p} BY <2>2, <2>3, FS_Singleton
  <2>9. o.pc # "idle" /\ o.pc \notin CloseStages /\ order[s].pc # "idle" BY <2>1, <2>3 DEF CloseStages
  <2>10. OrderOK' BY <1>1, <1>6, <2>1, <2>3, <2>4, <2>5, <2>9, WorkGoesOn DEF Lands
  <2>6. landed' \in [Sessions -> Nat] BY <1>6 DEF Lands, ChainOK
  <2>7. IsFiniteSet(open') /\ open' \subseteq Positions
    BY <1>6, <2>2, FS_AddElement DEF Lands, ChainOK, n
  <2>8. ChainOK' BY <1>6, <2>6, <2>7 DEF Lands, ChainOK
  <2> QED BY <1>6, <2>10, <2>8, SmartStays DEF Lands
<1>7. CASE SendFails(s) \/ Confirmed(s) \/ Unconfirmed(s)
  <2>1. order[s].pc \in {"send", "confirm"} /\ Ends(s, FALSE)
    BY <1>7 DEF SendFails, Confirmed, Unconfirmed
  <2>2. OrderOK' BY <1>1, <2>1, EndsOK
  <2>3. book' \subseteq Positions /\ IsFiniteSet(book')
    <3>1. order[s].left \subseteq Positions /\ IsFiniteSet(order[s].left) BY <1>1 DEF Staged, Orders
    <3>2. book' \in {book, book \cup order[s].left} BY <1>7 DEF SendFails, Confirmed, Unconfirmed
    <3> QED BY <3>1, <3>2, FS_Union DEF ChainOK
  <2>4. spent' \in 0 .. Budget /\ excused' \in BOOLEAN
    <3>1. CASE Unconfirmed(s) BY <3>1, DeployGateAssumption DEF Unconfirmed, ChainOK
    <3>2. CASE SendFails(s) \/ Confirmed(s) BY <3>2 DEF SendFails, Confirmed, ChainOK, history
    <3> QED BY <1>7, <3>1, <3>2
  <2>5. ChainOK' BY <1>7, <2>3, <2>4 DEF SendFails, Confirmed, Unconfirmed, ChainOK, history
  <2> QED BY <1>7, <2>2, <2>5, SmartStays DEF SendFails, Confirmed, Unconfirmed, history
<1> QED BY <1>2, <1>3, <1>4, <1>5, <1>6, <1>7 DEF DeployStep

(* A closer's work in hand may be any positions. *)
LEMMA CloserGoesOn ==
  ASSUME OrderOK, NEW c \in Closers, order[c].pc \in CloseStages, UNCHANGED <<holder, fired>>,
         NEW pc \in CloseStages, NEW left \in SUBSET Positions, IsFiniteSet(left),
         order' = [order EXCEPT ![c].pc = pc, ![c].left = left]
  PROVE  OrderOK'
<1> DEFINE o == [order[c] EXCEPT !.pc = pc, !.left = left]
<1>1. c \in Callers /\ order[c] \in Orders BY DEF OrderOK, Callers
<1>2. o \in Orders /\ o.pc = pc /\ o.left = left BY <1>1 DEF Orders
<1>3. order' = [order EXCEPT ![c] = o] BY DEF OrderOK
<1> HIDE DEF o
<1> QED BY <1>1, <1>2, <1>3, WorkGoesOn DEF CloseStages, DeployStages

LEMMA CloseBase == ASSUME Base, NEW c \in Closers, CloseStep(c) PROVE Base'
<1> USE DEF Base
<1>1. c \in Callers /\ order[c] \in Orders /\ Staged(c) BY DEF OrderOK, Callers
<1>2. order[c].left \subseteq Positions /\ IsFiniteSet(order[c].left) BY <1>1 DEF Staged, Orders
<1>3. CASE AsksClose(c)
  <2>1. PICK ps \in {{p} : p \in book} \cup {{}} :
          order' = [order EXCEPT ![c].pc = "close", ![c].left = ps]
    BY <1>3 DEF AsksClose
  <2>2. ps \subseteq Positions /\ IsFiniteSet(ps)
    <3>1. CASE ps = {} BY <3>1, FS_EmptySet
    <3>2. CASE \E p \in book : ps = {p}
      <4>1. IsFiniteSet(ps) BY <3>2, FS_Singleton
      <4>2. book \subseteq Positions BY DEF ChainOK
      <4> QED BY <3>2, <4>1, <4>2
    <3> QED BY <3>1, <3>2
  <2> DEFINE o == [order[c] EXCEPT !.pc = "close", !.left = ps]
  <2>3. o \in Orders /\ o.pc = "close" /\ o.left = ps BY <1>1, <2>2 DEF Orders, CloseStages
  <2>4. order' = [order EXCEPT ![c] = o] BY <2>1 DEF OrderOK
  <2> HIDE DEF o
  <2>5. order'[c] = o BY <1>1, <2>4 DEF OrderOK
  <2>6. Staged(c)' BY <2>2, <2>3, <2>5 DEF Staged, DeployStages
  <2>7. OrderOK' BY <1>1, <1>3, <2>3, <2>4, <2>6, OrderChanges DEF AsksClose, Free, OrderOK
  <2>8. ChainOK' BY <1>3 DEF AsksClose, ChainOK, history
  <2> QED BY <1>3, <2>7, <2>8, SmartStays DEF AsksClose, history
<1>4. CASE Listed(c)
  <2>1. PICK r \in Reads :
          /\ IF r.seen = {} THEN Ends(c, FALSE)
             ELSE order' = [order EXCEPT ![c].left = r.seen] /\ UNCHANGED <<holder, fired>>
          /\ spent' = Charge(r) /\ book' = IF r.wrong THEN book ELSE open
    BY <1>4 DEF Listed
  <2>2. order[c].pc = "close" BY <1>4 DEF Listed
  <2>3. r.seen \subseteq Positions /\ IsFiniteSet(r.seen) BY ReadIsOpen, FS_Subset DEF ChainOK
  <2>4. OrderOK'
    <3>1. CASE r.seen = {} BY <1>1, <2>1, <2>2, <3>1, EndsOK
    <3>2. CASE r.seen # {}
      <4>1. order' = [order EXCEPT ![c].left = r.seen] BY <2>1, <3>2
      <4>2. order \in [Callers -> [pc : {"idle"} \cup DeployStages \cup CloseStages,
                       pool : Pools \cup {NoPool}, named : BOOLEAN, left : SUBSET Positions]]
        BY DEF OrderOK, Orders
      <4>3. order' = [order EXCEPT ![c].pc = "close", ![c].left = r.seen]
        BY <1>1, <2>2, <4>1, <4>2
      <4> QED BY <2>1, <2>2, <2>3, <3>2, <4>3, CloserGoesOn DEF CloseStages
    <3> QED BY <3>1, <3>2
  <2>5. ChainOK' BY <1>4, <2>1, ReadChain DEF Listed, history
  <2> QED BY <1>4, <2>4, <2>5, SmartStays DEF Listed, history
<1>5. CASE Closed(c)
  <2>1. PICK p \in order[c].left \cap open :
          /\ open' = open \ {p} /\ book' = book \ {p}
          /\ \E rest \in SUBSET (Cooling \cap {p.pool, Token[p.pool]}) : cooled' = cooled \cup rest
          /\ order' = [order EXCEPT ![c].pc = "swap", ![c].left = @ \ {p}]
    BY <1>5 DEF Closed
  <2>2. order[c].pc = "close" BY <1>5 DEF Closed
  <2>3. OrderOK'
    <3>1. order' = [order EXCEPT ![c].pc = "swap", ![c].left = order[c].left \ {p}] BY <1>1, <2>1
    <3>2. IsFiniteSet(order[c].left \ {p}) BY <1>2, FS_RemoveElement
    <3> QED BY <1>2, <1>5, <2>2, <3>1, <3>2, CloserGoesOn DEF Closed, CloseStages
  <2>4. IsFiniteSet(open') /\ IsFiniteSet(book') BY <2>1, FS_RemoveElement DEF ChainOK
  <2>5. ChainOK' BY <1>5, <2>1, <2>4 DEF Closed, ChainOK, history
  <2> QED BY <1>5, <2>3, <2>5, SmartStays DEF Closed, history
<1>6. CASE CloseFails(c)
  <2>1. PICK p \in order[c].left : CloseNext(c, p) BY <1>6 DEF CloseFails
  <2>2. order[c].pc = "close" BY <1>6 DEF CloseFails
  <2>3. OrderOK'
    <3>1. CASE Ends(c, FALSE) BY <1>1, <2>2, <3>1, EndsOK
    <3>2. CASE order' = [order EXCEPT ![c].left = @ \ {p}, ![c].pc = "close"] /\ UNCHANGED <<holder, fired>>
      <4>1. order' = [order EXCEPT ![c].pc = "close", ![c].left = order[c].left \ {p}]
        BY <1>1, <3>2 DEF OrderOK, Orders
      <4>2. IsFiniteSet(order[c].left \ {p}) BY <1>2, FS_RemoveElement
      <4> QED BY <1>2, <2>2, <3>2, <4>1, <4>2, CloserGoesOn DEF CloseStages
    <3> QED BY <2>1, <3>1, <3>2 DEF CloseNext
  <2>4. ChainOK' BY <1>6 DEF CloseFails, ChainOK, history
  <2> QED BY <1>6, <2>3, <2>4, SmartStays DEF CloseFails, history
<1>7. CASE SwapEnds(c)
  <2>1. order[c].pc = "swap" BY <1>7 DEF SwapEnds
  <2>2. OrderOK'
    <3>1. CASE Ends(c, FALSE) BY <1>1, <2>1, <3>1, EndsOK
    <3>2. CASE Goes(c, "close")
      <4>1. order' = [order EXCEPT ![c].pc = "close", ![c].left = order[c].left]
        BY <1>1, <3>2 DEF Goes, OrderOK, Orders
      <4> QED BY <1>2, <2>1, <3>2, <4>1, CloserGoesOn DEF CloseStages, Goes
    <3> QED BY <1>7, <3>1, <3>2 DEF SwapEnds
  <2>3. failures' \in 0 .. MostFailures
    BY <1>7, DeployGateAssumption DEF SwapEnds, SwapCounted, ChainOK
  <2>4. ChainOK' BY <1>7, <2>3 DEF SwapEnds, ChainOK, history
  <2> QED BY <1>7, <2>2, <2>4, SmartStays DEF SwapEnds, history
<1> QED BY <1>3, <1>4, <1>5, <1>6, <1>7 DEF CloseStep

LEMMA OrderStays == ASSUME OrderOK, UNCHANGED orders PROVE OrderOK'
BY DEF OrderOK, Staged, orders

(* A run in which no position has just landed. *)
LEMMA SmartGoesOn ==
  ASSUME SmartOK, smart' \in SmartRuns, IsFiniteSet(smart'.pools), source = "smart_wallets",
         UNCHANGED <<source, baseline>>, followed' \in [Leads -> 0 .. 2],
         ledger' \in [begun : BOOLEAN, known : SUBSET Leads, vetoed : SUBSET Leads],
         LeadsApart', smart'.pc \notin {"idle", "wallets"},
         smart'.pc \in {"detail", "price", "send", "confirm"} => smart'.lead \in smart'.todo,
         IF smart'.pc = "confirm" THEN \E p \in Positions : smart'.made = {p} ELSE smart'.made = {}
  PROVE  SmartOK'
BY DEF SmartOK, SmartStaged

(* A lead is resolved. *)
LEMMA ResolvesOK ==
  ASSUME SmartOK, source = "smart_wallets", UNCHANGED <<source, ledger, followed, baseline>>,
         NEW l \in smart.todo, NEW saved \in SUBSET {l}, NEW vetoed \in SUBSET {l},
         smart.pc \in SmartStages \ {"wallets"}, Resolves(l, saved, vetoed)
  PROVE  SmartOK'
<1>1. l \in Leads /\ smart \in SmartRuns BY DEF SmartOK, SmartRuns
<1>2. smart' = [smart EXCEPT !.pc = "next", !.lead = NoPool, !.made = {}, !.todo = smart.todo \ {l},
                             !.saved = smart.saved \cup saved, !.vetoed = smart.vetoed \cup vetoed]
  BY DEF Resolves
<1>3. smart' \in SmartRuns BY <1>1, <1>2 DEF SmartRuns, SmartStages
<1>4. /\ smart'.pc = "next" /\ smart'.made = {} /\ smart'.pools = smart.pools
      /\ smart'.todo = smart.todo \ {l}
      /\ smart'.saved = smart.saved \cup saved /\ smart'.vetoed = smart.vetoed \cup vetoed
  BY <1>1, <1>2 DEF SmartRuns
<1>5. LeadsApart' BY <1>4 DEF LeadsApart, SmartOK
<1> QED BY <1>3, <1>4, <1>5, SmartGoesOn DEF SmartOK

(* A run goes on to the next check of its lead. *)
LEMMA PassesOK ==
  ASSUME SmartOK, source = "smart_wallets", UNCHANGED <<source, ledger, followed, baseline>>,
         smart.pc \in {"detail", "price"}, NEW pc \in {"price", "send"}, Passes(pc)
  PROVE  SmartOK'
<1>1. smart \in SmartRuns BY DEF SmartOK
<1>2. smart' \in SmartRuns BY <1>1 DEF Passes, SmartRuns, SmartStages
<1>3. smart'.pc = pc BY <1>1 DEF Passes, SmartRuns
<1>4. /\ smart'.todo = smart.todo /\ smart'.lead = smart.lead /\ smart'.made = smart.made
      /\ smart'.pools = smart.pools /\ smart'.saved = smart.saved /\ smart'.vetoed = smart.vetoed
  BY <1>1 DEF Passes, SmartRuns
<1>5. LeadsApart' BY <1>4 DEF LeadsApart, SmartOK
<1> QED BY <1>2, <1>3, <1>4, <1>5, SmartGoesOn DEF SmartOK, SmartStaged

(* The screening works for its source only. *)
LEMMA SmartSource == ASSUME Base, smart.pc # "idle" PROVE source = "smart_wallets"
BY DeployGateAssumption DEF Base, ChainOK, SmartOK, SmartStaged, SmartIdle

LEMMA SmartIdles ==
  ASSUME SmartOK, smart' = SmartIdle, UNCHANGED <<source, followed>>, baseline' \subseteq Leads,
         ledger' \in [begun : BOOLEAN, known : SUBSET Leads, vetoed : SUBSET Leads],
         ledger'.vetoed \cap ledger'.known = {}
  PROVE  SmartOK'
BY SmartIdleOK DEF SmartOK, SmartStaged, LeadsApart, SmartIdle

LEMMA SmartBase == ASSUME Base, SmartStep PROVE Base'
<1> USE DEF Base
<1>1. /\ smart \in SmartRuns /\ IsFiniteSet(smart.pools)
      /\ ledger \in [begun : BOOLEAN, known : SUBSET Leads, vetoed : SUBSET Leads]
      /\ ledger.vetoed \cap ledger.known = {}
  BY DEF SmartOK, LeadsApart
<1>2. CASE ScreeningStarts
  <2>1. PICK r \in Reads :
          /\ smart' = IF Room(r.seen) THEN [SmartIdle EXCEPT !.pc = "wallets"] ELSE SmartIdle
          /\ book' = IF r.wrong THEN book ELSE open
          /\ excused' = (excused \/ r.wrong) /\ spent' = Charge(r)
    BY <1>2 DEF ScreeningStarts
  <2>2. ChainOK' BY <1>2, <2>1, ReadChain DEF ScreeningStarts
  <2>3. OrderOK' BY <1>2, OrderStays DEF ScreeningStarts
  <2>4. [SmartIdle EXCEPT !.pc = "wallets"] \in SmartRuns
    BY SmartIdleOK DEF SmartIdle, SmartRuns, SmartStages
  <2>5. SmartOK'
    BY <1>2, <2>1, <2>4, SmartIdleOK
       DEF ScreeningStarts, SmartOK, SmartStaged, LeadsApart, SmartIdle
  <2> QED BY <2>2, <2>3, <2>5
<1>3. CASE WalletsRead
  <2>1. PICK seen \in SUBSET leads :
          /\ spent' = IF seen = leads THEN spent ELSE spent + 1
          /\ seen = leads \/ spent < Budget
          /\ \/ /\ ledger.begun /\ UNCHANGED <<ledger, baseline, excused>>
                /\ \/ smart' = SmartIdle
                   \/ smart' = [smart EXCEPT !.pc = "next", !.todo = NewLeads(seen),
                                             !.first = Cardinality(book)]
             \/ /\ smart' = SmartIdle /\ baseline' = leads /\ excused' = (excused \/ seen # leads)
                /\ ledger' = [begun |-> TRUE, known |-> seen, vetoed |-> {}]
    BY <1>3 DEF WalletsRead
  <2>2. smart.pc = "wallets" /\ seen \subseteq Leads /\ leads \subseteq Leads
    BY <1>3 DEF WalletsRead, ChainOK
  <2>3. ChainOK'
    <3>1. spent' \in 0 .. Budget BY <2>1, DeployGateAssumption DEF ChainOK
    <3>2. excused' \in BOOLEAN BY <2>1 DEF ChainOK
    <3> QED BY <1>3, <3>1, <3>2 DEF WalletsRead, ChainOK
  <2>4. OrderOK' BY <1>3, OrderStays DEF WalletsRead
  <2>5. SmartOK'
    <3>1. CASE smart' = SmartIdle
      <4>1. /\ ledger' \in [begun : BOOLEAN, known : SUBSET Leads, vetoed : SUBSET Leads]
            /\ ledger'.vetoed \cap ledger'.known = {} /\ baseline' \subseteq Leads
        <5>1. CASE UNCHANGED <<ledger, baseline>> BY <1>1, <5>1 DEF SmartOK
        <5>2. CASE baseline' = leads /\ ledger' = [begun |-> TRUE, known |-> seen, vetoed |-> {}]
          BY <2>2, <5>2
        <5> QED BY <2>1, <5>1, <5>2
      <4> QED BY <1>3, <3>1, <4>1, SmartIdles DEF WalletsRead
    <3>2. CASE /\ smart' = [smart EXCEPT !.pc = "next", !.todo = NewLeads(seen), !.first = Cardinality(book)]
               /\ UNCHANGED <<ledger, baseline>>
      <4>1. Cardinality(book) \in Nat BY FS_CardinalityType DEF ChainOK
      <4>2. NewLeads(seen) \in SUBSET Leads /\ NewLeads(seen) \cap ledger.known = {}
        BY <2>2 DEF NewLeads
      <4>3. smart' \in SmartRuns BY <1>1, <3>2, <4>1, <4>2 DEF SmartRuns, SmartStages
      <4>4. /\ smart'.pc = "next" /\ smart'.todo = NewLeads(seen) /\ smart'.pools = smart.pools
            /\ smart'.made = {} /\ smart'.saved = {} /\ smart'.vetoed = {}
        BY <1>1, <2>2, <3>2 DEF SmartRuns, SmartOK, SmartStaged
      <4>5. LeadsApart' BY <1>1, <3>2, <4>2, <4>4 DEF LeadsApart
      <4> QED BY <1>1, <1>3, <2>2, <3>2, <4>3, <4>4, <4>5, SmartGoesOn, SmartSource DEF WalletsRead, SmartOK
    <3> QED BY <2>1, <3>1, <3>2
  <2> QED BY <2>3, <2>4, <2>5
<1>4. CASE SmartNext
  <2>1. PICK l \in smart.todo :
          Resolves(l, {l}, {}) \/ smart' = [smart EXCEPT !.pc = "detail", !.lead = l]
    BY <1>4 DEF SmartNext
  <2>2. smart.pc = "next" /\ source = "smart_wallets" BY <1>4, SmartSource DEF SmartNext
  <2>3. SmartOK'
    <3>1. CASE Resolves(l, {l}, {})
      BY <1>4, <2>2, <3>1, ResolvesOK DEF SmartNext, history, SmartStages
    <3>2. CASE smart' = [smart EXCEPT !.pc = "detail", !.lead = l]
      <4>1. smart' \in SmartRuns BY <1>1, <3>2 DEF SmartRuns, SmartStages
      <4>2. /\ smart'.pc = "detail" /\ smart'.lead = l /\ smart'.todo = smart.todo /\ smart'.made = {}
            /\ smart'.pools = smart.pools /\ smart'.saved = smart.saved /\ smart'.vetoed = smart.vetoed
        BY <1>1, <2>2, <3>2 DEF SmartRuns, SmartOK, SmartStaged
      <4>3. LeadsApart' BY <1>4, <4>2 DEF SmartNext, LeadsApart, SmartOK
      <4> QED BY <1>1, <1>4, <2>2, <4>1, <4>2, <4>3, SmartGoesOn DEF SmartNext, history, SmartOK
    <3> QED BY <2>1, <3>1, <3>2
  <2>4. ChainOK' BY <1>4 DEF SmartNext, ChainOK, history
  <2> QED BY <1>4, <2>3, <2>4, OrderStays DEF SmartNext
<1>5. CASE Detailed \/ SmartPriced \/ SmartSendFails \/ SmartUnconfirmed
  <2>1. smart.pc \in {"detail", "price", "send", "confirm"} /\ source = "smart_wallets"
    BY <1>5, SmartSource DEF Detailed, SmartPriced, SmartSendFails, SmartUnconfirmed
  <2>2. smart.lead \in smart.todo BY <2>1 DEF SmartOK, SmartStaged
  <2>3. UNCHANGED <<source, ledger, followed, baseline, orders>>
    BY <1>5 DEF Detailed, SmartPriced, SmartSendFails, SmartUnconfirmed, history
  <2>4. \/ \E vetoed \in SUBSET {smart.lead} : Resolves(smart.lead, {}, vetoed)
        \/ smart.pc \in {"detail", "price"} /\ \E pc \in {"price", "send"} : Passes(pc)
    BY <1>5 DEF Detailed, SmartPriced, SmartSendFails, SmartUnconfirmed
  <2>5. SmartOK' BY <2>1, <2>2, <2>3, <2>4, ResolvesOK, PassesOK DEF SmartStages
  <2>6. ChainOK'
    <3>1. CASE SmartUnconfirmed BY <3>1, DeployGateAssumption DEF SmartUnconfirmed, ChainOK
    <3>2. CASE Detailed \/ SmartPriced \/ SmartSendFails
      BY <3>2 DEF Detailed, SmartPriced, SmartSendFails, ChainOK, history
    <3> QED BY <1>5, <3>1, <3>2
  <2> QED BY <2>3, <2>5, <2>6, OrderStays
<1>6. CASE SmartLands
  <2> DEFINE n == New(LeadPool[smart.lead])
  <2>1. smart.pc = "send" /\ source = "smart_wallets" BY <1>6, SmartSource DEF SmartLands
  <2>2. smart.lead \in smart.todo /\ smart.lead \in Leads
    BY <1>1, <2>1 DEF SmartOK, SmartStaged, SmartRuns
  <2>3. n \in Positions
    BY <1>6, <2>2, KnownIsFinite, NewIsPosition, DeployGateAssumption DEF SmartLands
  <2>4. smart' = [smart EXCEPT !.pc = "confirm", !.made = {n}] /\ open' = open \cup {n}
    BY <1>6 DEF SmartLands
  <2> HIDE DEF n
  <2>5. smart' \in SmartRuns BY <1>1, <2>3, <2>4 DEF SmartRuns, SmartStages
  <2>6. /\ smart'.pc = "confirm" /\ smart'.lead = smart.lead /\ smart'.todo = smart.todo
        /\ smart'.made = {n} /\ smart'.pools = smart.pools
        /\ smart'.saved = smart.saved /\ smart'.vetoed = smart.vetoed
    BY <1>1, <2>4 DEF SmartRuns
  <2>7. followed' \in [Leads -> 0 .. 2]
    <3>1. followed \in [Leads -> 0 .. 2] /\ followed[smart.lead] \in 0 .. 2 BY <2>2 DEF SmartOK
    <3> DEFINE k == IF followed[smart.lead] > 1 THEN followed[smart.lead] ELSE followed[smart.lead] + 1
    <3>2. k \in 0 .. 2 BY <3>1
    <3>3. followed' = [followed EXCEPT ![smart.lead] = k] BY <1>6 DEF SmartLands
    <3> HIDE DEF k
    <3> QED BY <3>1, <3>2, <3>3
  <2>8. LeadsApart' BY <1>6, <2>6 DEF SmartLands, LeadsApart, SmartOK
  <2>9. SmartOK'
    BY <1>1, <1>6, <2>1, <2>2, <2>3, <2>5, <2>6, <2>7, <2>8, SmartGoesOn DEF SmartLands
  <2>10. IsFiniteSet(open') /\ open' \subseteq Positions BY <2>3, <2>4, FS_AddElement DEF ChainOK
  <2>11. ChainOK' BY <1>6, <2>10 DEF SmartLands, ChainOK
  <2> QED BY <1>6, <2>9, <2>11, OrderStays DEF SmartLands
<1>7. CASE SmartConfirmed
  <2>1. smart.pc = "confirm" /\ source = "smart_wallets" BY <1>7, SmartSource DEF SmartConfirmed
  <2>2. smart.lead \in smart.todo /\ smart.lead \in Leads /\ LeadPool[smart.lead] \in Pools
    BY <1>1, <2>1, DeployGateAssumption DEF SmartOK, SmartStaged, SmartRuns
  <2>3. PICK p \in Positions : smart.made = {p} BY <2>1 DEF SmartOK, SmartStaged
  <2>4. smart' = [smart EXCEPT !.pc = "next", !.lead = NoPool, !.made = {},
                               !.todo = smart.todo \ {smart.lead},
                               !.pools = smart.pools \cup {LeadPool[smart.lead]},
                               !.saved = smart.saved \cup {smart.lead}]
    BY <1>7 DEF SmartConfirmed, Kept
  <2>5. smart' \in SmartRuns BY <1>1, <2>2, <2>4 DEF SmartRuns, SmartStages
  <2>6. /\ smart'.pc = "next" /\ smart'.made = {} /\ smart'.todo = smart.todo \ {smart.lead}
        /\ smart'.pools = smart.pools \cup {LeadPool[smart.lead]}
        /\ smart'.saved = smart.saved \cup {smart.lead} /\ smart'.vetoed = smart.vetoed
    BY <1>1, <2>4 DEF SmartRuns
  <2>7. IsFiniteSet(smart'.pools) BY <1>1, <2>6, FS_AddElement
  <2>8. LeadsApart' BY <1>7, <2>6 DEF SmartConfirmed, LeadsApart, SmartOK
  <2>9. SmartOK'
    BY <1>1, <1>7, <2>1, <2>5, <2>6, <2>7, <2>8, SmartGoesOn DEF SmartConfirmed, history, SmartOK
  <2>10. IsFiniteSet(book') /\ book' \subseteq Positions
    BY <1>7, <2>3, FS_AddElement DEF SmartConfirmed, ChainOK
  <2>11. ChainOK' BY <1>7, <2>10 DEF SmartConfirmed, ChainOK, history
  <2> QED BY <1>7, <2>9, <2>11, OrderStays DEF SmartConfirmed
<1>8. CASE Saves
  <2>1. smart.saved \subseteq Leads /\ smart.vetoed \subseteq Leads BY <1>1 DEF SmartRuns
  <2>2. /\ ledger' \in [begun : BOOLEAN, known : SUBSET Leads, vetoed : SUBSET Leads]
        /\ ledger'.vetoed \cap ledger'.known = {}
    BY <1>1, <1>8, <2>1 DEF Saves, Updated, SmartOK, LeadsApart
  <2>3. SmartOK' BY <1>8, <2>2, SmartIdles DEF Saves, history, SmartOK
  <2>4. ChainOK' BY <1>8 DEF Saves, ChainOK, history
  <2> QED BY <1>8, <2>3, <2>4, OrderStays DEF Saves
<1> QED BY <1>2, <1>3, <1>4, <1>5, <1>6, <1>7, <1>8 DEF SmartStep

(* The rest of Next. *)
LEMMA OutsideBase ==
  ASSUME Base, VetoAges \/ (\E l \in Leads : LeadOpens(l)) \/ ResetHalt \/ CooldownEnds
  PROVE  Base'
<1> USE DEF Base
<1>1. OrderOK'
  BY OrderStays DEF VetoAges, LeadOpens, ResetHalt, CooldownEnds
<1>2. ChainOK'
  BY DeployGateAssumption DEF VetoAges, LeadOpens, ResetHalt, CooldownEnds, ChainOK, history
<1>3. SmartOK'
  <2>1. CASE VetoAges
    <3>1. PICK l \in ledger.vetoed : ledger' = [ledger EXCEPT !.vetoed = @ \ {l}] BY <2>1 DEF VetoAges
    <3>2. ledger \in [begun : BOOLEAN, known : SUBSET Leads, vetoed : SUBSET Leads] BY DEF SmartOK
    <3>3. /\ ledger' \in [begun : BOOLEAN, known : SUBSET Leads, vetoed : SUBSET Leads]
          /\ ledger'.known = ledger.known /\ ledger'.vetoed \subseteq ledger.vetoed
      BY <3>1, <3>2
    <3> QED BY <2>1, <3>3 DEF VetoAges, SmartOK, SmartStaged, LeadsApart, history
  <2>2. CASE ~VetoAges
    BY <2>2, SmartStays DEF LeadOpens, ResetHalt, CooldownEnds, history
  <2> QED BY <2>1, <2>2
<1> QED BY <1>1, <1>2, <1>3

LEMMA RestartBase == ASSUME Base, Restart PROVE Base'
<1> USE DEF Base
<1>1. OrderOK'
  <2>1. \A c \in Callers : order'[c] = Idle BY DEF Restart
  <2>2. order' \in [Callers -> Orders] BY IdleIsOrder DEF Restart
  <2>3. \A c \in Callers : Staged(c)'
    <3> SUFFICES ASSUME NEW c \in Callers PROVE Staged(c)' OBVIOUS
    <3>1. order'[c] = Idle BY <2>1
    <3> QED BY <3>1, FS_EmptySet DEF Staged, Idle, DeployStages, CloseStages
  <2> QED BY <2>1, <2>2, <2>3, DeployGateAssumption DEF Restart, OrderOK, Idle, Callers
<1>2. ChainOK'
  <2>1. spent' \in 0 .. Budget BY DeployGateAssumption DEF Restart, ChainOK
  <2>2. landed' \in [Sessions -> Nat] BY DEF Restart
  <2>3. excused' \in BOOLEAN BY DEF Restart, ChainOK
  <2> QED BY <2>1, <2>2, <2>3 DEF Restart, ChainOK
<1>3. SmartOK' BY SmartIdles DEF Restart, SmartOK, LeadsApart
<1> QED BY <1>1, <1>2, <1>3

LEMMA StutterBase == ASSUME Base, UNCHANGED vars PROVE Base'
BY OrderStays, SmartStays DEF Base, vars, ChainOK, history

LEMMA BaseNext == ASSUME Base, [Next]_vars PROVE Base'
BY DeployBase, CloseBase, SmartBase, OutsideBase, RestartBase, StutterBase DEF Next

LEMMA BaseTypeOK == ASSUME Base PROVE TypeOK
BY DEF Base, ChainOK, OrderOK, SmartOK, LeadsApart, TypeOK

-----------------------------------------------------------------------------
(* Deploys of sessions. *)

Checks == NotHalted /\ Warm /\ StillFresh /\ OneLanding

LEMMA OthersIdle ==
  ASSUME Base, NEW c \in Callers, order[c].pc # "idle"
  PROVE  \A d \in Callers \ {c} : order[d] = Idle
BY DEF Base, OrderOK, Staged

LEMMA EndsIdle ==
  ASSUME Base, NEW c \in Callers, order[c].pc # "idle", NEW b, Ends(c, b)
  PROVE  \A d \in Callers : order'[d] = Idle
BY OthersIdle DEF Base, OrderOK, Ends

LEMMA GoesOnly ==
  ASSUME Base, NEW c \in Callers, NEW pc, order[c].pc # "idle", Goes(c, pc)
  PROVE  /\ \A d \in Callers \ {c} : order'[d] = Idle
         /\ order'[c].pc = pc /\ order'[c].pool = order[c].pool /\ order'[c].named = order[c].named
         /\ order'[c].left = order[c].left /\ fired' = fired
BY OthersIdle DEF Base, OrderOK, Orders, Goes

(* No session is about a deploy. *)
LEMMA IdleChecks ==
  ASSUME \A s \in Sessions : order'[s].pc \in {"idle", "close", "swap"},
         \A s \in Sessions : landed'[s] = 0 \/ (landed'[s] = 1 /\ s \in fired')
  PROVE  Checks'
BY DEF Checks, NotHalted, Warm, StillFresh, OneLanding, Committed, DeployStages

LEMMA DeployChecks == ASSUME Base, Checks, NEW s \in Sessions, DeployStep(s) PROVE Checks'
<1> USE DEF Base
<1>1. s \in Callers /\ Sessions \subseteq Callers /\ landed \in [Sessions -> Nat] /\ order \in [Callers -> Orders]
  BY DEF Callers, ChainOK, OrderOK
<1>2. \A t \in Sessions : landed[t] = 0 \/ (landed[t] = 1 /\ (t \in fired \/ order[t].pc = "confirm"))
  BY DEF Checks, OneLanding
<1>3. CASE SessionStarts(s)
  <2>1. OneLanding' BY <1>1, <1>3 DEF SessionStarts, Checks, OneLanding, Idle
  <2>2. NotHalted' /\ Warm' /\ StillFresh'
    BY <1>3 DEF SessionStarts, Checks, NotHalted, Halted, Warm, StillFresh, Committed, Fresh, PoolsOf
  <2> QED BY <2>1, <2>2 DEF Checks
<1>4. CASE Asks(s)
  <2>1. /\ \A d \in Callers \ {s} : order[d] = Idle /\ order'[d] = Idle
        /\ order'[s].pc = "look" /\ order[s] = Idle /\ s \notin fired /\ ~Halted'
    <3>1. holder = Nobody /\ \A d \in Callers : order[d] = Idle
      BY <1>4, DeployGateAssumption DEF Asks, Free, OrderOK, Staged, Callers
    <3>2. PICK pool \in Pools, named \in BOOLEAN : order' = [order EXCEPT ![s] = Passed(pool, named)]
      BY <1>4 DEF Asks
    <3>3. order'[s].pc = "look" /\ \A d \in Callers \ {s} : order'[d] = order[d]
      BY <1>1, <3>2 DEF Passed, Idle
    <3>4. s \notin fired /\ ~Halted' BY <1>4 DEF Asks, Halted
    <3> QED BY <1>1, <3>1, <3>3, <3>4
  <2>2. NotHalted' /\ Warm' /\ StillFresh'
    BY <1>1, <2>1 DEF NotHalted, Warm, StillFresh, Committed, Idle, DeployStages
  <2>3. OneLanding' BY <1>1, <1>2, <1>4, <2>1 DEF OneLanding, Asks, history, Idle, DeployStages
  <2> QED BY <2>2, <2>3 DEF Checks
<1>5. CASE /\ order[s].pc \in {"look", "fund", "price", "send", "confirm"}
           /\ \E b \in BOOLEAN : Ends(s, b) /\ (b => order[s].pc \in {"look", "fund"})
           /\ UNCHANGED landed
  <2>1. PICK b \in BOOLEAN : Ends(s, b) /\ (b => order[s].pc \in {"look", "fund"}) BY <1>5
  <2>2. \A d \in Callers : order'[d] = Idle BY <1>1, <1>5, <2>1, EndsIdle
  <2>3. \A t \in Sessions : landed[t] = 1 => t \in fired'
    BY <1>1, <1>2, <1>5, <2>1, OthersIdle
       DEF Ends, Answered, Checks, OneLanding, Idle, DeployStages
  <2> QED BY <1>1, <1>2, <1>5, <2>2, <2>3, IdleChecks DEF Idle
<1>6. CASE /\ order[s].pc \in {"look", "fund", "price"}
           /\ \E pc \in {"fund", "price", "send"} : Goes(s, pc)
           /\ (Looked(s) /\ Goes(s, "fund")) \/ (Funded(s) /\ Goes(s, "price"))
                 \/ (Priced(s) /\ Goes(s, "send"))
  <2>1. PICK pc \in {"fund", "price", "send"} : Goes(s, pc) BY <1>6
  <2>2. UNCHANGED <<open, cooled, failures, landed, source>>
    BY <1>6 DEF Looked, Funded, Priced, history
  <2>3. /\ \A d \in Callers \ {s} : order'[d] = Idle
        /\ order'[s].pc = pc /\ order'[s].pool = order[s].pool /\ order'[s].named = order[s].named
        /\ fired' = fired
    BY <1>1, <1>6, <2>1, GoesOnly
  <2>4. order[s].pc \in DeployStages \ {"confirm"} BY <1>6 DEF DeployStages
  <2>5. NotHalted' BY <1>1, <2>2, <2>3, <2>4 DEF NotHalted, Checks, Halted, Idle, DeployStages
  <2>6. OneLanding'
    BY <1>1, <1>2, <2>2, <2>3, <2>4, OthersIdle DEF OneLanding, Checks, Idle, DeployStages
  <2>7. ASSUME NEW b, Ends(s, b) PROVE FALSE
    <3>1. order'[s] = Idle BY <1>1, <2>4, <2>7, EndsIdle DEF DeployStages
    <3> QED BY <2>3, <3>1 DEF Idle
  <2>8. ASSUME NEW p, Goes(s, p) PROVE p = pc
    BY <1>1, <2>3, <2>4, <2>8, GoesOnly DEF DeployStages
  <2>9. Warm'
    <3>1. CASE Looked(s) /\ Goes(s, "fund")
      <4>1. pc = "fund" BY <2>8, <3>1
      <4> QED BY <1>1, <2>3, <4>1 DEF Warm, Idle
    <3>2. CASE Funded(s) /\ Goes(s, "price")
      <4>1. pc = "price" BY <2>8, <3>2
      <4>2. order[s].pool \notin cooled BY <2>7, <3>2 DEF Funded
      <4> QED BY <1>1, <2>2, <2>3, <4>1, <4>2 DEF Warm, Idle
    <3>3. CASE Priced(s) /\ Goes(s, "send")
      <4>1. pc = "send" /\ order[s].pc = "price" BY <2>8, <3>3 DEF Priced
      <4>2. Token[order[s].pool] \notin cooled BY <2>7, <3>3 DEF Priced, TokenRests
      <4>3. order[s].pool \notin cooled BY <4>1 DEF Checks, Warm
      <4> QED BY <1>1, <2>2, <2>3, <4>1, <4>2, <4>3 DEF Warm, Idle
    <3> QED BY <1>6, <3>1, <3>2, <3>3
  <2>10. StillFresh'
    <3> SUFFICES ASSUME ~excused', source = "candidates" PROVE Fresh(open, order[s])
      BY <1>1, <2>2, <2>3 DEF StillFresh, Committed, Fresh, Idle
    <3>1. CASE Looked(s)
      <4>1. PICK r \in Reads :
              /\ IF Room(r.seen) /\ Fresh(r.seen, order[s]) THEN Goes(s, "fund") ELSE Ends(s, TRUE)
              /\ excused' = (excused \/ r.wrong)
        BY <3>1 DEF Looked
      <4>2. ~r.wrong /\ r.seen = open BY <4>1, ReadIsOpen DEF ChainOK
      <4> QED BY <2>7, <4>1, <4>2
    <3>2. CASE ~Looked(s)
      <4>1. Funded(s) \/ Priced(s) BY <1>6, <3>2
      <4>2. excused' = excused BY <4>1 DEF Funded, Priced, history
      <4>3. ~excused BY <4>2
      <4>4. order[s].pc \in {"fund", "price"} BY <4>1 DEF Funded, Priced
      <4> QED BY <4>3, <4>4 DEF Checks, StillFresh, Committed
    <3> QED BY <3>1, <3>2
  <2> QED BY <2>5, <2>6, <2>9, <2>10 DEF Checks
<1>7. CASE Lands(s)
  <2>1. order[s].pc = "send" /\ landed[s] = 0
    BY <1>7 DEF Lands, Checks, OneLanding, DeployStages
  <2>2. /\ \A d \in Callers \ {s} : order[d] = Idle /\ order'[d] = Idle
        /\ order'[s].pc = "confirm" /\ landed' = [landed EXCEPT ![s] = 1] /\ fired' = fired
    BY <1>1, <1>7, <2>1, OthersIdle DEF Lands, Orders
  <2>3. OneLanding' BY <1>1, <1>2, <2>2 DEF OneLanding, Idle, DeployStages
  <2>4. NotHalted' /\ Warm' /\ StillFresh'
    BY <1>1, <2>2 DEF NotHalted, Warm, StillFresh, Committed, Idle, DeployStages
  <2> QED BY <2>3, <2>4 DEF Checks
<1> QED BY <1>3, <1>4, <1>5, <1>6, <1>7
        DEF DeployStep, Looked, Funded, Priced, SendFails, Confirmed, Unconfirmed, history

(* A closer works, or begins to, while no session does. *)
LEMMA CloseChecks == ASSUME Base, Checks, NEW c \in Closers, CloseStep(c) PROVE Checks'
<1> USE DEF Base
<1>1. c \in Callers /\ Sessions \subseteq Callers \ {c} /\ landed \in [Sessions -> Nat]
      /\ order \in [Callers -> Orders]
  BY DeployGateAssumption DEF Callers, ChainOK, OrderOK
<1>2. UNCHANGED <<landed, fired>>
  BY <1>1 DEF CloseStep, AsksClose, Listed, Closed, CloseFails, CloseNext, SwapEnds, Ends, Goes, history
<1>3. \A s \in Sessions : order[s] = Idle
  <2>1. CASE AsksClose(c)
    BY <1>1, <2>1, DeployGateAssumption DEF AsksClose, Free, OrderOK, Staged, Callers
  <2>2. CASE ~AsksClose(c)
    <3>1. order[c].pc # "idle" BY <2>2 DEF CloseStep, Listed, Closed, CloseFails, SwapEnds
    <3> QED BY <1>1, <3>1, OthersIdle
  <2> QED BY <2>1, <2>2
<1>4. \A s \in Sessions : order'[s] = Idle
  BY <1>1, <1>3 DEF CloseStep, AsksClose, Listed, Closed, CloseFails, CloseNext, SwapEnds, Ends, Goes
<1>5. \A s \in Sessions : landed[s] = 0 \/ (landed[s] = 1 /\ s \in fired)
  BY <1>3 DEF Checks, OneLanding, Idle
<1> QED BY <1>2, <1>4, <1>5, IdleChecks DEF Idle

LEMMA SmartChecks == ASSUME Base, Checks, SmartStep PROVE Checks'
<1> USE DEF Base
<1>1. UNCHANGED <<orders, landed, cooled, failures, source>>
  BY DEF SmartStep, ScreeningStarts, WalletsRead, SmartNext, Detailed, SmartPriced, SmartLands,
         SmartSendFails, SmartConfirmed, SmartUnconfirmed, Saves, history
<1>2. NotHalted' /\ Warm' /\ OneLanding'
  BY <1>1 DEF orders, Checks, NotHalted, Warm, OneLanding, Halted
<1>3. source = "smart_wallets"
  BY SmartSource DEF SmartStep, ScreeningStarts, WalletsRead, SmartNext, Detailed, SmartPriced, SmartLands,
         SmartSendFails, SmartConfirmed, SmartUnconfirmed, Saves
<1>4. StillFresh' BY <1>1, <1>3 DEF StillFresh
<1> QED BY <1>2, <1>4 DEF Checks

LEMMA OutsideChecks ==
  ASSUME Base, Checks, VetoAges \/ (\E l \in Leads : LeadOpens(l)) \/ ResetHalt \/ CooldownEnds
  PROVE  Checks'
<1>1. UNCHANGED <<orders, landed, open, source, excused>> /\ cooled' \subseteq cooled
  BY DEF VetoAges, LeadOpens, ResetHalt, CooldownEnds, history
<1>2. failures' = failures \/ ~Halted'
  BY DeployGateAssumption DEF VetoAges, LeadOpens, ResetHalt, CooldownEnds, Halted
<1>3. NotHalted' BY <1>1, <1>2 DEF orders, Checks, NotHalted, Halted
<1>4. Warm' BY <1>1 DEF orders, Checks, Warm
<1>5. StillFresh' BY <1>1 DEF orders, Checks, StillFresh, Committed, Fresh, PoolsOf
<1>6. OneLanding' BY <1>1 DEF orders, Checks, OneLanding
<1> QED BY <1>3, <1>4, <1>5, <1>6 DEF Checks

LEMMA RestartChecks == ASSUME Restart PROVE Checks'
<1>1. \A s \in Sessions : order'[s] = Idle /\ landed'[s] = 0 BY DEF Restart, Callers
<1> QED BY <1>1, IdleChecks DEF Idle

LEMMA ChecksInit == Init => Checks
BY DEF Init, Checks, NotHalted, Warm, StillFresh, OneLanding, Committed, Idle, Callers, DeployStages

LEMMA StutterChecks == ASSUME Checks, UNCHANGED vars PROVE Checks'
BY DEF vars, orders, history, Checks, NotHalted, Halted, Warm, StillFresh, OneLanding, Committed,
       Fresh, PoolsOf

LEMMA ChecksNext == ASSUME Base, Checks, [Next]_vars PROVE Checks'
BY DeployChecks, CloseChecks, SmartChecks, OutsideChecks, RestartChecks, StutterChecks DEF Next

-----------------------------------------------------------------------------
(* What is at stake. *)

Exposure == RoomIsKept /\ BookLagsBehind

LEMMA OpenIsCounted == ASSUME Base PROVE Cardinality(open) \in Nat /\ Cardinality(book) \in Nat
BY FS_CardinalityType DEF Base, ChainOK

LEMMA RoomStays ==
  ASSUME RoomIsKept, Cardinality(open) \in Nat, Cardinality(open') \in Nat,
         Cardinality(open') <= Cardinality(open),
         SessionCommitted' => SessionCommitted, SmartCommitted' => SmartCommitted,
         source' = source, ~excused' => ~excused
  PROVE  RoomIsKept'
BY DeployGateAssumption DEF RoomIsKept, One

LEMMA DeployExposure == ASSUME Base, Base', Exposure, NEW s \in Sessions, DeployStep(s) PROVE Exposure'
<1> USE DEF Exposure
<1>1. s \in Callers /\ Sessions \subseteq Callers /\ order \in [Callers -> Orders]
      /\ Cardinality(open) \in Nat /\ Cardinality(open') \in Nat /\ excused \in BOOLEAN
  <2>1. Cardinality(open) \in Nat BY OpenIsCounted
  <2>2. IsFiniteSet(open') BY DEF Base, ChainOK
  <2>3. Cardinality(open') \in Nat BY <2>2, FS_CardinalityType
  <2> QED BY <2>1, <2>3 DEF Callers, Base, ChainOK, OrderOK
<1>2. CASE SessionStarts(s)
  <2>1. BookLagsBehind' BY <1>2 DEF SessionStarts, BookLagsBehind, Landing, screening
  <2>2. RoomIsKept' BY <1>1, <1>2, RoomStays
      DEF SessionStarts, SessionCommitted, SmartCommitted, Committed, screening
  <2> QED BY <2>1, <2>2
<1>3. CASE Asks(s)
  <2>1. \A t \in Sessions : order[t] = Idle
    BY <1>1, <1>3, DeployGateAssumption DEF Asks, Free, Base, OrderOK, Staged, Callers
  <2>2. \A t \in Sessions : order'[t].left = {} /\ order'[t].pc \in {"idle", "look"}
    BY <1>1, <1>3, <2>1 DEF Asks, Passed, Idle
  <2>3. BookLagsBehind'
    BY <1>3, <2>1, <2>2 DEF Asks, BookLagsBehind, Landing, screening, history, Idle
  <2>4. ~SessionCommitted' BY <2>2 DEF SessionCommitted, Committed
  <2>5. RoomIsKept'
    BY <1>1, <1>3, <2>4, RoomStays DEF Asks, SmartCommitted, screening, history
  <2> QED BY <2>3, <2>5
<1>4. CASE Looked(s)
  <2>1. PICK r \in Reads :
          /\ IF Room(r.seen) /\ Fresh(r.seen, order[s]) THEN Goes(s, "fund") ELSE Ends(s, TRUE)
          /\ excused' = (excused \/ r.wrong)
          /\ book' = IF r.wrong THEN book ELSE open
    BY <1>4 DEF Looked
  <2>2. order[s].pc = "look" /\ order[s].left = {}
    BY <1>1, <1>4 DEF Looked, Base, OrderOK, Staged, DeployStages
  <2>3. r.wrong \in BOOLEAN /\ (~r.wrong => r.seen = open) BY ReadIsOpen DEF Base, ChainOK
  <2>4. \A t \in Sessions : order[t].left = {} /\ order'[t].left = {}
    <3>1. \A t \in Sessions \ {s} : order[t] = Idle /\ order'[t] = Idle
      BY <1>1, <2>1, <2>2, OthersIdle, EndsIdle, GoesOnly
    <3>2. order'[s] = Idle \/ order'[s].left = order[s].left
      BY <1>1, <2>1, <2>2, EndsIdle, GoesOnly
    <3> QED BY <2>2, <3>1, <3>2 DEF Idle
  <2>5. BookLagsBehind'
    BY <1>1, <1>4, <2>1, <2>3, <2>4 DEF Looked, BookLagsBehind, Landing, screening
  <2>6. RoomIsKept'
    <3>1. CASE Goes(s, "fund") /\ Room(r.seen)
      <4> SUFFICES ASSUME ~excused' PROVE RoomIsKept' BY DEF RoomIsKept
      <4>1. Cardinality(open) < MaxPositions BY <2>1, <2>3, <3>1 DEF Room
      <4>2. SmartCommitted' => source' = "smart_wallets"
        BY <1>4, SmartSource DEF Looked, SmartCommitted, screening
      <4> QED BY <1>1, <1>4, <4>1, <4>2, DeployGateAssumption DEF RoomIsKept, One, Looked
    <3>2. CASE Ends(s, TRUE)
      <4>1. ~SessionCommitted'
        <5>1. \A t \in Sessions : order'[t] = Idle BY <1>1, <2>2, <3>2, EndsIdle
        <5> QED BY <5>1 DEF SessionCommitted, Committed, Idle
      <4>2. ~excused' => ~excused BY <1>1, <2>1, <2>3
      <4> QED BY <1>1, <1>4, <4>1, <4>2, RoomStays DEF Looked, SmartCommitted, screening
    <3> QED BY <2>1, <3>1, <3>2
  <2> QED BY <2>5, <2>6
<1>5. CASE Lands(s)
  <2> DEFINE n == New(order[s].pool)
  <2>1. order[s].pc = "send" /\ open' = open \cup {n} BY <1>5 DEF Lands
  <2>2. order'[s].pc = "confirm" /\ order'[s].left = {n}
    BY <1>1, <1>5 DEF Lands, Orders
  <2>3. \A t \in Sessions \ {s} : order'[t] = Idle /\ order[t] = Idle
    BY <1>1, <1>5, <2>1, OthersIdle DEF Lands
  <2>4. order[s].left = {}
    BY <1>1, <2>1 DEF Base, OrderOK, Staged, DeployStages
  <2> HIDE DEF n
  <2>5. BookLagsBehind'
    <3>1. Landing = {}
      <4>1. \A t \in Sessions : order[t].left = {} BY <2>3, <2>4 DEF Idle
      <4> QED BY <4>1 DEF Landing
    <3>2. n \in Landing' BY <2>2 DEF Landing
    <3> QED BY <1>5, <2>1, <3>1, <3>2 DEF Lands, BookLagsBehind, screening
  <2>6. Cardinality(open') <= Cardinality(open) + 1
    BY <1>1, <2>1, FS_AddElement DEF Base, ChainOK
  <2>7. SessionCommitted /\ ~SessionCommitted'
    BY <2>1, <2>2, <2>3 DEF SessionCommitted, Committed, Idle
  <2>8. RoomIsKept'
    BY <1>1, <1>5, <2>6, <2>7, DeployGateAssumption DEF Lands, RoomIsKept, One, SmartCommitted, screening
  <2> QED BY <2>5, <2>8
<1>6. CASE Funded(s) \/ Priced(s) \/ SendFails(s) \/ Confirmed(s) \/ Unconfirmed(s)
  <2>1. order[s].pc \in {"fund", "price", "send", "confirm"}
    BY <1>6 DEF Funded, Priced, SendFails, Confirmed, Unconfirmed
  <2>2. \/ \E b \in BOOLEAN : Ends(s, b)
        \/ order[s].pc \in {"fund", "price"} /\ \E pc \in {"price", "send"} : Goes(s, pc)
    BY <1>6 DEF Funded, Priced, SendFails, Confirmed, Unconfirmed
  <2>3. UNCHANGED <<open, source, smart>>
    BY <1>6 DEF Funded, Priced, SendFails, Confirmed, Unconfirmed, screening
  <2>4. \A t \in Sessions \ {s} : order[t] = Idle /\ order'[t] = Idle
    BY <1>1, <2>1, <2>2, OthersIdle, EndsIdle, GoesOnly
  <2>5. ~excused' /\ source = "smart_wallets" => ~excused /\ book \cup order[s].left \subseteq book' \cup order'[s].left
    <3>1. CASE Funded(s) \/ Priced(s)
      <4>1. order[s].left = {}
        BY <1>1, <3>1 DEF Funded, Priced, Base, OrderOK, Staged, DeployStages
      <4> QED BY <3>1, <4>1 DEF Funded, Priced, history
    <3>2. CASE SendFails(s)
      <4>1. order[s].left = {}
        BY <1>1, <3>2 DEF SendFails, Base, OrderOK, Staged, DeployStages
      <4> QED BY <3>2, <4>1 DEF SendFails, history
    <3>3. CASE Confirmed(s) BY <3>3 DEF Confirmed, history
    <3>4. CASE Unconfirmed(s) BY <1>1, <3>4 DEF Unconfirmed
    <3> QED BY <1>6, <3>1, <3>2, <3>3, <3>4
  <2>6. BookLagsBehind'
    BY <2>3, <2>4, <2>5 DEF BookLagsBehind, Landing, Idle
  <2>7. SessionCommitted' => SessionCommitted
    BY <1>1, <2>1, <2>2, <2>4, EndsIdle DEF SessionCommitted, Committed, Idle
  <2>8. ~excused' => ~excused
    BY <1>1, <1>6 DEF Funded, Priced, SendFails, Confirmed, Unconfirmed, history
  <2>9. RoomIsKept' BY <1>1, <2>3, <2>7, <2>8, RoomStays DEF SmartCommitted
  <2> QED BY <2>6, <2>9
<1> QED BY <1>2, <1>3, <1>4, <1>5, <1>6 DEF DeployStep

LEMMA CloseExposure == ASSUME Base, Base', Exposure, NEW c \in Closers, CloseStep(c) PROVE Exposure'
<1> USE DEF Exposure
<1>1. c \in Callers /\ Sessions \subseteq Callers \ {c} /\ order \in [Callers -> Orders]
      /\ Cardinality(open) \in Nat /\ IsFiniteSet(open)
  BY DeployGateAssumption, OpenIsCounted DEF Callers, Base, ChainOK, OrderOK
<1>2. \A s \in Sessions : order[s] = Idle
  <2>1. CASE AsksClose(c)
    BY <1>1, <2>1, DeployGateAssumption DEF AsksClose, Free, Base, OrderOK, Staged, Callers
  <2>2. CASE ~AsksClose(c)
    <3>1. order[c].pc # "idle" BY <2>2 DEF CloseStep, Listed, Closed, CloseFails, SwapEnds
    <3> QED BY <1>1, <3>1, OthersIdle
  <2> QED BY <2>1, <2>2
<1>3. \A s \in Sessions : order'[s] = order[s]
  BY <1>1, <1>2 DEF CloseStep, AsksClose, Listed, Closed, CloseFails, CloseNext, SwapEnds, Ends, Goes
<1>4. UNCHANGED <<source, smart, excused>>
  BY DEF CloseStep, AsksClose, Listed, Closed, CloseFails, SwapEnds, screening, history
<1>5. \/ open' = open /\ book' \in {book, open}
      \/ \E p \in open : open' = open \ {p} /\ book' = book \ {p}
  BY DEF CloseStep, AsksClose, Listed, Closed, CloseFails, SwapEnds
<1>6. BookLagsBehind' BY <1>3, <1>4, <1>5 DEF BookLagsBehind, Landing
<1>7. Cardinality(open') \in Nat /\ Cardinality(open') <= Cardinality(open)
  <2>1. CASE open' = open BY <1>1, <2>1
  <2>2. CASE \E p \in open : open' = open \ {p}
    <3>1. PICK p \in open : open' = open \ {p} BY <2>2
    <3>2. IsFiniteSet(open') /\ Cardinality(open') = Cardinality(open) - 1
      BY <1>1, <3>1, FS_RemoveElement
    <3>3. Cardinality(open') \in Nat BY <3>2, FS_CardinalityType
    <3> QED BY <1>1, <3>2, <3>3
  <2> QED BY <1>5, <2>1, <2>2
<1>8. RoomIsKept'
  BY <1>1, <1>3, <1>4, <1>7, RoomStays DEF SessionCommitted, Committed, SmartCommitted
<1> QED BY <1>6, <1>8

(* The screening finds room by the book, which lacks at most the position  *)
(* of a session that has just landed.                                      *)
LEMMA RoomByBook ==
  ASSUME Base, Exposure, ~excused, smart.pc = "next", ~Full
  PROVE  Cardinality(open) + One(SessionCommitted) < MaxPositions + 1
<1>1. Cardinality(open) \in Nat /\ Cardinality(book) \in Nat BY OpenIsCounted
<1>2. Cardinality(smart.pools) \in Nat BY FS_CardinalityType DEF Base, SmartOK
<1>3. Cardinality(book) < MaxPositions BY <1>1, <1>2, DeployGateAssumption DEF Full
<1>4. open \subseteq book \cup Landing
  BY SmartSource DEF Exposure, BookLagsBehind, Base, SmartOK, SmartStaged
<1>5. Sessions \subseteq Callers BY DEF Callers
<1>6. CASE \E s \in Sessions : order[s].pc = "confirm"
  <2>1. PICK s \in Sessions : order[s].pc = "confirm" BY <1>6
  <2>2. PICK p : order[s].left = {p} BY <1>5, <2>1 DEF Base, OrderOK, Staged
  <2>3. \A t \in Sessions \ {s} : order[t] = Idle BY <1>5, <2>1, OthersIdle
  <2>4. ~SessionCommitted BY <2>1, <2>3 DEF SessionCommitted, Committed, Idle
  <2>5. Landing = {p} BY <2>2, <2>3 DEF Landing, Idle
  <2>6. IsFiniteSet(book \cup {p}) /\ Cardinality(book \cup {p}) <= Cardinality(book) + 1
    <3>1. IsFiniteSet(book) BY DEF Base, ChainOK
    <3> QED BY <1>1, <3>1, FS_AddElement
  <2>7. Cardinality(open) <= Cardinality(book \cup {p}) BY <1>4, <2>5, <2>6, FS_Subset
  <2>8. Cardinality(book \cup {p}) \in Nat BY <2>6, FS_CardinalityType
  <2> QED BY <1>1, <1>3, <2>4, <2>6, <2>7, <2>8, DeployGateAssumption DEF One
<1>7. CASE \A s \in Sessions : order[s].pc # "confirm"
  <2>1. \A s \in Sessions : order[s].left = {}
    <3> SUFFICES ASSUME NEW s \in Sessions PROVE order[s].left = {} OBVIOUS
    <3>1. Staged(s) /\ order[s] \in Orders /\ s \notin Closers
      BY <1>5, DeployGateAssumption DEF Base, OrderOK
    <3> QED BY <1>7, <3>1 DEF Staged, Orders, Idle
  <2>2. Landing = {} BY <2>1 DEF Landing
  <2>3. Cardinality(open) <= Cardinality(book) BY <1>4, <2>2, FS_Subset DEF Base, ChainOK
  <2> QED BY <1>1, <1>3, <2>3, DeployGateAssumption DEF One
<1> QED BY <1>6, <1>7

LEMMA SmartExposure == ASSUME Base, Base', Exposure, SmartStep PROVE Exposure'
<1> USE DEF Exposure
<1>1. /\ smart \in SmartRuns /\ excused \in BOOLEAN /\ IsFiniteSet(open)
      /\ Cardinality(open) \in Nat /\ Cardinality(open') \in Nat
  <2>1. Cardinality(open) \in Nat BY OpenIsCounted
  <2>2. IsFiniteSet(open') BY DEF Base, ChainOK
  <2>3. Cardinality(open') \in Nat BY <2>2, FS_CardinalityType
  <2> QED BY <2>1, <2>3 DEF Base, ChainOK, SmartOK
<1>2. UNCHANGED <<orders, source>> /\ Landing' = Landing /\ SessionCommitted' = SessionCommitted
  <2>1. UNCHANGED <<orders, source>>
    BY DEF SmartStep, ScreeningStarts, WalletsRead, SmartNext, Detailed, SmartPriced, SmartLands,
           SmartSendFails, SmartConfirmed, SmartUnconfirmed, Saves
  <2> QED BY <2>1 DEF orders, Landing, SessionCommitted, Committed
(* A step that opens nothing, commits to nothing new and drops nothing that has landed. *)
<1>3. ASSUME open' = open, SmartCommitted' => SmartCommitted,
             ~excused' => ~excused, ~excused' /\ open \subseteq book \cup smart.made \cup Landing
                               => open \subseteq book' \cup smart'.made \cup Landing
      PROVE  Exposure'
  <2>1. BookLagsBehind' BY <1>2, <1>3 DEF BookLagsBehind
  <2>2. RoomIsKept' BY <1>1, <1>2, <1>3, RoomStays
  <2> QED BY <2>1, <2>2
<1>4. CASE ScreeningStarts \/ WalletsRead \/ Saves
  <2>1. smart.pc \notin {"detail", "price", "send", "confirm"} /\ open' = open
    <3>1. CASE ScreeningStarts BY <3>1 DEF ScreeningStarts, SmartIdle
    <3>2. CASE WalletsRead BY <3>2 DEF WalletsRead
    <3>3. CASE Saves BY <3>3 DEF Saves
    <3> QED BY <1>4, <3>1, <3>2, <3>3
  <2>2. smart.made = {} BY <2>1 DEF Base, SmartOK, SmartStaged
  <2>3. ~SmartCommitted'
    <3>1. CASE ScreeningStarts BY <3>1 DEF ScreeningStarts, SmartCommitted, SmartIdle
    <3>2. CASE WalletsRead
      <4>1. smart' = SmartIdle \/ smart'.pc = "next" BY <1>1, <3>2 DEF WalletsRead, SmartRuns
      <4> QED BY <4>1 DEF SmartCommitted, SmartIdle
    <3>3. CASE Saves BY <3>3 DEF Saves, SmartCommitted, SmartIdle
    <3> QED BY <1>4, <3>1, <3>2, <3>3
  <2>4. book' \in {book, open} BY <1>4 DEF ScreeningStarts, WalletsRead, Saves
  <2>5. ~excused' => ~excused
    <3>1. CASE ScreeningStarts
      <4>1. PICK r \in Reads : excused' = (excused \/ r.wrong) BY <3>1 DEF ScreeningStarts
      <4> QED BY <1>1, <4>1
    <3>2. CASE WalletsRead BY <1>1, <3>2, SmartSource DEF WalletsRead, BaselineKnown
    <3>3. CASE Saves BY <3>3 DEF Saves, history
    <3> QED BY <1>4, <3>1, <3>2, <3>3
  <2> QED BY <1>3, <2>1, <2>2, <2>3, <2>4, <2>5
<1>5. CASE SmartNext
  <2>1. smart.pc = "next" /\ ~Full /\ UNCHANGED <<open, book, excused>> BY <1>5 DEF SmartNext, history
  <2>2. smart'.made = {} /\ smart.made = {}
    BY <1>1, <1>5 DEF SmartNext, Resolves, SmartRuns, Base, SmartOK, SmartStaged
  <2>3. BookLagsBehind' BY <1>2, <2>1, <2>2 DEF BookLagsBehind
  <2>4. RoomIsKept'
    <3> SUFFICES ASSUME ~excused' PROVE RoomIsKept' BY DEF RoomIsKept
    <3>1. ~excused BY <2>1
    <3>2. Cardinality(open) + One(SessionCommitted) < MaxPositions + 1 BY <2>1, <3>1, RoomByBook
    <3>3. source = "smart_wallets" BY <2>1, SmartSource
    <3> QED BY <1>1, <1>2, <2>1, <3>2, <3>3, DeployGateAssumption DEF RoomIsKept, One
  <2> QED BY <2>3, <2>4
<1>6. CASE Detailed \/ SmartPriced \/ SmartSendFails
  <2>1. SmartCommitted /\ smart.made = {}
    BY <1>6 DEF Detailed, SmartPriced, SmartSendFails, SmartCommitted, Base, SmartOK, SmartStaged
  <2>2. UNCHANGED <<open, book, excused>>
    BY <1>6 DEF Detailed, SmartPriced, SmartSendFails, history
  <2> QED BY <1>3, <2>1, <2>2
<1>7. CASE SmartLands
  <2> DEFINE n == New(LeadPool[smart.lead])
  <2>1. smart.pc = "send" /\ open' = open \cup {n} /\ UNCHANGED <<book, excused>>
    BY <1>7 DEF SmartLands
  <2>2. smart'.pc = "confirm" /\ smart'.made = {n} BY <1>1, <1>7 DEF SmartLands, SmartRuns
  <2>3. smart.made = {} BY <2>1 DEF Base, SmartOK, SmartStaged
  <2> HIDE DEF n
  <2>4. BookLagsBehind' BY <1>2, <2>1, <2>2, <2>3 DEF BookLagsBehind
  <2>5. Cardinality(open') <= Cardinality(open) + 1
    <3>1. Cardinality(open \cup {n}) = IF n \in open THEN Cardinality(open) ELSE Cardinality(open) + 1
      BY <1>1, FS_AddElement
    <3> QED BY <1>1, <2>1, <3>1
  <2>6. SmartCommitted /\ ~SmartCommitted' BY <2>1, <2>2 DEF SmartCommitted
  <2>7. RoomIsKept'
    BY <1>1, <1>2, <2>1, <2>5, <2>6, DeployGateAssumption DEF RoomIsKept, One
  <2> QED BY <2>4, <2>7
<1>8. CASE SmartConfirmed
  <2>1. open' = open /\ book' = book \cup smart.made /\ excused' = excused
    BY <1>8 DEF SmartConfirmed, history
  <2>2. ~SmartCommitted' BY <1>1, <1>8 DEF SmartConfirmed, SmartCommitted, SmartRuns
  <2> QED BY <1>3, <2>1, <2>2
<1>9. CASE SmartUnconfirmed
  BY <1>9 DEF SmartUnconfirmed, RoomIsKept, BookLagsBehind
<1> QED BY <1>4, <1>5, <1>6, <1>7, <1>8, <1>9 DEF SmartStep

LEMMA OutsideExposure ==
  ASSUME Exposure, \/ VetoAges \/ (\E l \in Leads : LeadOpens(l)) \/ ResetHalt \/ CooldownEnds
                   \/ UNCHANGED vars
  PROVE  Exposure'
<1>1. UNCHANGED <<open, book, order, source, smart, excused>>
  BY DEF VetoAges, LeadOpens, ResetHalt, CooldownEnds, vars, orders, screening, history
<1> QED BY <1>1 DEF Exposure, RoomIsKept, BookLagsBehind, Landing, SessionCommitted, Committed,
                    SmartCommitted

LEMMA RestartExposure == ASSUME Base, Exposure, Restart PROVE Exposure'
<1>1. Cardinality(open) \in Nat /\ open' = open /\ excused \in BOOLEAN
  BY OpenIsCounted DEF Restart, Base, ChainOK
<1>2. ~SessionCommitted' /\ ~SmartCommitted'
  BY DEF Restart, Callers, SessionCommitted, Committed, SmartCommitted, Idle, SmartIdle
<1>3. ~excused' => ~excused /\ source # "smart_wallets" BY <1>1 DEF Restart
<1>4. RoomIsKept' BY <1>1, <1>2, <1>3, RoomStays DEF Exposure, Restart
<1>5. BookLagsBehind' BY <1>3 DEF BookLagsBehind, Restart
<1> QED BY <1>4, <1>5 DEF Exposure

LEMMA ExposureInit == Init => Exposure
BY FS_EmptySet, DeployGateAssumption
   DEF Init, Exposure, RoomIsKept, BookLagsBehind, One, SessionCommitted, Committed, SmartCommitted,
       Idle, SmartIdle, Callers

LEMMA ExposureNext == ASSUME Base, Base', Exposure, [Next]_vars PROVE Exposure'
BY DeployExposure, CloseExposure, SmartExposure, OutsideExposure, RestartExposure DEF Next

-----------------------------------------------------------------------------
(* The leads that the screening follows. *)

Followed == Recorded /\ BaselineKnown

LEMMA FollowedStays ==
  ASSUME Followed, UNCHANGED <<followed, ledger, smart, baseline>>, ~excused' => ~excused
  PROVE  Followed'
BY DEF Followed, Recorded, BaselineKnown

LEMMA SessionsFollowNothing ==
  ASSUME Base, Followed, \/ \E s \in Sessions : DeployStep(s)
                         \/ \E c \in Closers : CloseStep(c)
                         \/ \E l \in Leads : LeadOpens(l)
                         \/ ResetHalt \/ CooldownEnds \/ UNCHANGED vars
  PROVE  Followed'
<1>1. excused \in BOOLEAN BY DEF Base, ChainOK
<1>2. UNCHANGED <<followed, ledger, smart, baseline>>
  BY DEF DeployStep, SessionStarts, Asks, Looked, Funded, Priced, Lands, SendFails, Confirmed,
         Unconfirmed, CloseStep, AsksClose, Listed, Closed, CloseFails, SwapEnds, LeadOpens,
         ResetHalt, CooldownEnds, vars, screening, history
<1>3. ~excused' => ~excused
  <2>1. CASE \E s \in Sessions : Looked(s)
    <3>1. PICK r \in Reads : excused' = (excused \/ r.wrong) BY <2>1 DEF Looked
    <3> QED BY <1>1, <3>1
  <2>2. CASE \E s \in Sessions : Unconfirmed(s) BY <1>1, <2>2 DEF Unconfirmed
  <2>3. CASE ~(\E s \in Sessions : Looked(s) \/ Unconfirmed(s))
    BY <2>3 DEF DeployStep, SessionStarts, Asks, Funded, Priced, Lands, SendFails, Confirmed,
                CloseStep, AsksClose, Listed, Closed, CloseFails, SwapEnds, LeadOpens,
                ResetHalt, CooldownEnds, vars, history
  <2> QED BY <2>1, <2>2, <2>3
<1> QED BY <1>2, <1>3, FollowedStays

(* A run that goes on with the same snapshot, and forgets nothing that it  *)
(* followed.                                                               *)
LEMMA RunGoesOn ==
  ASSUME Followed, UNCHANGED <<followed, ledger, baseline>>, ~excused' => ~excused,
         ledger.begun \/ smart'.pc \in {"idle", "wallets"},
         ~excused' => smart.saved \subseteq smart'.saved,
         ~excused' /\ smart.pc = "confirm" =>
            smart.lead \in smart'.saved \/ (smart'.pc = "confirm" /\ smart'.lead = smart.lead)
  PROVE  Followed'
BY DEF Followed, Recorded, BaselineKnown

LEMMA ResolvesKeeps ==
  ASSUME smart \in SmartRuns, NEW l, NEW saved, NEW vetoed, Resolves(l, saved, vetoed)
  PROVE  smart'.pc = "next" /\ smart.saved \subseteq smart'.saved
<1>1. smart'.pc = "next" BY DEF Resolves, SmartRuns
<1>2. smart'.saved = smart.saved \cup saved BY DEF Resolves, SmartRuns
<1> QED BY <1>1, <1>2

LEMMA SmartFollows == ASSUME Base, Followed, SmartStep PROVE Followed'
<1>1. /\ smart \in SmartRuns /\ excused \in BOOLEAN /\ followed \in [Leads -> 0 .. 2]
      /\ ledger \in [begun : BOOLEAN, known : SUBSET Leads, vetoed : SUBSET Leads]
      /\ smart.pc \in {"idle", "wallets"} => smart.saved = {}
  BY DEF Base, ChainOK, SmartOK, SmartStaged, SmartIdle
<1>2. smart.pc \notin {"idle", "wallets"} => ledger.begun
  BY DEF Followed, BaselineKnown
<1>3. CASE ScreeningStarts
  <2>1. PICK r \in Reads : excused' = (excused \/ r.wrong) BY <1>3 DEF ScreeningStarts
  <2>2. ~excused' => ~excused BY <1>1, <2>1
  <2>3. smart.pc = "idle" /\ smart'.pc \in {"idle", "wallets"}
    BY <1>3 DEF ScreeningStarts, SmartIdle
  <2> QED BY <1>1, <1>3, <2>2, <2>3, RunGoesOn DEF ScreeningStarts
<1>4. CASE WalletsRead
  <2>1. smart.pc = "wallets" /\ followed' = followed BY <1>4 DEF WalletsRead
  <2>2. CASE ledger.begun
    <3>1. UNCHANGED <<ledger, baseline, excused>> BY <1>4, <2>2 DEF WalletsRead
    <3> QED BY <1>1, <2>1, <2>2, <3>1, RunGoesOn
  <2>3. CASE ~ledger.begun
    <3>1. PICK seen \in SUBSET leads :
            /\ smart' = SmartIdle /\ baseline' = leads /\ excused' = (excused \/ seen # leads)
            /\ ledger' = [begun |-> TRUE, known |-> seen, vetoed |-> {}]
      BY <1>4, <2>3 DEF WalletsRead
    <3>2. ~excused => \A l \in Leads : followed[l] = 0
      BY <1>1, <2>1, <2>3 DEF Followed, Recorded, BaselineKnown
    <3>3. ~excused' => ~excused /\ seen = leads BY <1>1, <3>1
    <3>4. leads \subseteq Leads BY DEF Base, ChainOK
    <3>5. Recorded' BY <2>1, <3>2, <3>3 DEF Recorded
    <3>6. BaselineKnown' BY <2>1, <3>1, <3>2, <3>3, <3>4 DEF BaselineKnown
    <3> QED BY <3>5, <3>6 DEF Followed
  <2> QED BY <2>2, <2>3
<1>5. CASE SmartNext
  <2>1. smart.pc = "next" /\ smart.saved \subseteq smart'.saved
    <3>1. PICK l \in smart.todo :
            Resolves(l, {l}, {}) \/ smart' = [smart EXCEPT !.pc = "detail", !.lead = l]
      BY <1>5 DEF SmartNext
    <3>2. CASE smart' = [smart EXCEPT !.pc = "detail", !.lead = l] BY <1>1, <1>5, <3>2 DEF SmartNext, SmartRuns
    <3> QED BY <1>1, <1>5, <3>1, <3>2, ResolvesKeeps DEF SmartNext
  <2> QED BY <1>2, <1>5, <2>1, RunGoesOn DEF SmartNext, history
<1>6. CASE Detailed \/ SmartPriced \/ SmartSendFails
  <2>1. smart.pc \in {"detail", "price", "send"} /\ smart.saved \subseteq smart'.saved
    <3>1. \/ \E vetoed \in {{}, {smart.lead}} : Resolves(smart.lead, {}, vetoed)
          \/ \E pc \in {"price", "send"} : Passes(pc)
      BY <1>6 DEF Detailed, SmartPriced, SmartSendFails
    <3>2. ASSUME NEW pc \in {"price", "send"}, Passes(pc) PROVE smart'.saved = smart.saved
      BY <1>1, <3>2 DEF Passes, SmartRuns
    <3> QED BY <1>1, <1>6, <3>1, <3>2, ResolvesKeeps DEF Detailed, SmartPriced, SmartSendFails
  <2> QED BY <1>2, <1>6, <2>1, RunGoesOn DEF Detailed, SmartPriced, SmartSendFails, history
<1>7. CASE SmartLands
  <2> DEFINE l == smart.lead
  <2>1. smart.pc = "send" /\ UNCHANGED <<ledger, baseline, excused>> BY <1>7 DEF SmartLands
  <2>2. l \in Leads /\ l \notin ledger.known \cup smart.saved
    BY <1>1, <2>1 DEF Base, SmartOK, SmartStaged, LeadsApart, SmartRuns
  <2>3. smart'.pc = "confirm" /\ smart'.lead = l /\ smart'.saved = smart.saved
    BY <1>1, <1>7 DEF SmartLands, SmartRuns
  <2>4. ~excused => followed[l] = 0
    BY <1>1, <2>1, <2>2 DEF Followed, Recorded
  <2>5. ~excused => followed' = [followed EXCEPT ![l] = 1]
    <3> DEFINE k == IF followed[l] > 1 THEN followed[l] ELSE followed[l] + 1
    <3>1. followed' = [followed EXCEPT ![l] = k] BY <1>7 DEF SmartLands
    <3>2. ~excused => k = 1 BY <2>4
    <3> HIDE DEF k
    <3> QED BY <3>1, <3>2
  <2> HIDE DEF l
  <2>6. Recorded' BY <1>1, <2>1, <2>2, <2>3, <2>5 DEF Followed, Recorded
  <2>7. BaselineKnown'
    BY <1>1, <1>2, <2>1, <2>2, <2>5 DEF Followed, BaselineKnown
  <2> QED BY <2>6, <2>7 DEF Followed
<1>8. CASE SmartConfirmed
  <2>1. smart.pc = "confirm" /\ smart.lead \in smart'.saved /\ smart.saved \subseteq smart'.saved
    BY <1>1, <1>8 DEF SmartConfirmed, Kept, SmartRuns
  <2> QED BY <1>2, <1>8, <2>1, RunGoesOn DEF SmartConfirmed, history
<1>9. CASE SmartUnconfirmed
  BY <1>2, <1>9, RunGoesOn DEF SmartUnconfirmed
<1>10. CASE Saves
  <2>1. smart.pc = "next" /\ smart' = SmartIdle /\ UNCHANGED <<followed, baseline, excused>>
    BY <1>10 DEF Saves, history
  <2>2. ledger'.begun /\ ledger'.known = ledger.known \cup smart.saved
    BY <1>10 DEF Saves, Updated
  <2> QED BY <2>1, <2>2 DEF Followed, Recorded, BaselineKnown, SmartIdle
<1> QED BY <1>3, <1>4, <1>5, <1>6, <1>7, <1>8, <1>9, <1>10 DEF SmartStep

LEMMA VetoFollows == ASSUME Base, Followed, VetoAges PROVE Followed'
<1>1. PICK l \in ledger.vetoed : ledger' = [ledger EXCEPT !.vetoed = @ \ {l}] BY DEF VetoAges
<1>2. ledger'.begun = ledger.begun /\ ledger'.known = ledger.known BY <1>1 DEF Base, SmartOK
<1> QED BY <1>2 DEF VetoAges, history, Followed, Recorded, BaselineKnown

LEMMA RestartFollows == ASSUME Base, Followed, Restart PROVE Followed'
<1>1. excused \in BOOLEAN BY DEF Base, ChainOK
<1>2. ~excused' => ~excused /\ source # "smart_wallets" BY <1>1 DEF Restart
<1>3. ~excused' => smart = SmartIdle BY <1>2, SmartSource DEF Base, SmartOK, SmartStaged
<1> QED BY <1>2, <1>3, RunGoesOn DEF Restart, SmartIdle

LEMMA FollowedInit == Init => Followed
BY DEF Init, Followed, Recorded, BaselineKnown, SmartIdle

LEMMA FollowedNext == ASSUME Base, Followed, [Next]_vars PROVE Followed'
BY SessionsFollowNothing, SmartFollows, VetoFollows, RestartFollows DEF Next

-----------------------------------------------------------------------------
(* The theorems. *)

LEMMA InvInit == Init => Inv
BY BaseInit, ChecksInit, ExposureInit, FollowedInit DEF Inv, Checks, Exposure, Followed

LEMMA InvNext == Inv /\ [Next]_vars => Inv'
<1> SUFFICES ASSUME Inv, [Next]_vars PROVE Inv' OBVIOUS
<1>1. Base /\ Checks /\ Exposure /\ Followed BY DEF Inv, Checks, Exposure, Followed
<1>2. Base' BY <1>1, BaseNext
<1>3. Checks' BY <1>1, ChecksNext
<1>4. Exposure' BY <1>1, <1>2, ExposureNext
<1>5. Followed' BY <1>1, FollowedNext
<1> QED BY <1>2, <1>3, <1>4, <1>5 DEF Inv, Checks, Exposure, Followed

LEMMA InvHolds == Spec => []Inv
BY InvInit, InvNext, PTL DEF Spec

(* The limit of positions holds for what sessions deploy, and is exceeded  *)
(* by one place at most when the smart-wallet screening deploys beside     *)
(* them; and a session opens one position at most.                         *)
THEOREM ExposureBounded == Spec => []ExposureIsBounded
<1>1. Inv => ExposureIsBounded
  <2> SUFFICES ASSUME Inv PROVE ExposureIsBounded OBVIOUS
  <2>1. TypeOK BY BaseTypeOK DEF Inv
  <2>2. WithinLimit
    <3>1. Cardinality(open) \in Nat BY OpenIsCounted DEF Inv
    <3> QED BY <3>1, DeployGateAssumption DEF Inv, RoomIsKept, One, WithinLimit
  <2>3. OncePerSession BY DEF Inv, OneLanding, OncePerSession
  <2> QED BY <2>1, <2>2, <2>3 DEF ExposureIsBounded
<1> QED BY <1>1, InvHolds, PTL

(* A position of a watched wallet is followed once at most, and never if   *)
(* it was there when the snapshot began.                                   *)
THEOREM LeadsFollowedOnce == Spec => []LeadsAreFollowedOnce
<1>1. Inv => LeadsAreFollowedOnce
  BY DEF Inv, Base, SmartOK, Recorded, BaselineKnown, LeadsAreFollowedOnce, FollowedOnce, BaselineStays
<1> QED BY <1>1, InvHolds, PTL

(* Only the landing of its own transaction counts as a session's deploy. *)
LEMMA DeployIsLanding ==
  ASSUME Inv, [Next]_vars, NEW s \in Sessions, Deploys(s) PROVE Lands(s)
<1>1. landed \in [Sessions -> Nat] BY DEF Inv, Base, ChainOK
<1>2. landed' # landed /\ ~(landed'[s] = 0) BY <1>1 DEF Deploys
<1>3. \E t \in Sessions : SessionStarts(t) \/ Lands(t)
  BY <1>1, <1>2
     DEF Next, DeployStep, Asks, Looked, Funded, Priced, SendFails, Confirmed, Unconfirmed,
         CloseStep, AsksClose, Listed, Closed, CloseFails, SwapEnds, SmartStep, ScreeningStarts,
         WalletsRead, SmartNext, Detailed, SmartPriced, SmartLands, SmartSendFails, SmartConfirmed,
         SmartUnconfirmed, Saves, VetoAges, LeadOpens, ResetHalt, CooldownEnds, Restart, vars, history
<1>4. PICK t \in Sessions : SessionStarts(t) \/ Lands(t) BY <1>3
<1>5. ~SessionStarts(t) BY <1>1, <1>2 DEF SessionStarts, Deploys
<1>6. t = s BY <1>1, <1>4, <1>5 DEF Lands, Deploys
<1> QED BY <1>4, <1>5, <1>6

(* What was checked before a deploy holds when it lands: its pool and the  *)
(* token it named are free, the circuit breaker does not hold, and neither *)
(* the pool nor the token is on cooldown.                                  *)
THEOREM DeploysHeed == Spec => DeploysHeedChecks
<1>1. ASSUME Inv, [Next]_vars, NEW s \in Sessions, Deploys(s)
      PROVE  /\ ~Halted /\ {order[s].pool, Token[order[s].pool]} \cap cooled = {}
             /\ ~excused /\ source = "candidates" => Fresh(open, order[s])
  <2>1. order[s].pc = "send" BY <1>1, DeployIsLanding DEF Lands
  <2> QED BY <1>1, <2>1 DEF Inv, NotHalted, Warm, StillFresh, Committed, DeployStages
<1>2. Inv /\ [Next]_vars =>
        [\A s \in Sessions : Deploys(s) /\ ~excused /\ source = "candidates"
           => \A p \in open : /\ p.pool # order[s].pool
                              /\ order[s].named => Token[p.pool] # Token[order[s].pool]]_vars
  BY <1>1 DEF Fresh, PoolsOf
<1>3. Inv /\ [Next]_vars => [\A s \in Sessions : Deploys(s) => ~Halted]_vars
  BY <1>1
<1>4. Inv /\ [Next]_vars =>
        [\A s \in Sessions : Deploys(s) => {order[s].pool, Token[order[s].pool]} \cap cooled = {}]_vars
  BY <1>1
<1>5. Spec => DeploysAreFresh BY <1>2, InvHolds, PTL DEF Spec, DeploysAreFresh
<1>6. Spec => HaltHolds BY <1>3, InvHolds, PTL DEF Spec, HaltHolds
<1>7. Spec => CooledRest BY <1>4, InvHolds, PTL DEF Spec, CooledRest
<1> QED BY <1>5, <1>6, <1>7 DEF DeploysHeedChecks
===============================================================================
