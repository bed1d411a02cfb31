------------------------ MODULE TelegramCommandsProofs ------------------------
(***************************************************************************)
(* Proofs about module TelegramCommands, for any messages, queue and lives. *)
(***************************************************************************)
EXTENDS TelegramCommands, FiniteSetTheorems, WellFoundedInduction, TLAPS

-----------------------------------------------------------------------------
(* Of numbers and sequences. *)

LEMMA LeastExists ==
  ASSUME NEW S, S \subseteq Nat, S # {}
  PROVE  \E m \in S : \A k \in S : m <= k
<1> DEFINE R == OpToRel(<, Nat)
<1>1. IsWellFoundedOn(R, Nat) BY NatLessThanWellFounded
<1>2. \A x, y \in Nat : y < x => <<y, x>> \in R BY DEF OpToRel
<1> HIDE DEF R
<1>3. PICK x \in S : \A y \in S : ~(<<y, x>> \in R) BY <1>1, WFMin
<1>4. \A y \in S : ~(y < x) BY <1>2, <1>3
<1>5. \A y \in S : x <= y
  <2>1. TAKE y \in S
  <2>2. x \in Nat /\ y \in Nat OBVIOUS
  <2> QED BY <1>4, <2>2
<1> QED BY <1>5

LEMMA AppendFacts ==
  ASSUME NEW S, NEW s \in Seq(S), NEW e \in S
  PROVE  /\ Append(s, e) \in Seq(S) /\ Len(Append(s, e)) = Len(s) + 1
         /\ Append(s, e)[Len(s) + 1] = e
         /\ \A i \in 1..Len(s) : Append(s, e)[i] = s[i]
         /\ ToSet(Append(s, e)) = ToSet(s) \cup {e}
<1>1. /\ Append(s, e) \in Seq(S) /\ Len(Append(s, e)) = Len(s) + 1
      /\ Append(s, e)[Len(s) + 1] = e
      /\ \A i \in 1..Len(s) : Append(s, e)[i] = s[i]
  OBVIOUS
<1>2. ToSet(Append(s, e)) = ToSet(s) \cup {e} BY <1>1 DEF ToSet
<1> QED BY <1>1, <1>2

LEMMA RemoveAtFacts ==
  ASSUME NEW S, NEW s \in Seq(S), NEW n \in 1..Len(s)
  PROVE  /\ RemoveAt(s, n) \in Seq(S) /\ Len(RemoveAt(s, n)) = Len(s) - 1
         /\ \A i \in 1..(Len(s) - 1) : RemoveAt(s, n)[i] = IF i < n THEN s[i] ELSE s[i + 1]
         /\ ToSet(RemoveAt(s, n)) \subseteq ToSet(s)
         /\ ToSet(s) = ToSet(RemoveAt(s, n)) \cup {s[n]}
<1> DEFINE r == RemoveAt(s, n)
           a == SubSeq(s, 1, n - 1)
           b == SubSeq(s, n + 1, Len(s))
<1>1. a \in Seq(S) /\ Len(a) = n - 1 /\ \A i \in 1..(n - 1) : a[i] = s[i] OBVIOUS
<1>2. /\ b \in Seq(S) /\ Len(b) = Len(s) - n
      /\ \A i \in 1..(Len(s) - n) : b[i] = s[n + i]
  OBVIOUS
<1>3. r = a \o b BY DEF RemoveAt
<1> HIDE DEF a, b
<1>4. r \in Seq(S) /\ Len(r) = Len(s) - 1 BY <1>1, <1>2, <1>3
<1>5. ASSUME NEW i \in 1..(Len(s) - 1) PROVE r[i] = IF i < n THEN s[i] ELSE s[i + 1]
  <2>1. CASE i < n BY <1>1, <1>2, <1>3, <2>1
  <2>2. CASE i >= n
    <3>1. r[i] = b[i - (n - 1)] BY <1>1, <1>2, <1>3, <2>2
    <3>2. i - (n - 1) \in 1..(Len(s) - n) /\ n + (i - (n - 1)) = i + 1 BY <2>2
    <3> QED BY <1>2, <2>2, <3>1, <3>2
  <2> QED BY <2>1, <2>2
<1> HIDE DEF r
<1>6. ToSet(r) \subseteq ToSet(s)
  <2>1. SUFFICES ASSUME NEW i \in 1..(Len(s) - 1) PROVE r[i] \in ToSet(s)
    BY <1>4 DEF ToSet
  <2>2. i \in DOMAIN s /\ i + 1 \in DOMAIN s OBVIOUS
  <2> QED BY <1>5, <2>2 DEF ToSet
<1>7. ToSet(s) \subseteq ToSet(r) \cup {s[n]}
  <2>1. SUFFICES ASSUME NEW i \in 1..Len(s), i # n PROVE s[i] \in ToSet(r)
    BY DEF ToSet
  <2>2. DOMAIN r = 1..(Len(s) - 1) BY <1>4
  <2>3. CASE i < n
    <3>1. i \in 1..(Len(s) - 1) /\ r[i] = s[i] BY <1>5, <2>3
    <3> QED BY <2>2, <3>1 DEF ToSet
  <2>4. CASE i > n
    <3>1. i - 1 \in 1..(Len(s) - 1) /\ ~(i - 1 < n) /\ (i - 1) + 1 = i BY <2>4
    <3>2. r[i - 1] = s[i] BY <1>5, <3>1
    <3> QED BY <2>2, <3>1, <3>2 DEF ToSet
  <2> QED BY <2>1, <2>3, <2>4
<1>8. s[n] \in ToSet(s) BY DEF ToSet
<1> QED BY <1>4, <1>5, <1>6, <1>7, <1>8 DEF r


(* How often an id is in a sequence. *)
Places(s, id) == {i \in DOMAIN s : s[i] = id}
Copies(s, id) == Cardinality(Places(s, id))

LEMMA PlacesFinite ==
  ASSUME NEW S, NEW s \in Seq(S), NEW id
  PROVE  IsFiniteSet(Places(s, id)) /\ Copies(s, id) \in Nat
<1>1. IsFiniteSet(1..Len(s)) BY FS_Interval
<1>2. Places(s, id) \subseteq 1..Len(s) BY DEF Places
<1>3. IsFiniteSet(Places(s, id)) BY <1>1, <1>2, FS_Subset
<1> QED BY <1>3, FS_CardinalityType DEF Copies

(* Where places are mapped to different places of another sequence, there   *)
(* are at most as many.                                                    *)
LEMMA FewerCopies ==
  ASSUME NEW S, NEW s \in Seq(S), NEW id, NEW T, IsFiniteSet(T), NEW f \in [Places(s, id) -> T],
         \A i, j \in Places(s, id) : i # j => f[i] # f[j]
  PROVE  Copies(s, id) <= Cardinality(T)
<1>1. f \in Injection(Places(s, id), T) BY DEF Injection, IsInjective
<1> QED BY <1>1, FS_Injection DEF Copies

LEMMA CopiesOfAppend ==
  ASSUME NEW S, NEW s \in Seq(S), NEW e \in S, NEW id
  PROVE  Copies(Append(s, e), id) <= Copies(s, id) + (IF id = e THEN 1 ELSE 0)
<1>1. IsFiniteSet(Places(s, id)) /\ Copies(s, id) \in Nat BY PlacesFinite
<1>2. Append(s, e) \in Seq(S) BY AppendFacts
<1>3. DOMAIN Append(s, e) = 1..(Len(s) + 1) /\ DOMAIN s = 1..Len(s) BY AppendFacts
<1>4. CASE id = e
  <2>1. Places(Append(s, e), id) = Places(s, id) \cup {Len(s) + 1}
    BY <1>3, <1>4, AppendFacts DEF Places
  <2>2. Len(s) + 1 \notin Places(s, id) BY <1>3 DEF Places
  <2>3. Cardinality(Places(s, id) \cup {Len(s) + 1}) = Cardinality(Places(s, id)) + 1
    BY <1>1, <2>2, FS_AddElement, Zenon
  <2> QED BY <1>1, <1>4, <2>1, <2>3 DEF Copies
<1>5. CASE id # e
  <2>1. Places(Append(s, e), id) = Places(s, id) BY <1>3, <1>5, AppendFacts DEF Places
  <2> QED BY <1>1, <1>5, <2>1 DEF Copies
<1> QED BY <1>4, <1>5

LEMMA CopiesOfRemoveAt ==
  ASSUME NEW S, NEW s \in Seq(S), NEW n \in 1..Len(s), NEW id
  PROVE  Copies(RemoveAt(s, n), id) <= Copies(s, id) - (IF id = s[n] THEN 1 ELSE 0)
<1> DEFINE r == RemoveAt(s, n)
           f == [i \in Places(r, id) |-> IF i < n THEN i ELSE i + 1]
<1>1. r \in Seq(S) /\ DOMAIN r = 1..(Len(s) - 1) /\ DOMAIN s = 1..Len(s) BY RemoveAtFacts
<1>2. IsFiniteSet(Places(s, id)) /\ Copies(s, id) \in Nat BY PlacesFinite
<1>3. Places(r, id) \subseteq 1..(Len(s) - 1) BY <1>1 DEF Places
<1>4. ASSUME NEW i \in Places(r, id) PROVE f[i] \in Places(s, id) \ {n}
  <2>1. i \in 1..(Len(s) - 1) /\ r[i] = id BY <1>1 DEF Places
  <2>2. r[i] = IF i < n THEN s[i] ELSE s[i + 1] BY <2>1, RemoveAtFacts
  <2> HIDE DEF r
  <2> QED BY <1>1, <2>1, <2>2 DEF Places
<1>5. f \in [Places(r, id) -> Places(s, id) \ {n}] BY <1>4
<1>6. \A i, j \in Places(r, id) : i # j => f[i] # f[j] BY <1>3
<1>7. /\ IsFiniteSet(Places(s, id) \ {n})
      /\ Cardinality(Places(s, id) \ {n})
           = IF n \in Places(s, id) THEN Copies(s, id) - 1 ELSE Copies(s, id)
  BY <1>2, FS_RemoveElement DEF Copies
<1>8. n \in Places(s, id) <=> id = s[n] BY <1>1 DEF Places
<1> HIDE DEF r, f
<1>9. Copies(r, id) <= Cardinality(Places(s, id) \ {n}) BY <1>1, <1>5, <1>6, <1>7, FewerCopies
<1> QED BY <1>2, <1>7, <1>8, <1>9 DEF r

(* r selects from s, in order, the first m of the places T, which are n.    *)
Selects(r, s, T, n, m, order) ==
  /\ T \subseteq 1..Len(s) /\ n \in Nat /\ m \in 0..n
  /\ order \in [1..n -> T] /\ \A i, j \in 1..n : i < j => order[i] < order[j]
  /\ r = [i \in 1..m |-> s[order[i]]]

LEMMA CopiesOfSelection ==
  ASSUME NEW S, NEW s \in Seq(S), NEW T, NEW n, NEW m, NEW order, NEW r,
         Selects(r, s, T, n, m, order), NEW id
  PROVE  /\ r \in Seq(S) /\ Len(r) = m
         /\ \A i \in 1..m : \E j \in T : r[i] = s[j]
         /\ Copies(r, id) <= Copies(s, id)
<1> USE DEF Selects
<1> DEFINE f == [i \in Places(r, id) |-> order[i]]
<1>1. DOMAIN s = 1..Len(s) /\ 1..m \subseteq 1..n OBVIOUS
<1>2. \A i \in 1..m : order[i] \in T /\ order[i] \in 1..Len(s) /\ s[order[i]] \in S
  <2>1. \A i \in 1..m : order[i] \in T BY <1>1
  <2>2. \A j \in T : j \in 1..Len(s) /\ s[j] \in S OBVIOUS
  <2> QED BY <2>1, <2>2
<1>3. r \in Seq(S) /\ Len(r) = m /\ DOMAIN r = 1..m BY <1>2
<1>4. \A i \in 1..m : \E j \in T : r[i] = s[j] BY <1>2
<1>5. \A i \in Places(r, id) : i \in 1..m /\ order[i] \in Places(s, id) BY <1>2, <1>3 DEF Places
<1>6. f \in [Places(r, id) -> Places(s, id)] BY <1>5
<1>7. \A i, j \in Places(r, id) : i # j => f[i] # f[j]
  <2>1. SUFFICES ASSUME NEW i \in Places(r, id), NEW j \in Places(r, id), i # j
                 PROVE  order[i] # order[j]
    OBVIOUS
  <2>2. i \in 1..n /\ j \in 1..n /\ (i < j \/ j < i) BY <1>1, <1>5, <2>1
  <2>3. order[i] \in 1..Len(s) /\ order[j] \in 1..Len(s) BY <1>2, <1>5, <2>1
  <2> QED BY <2>2, <2>3
<1> HIDE DEF f
<1>8. Copies(r, id) <= Copies(s, id)
  <2>1. IsFiniteSet(Places(s, id)) BY PlacesFinite
  <2> QED BY <1>3, <1>6, <1>7, <2>1, FewerCopies DEF Copies
<1> QED BY <1>3, <1>4, <1>8


-----------------------------------------------------------------------------
(* Of a queue q and executions st of messages of the kinds k: a message     *)
(* that is no view is there once.                                          *)
Once(k, q, st) ==
  /\ \A i, j \in DOMAIN q : i # j /\ q[i] = q[j] => k[q[i]] = "view"
  /\ \A i, j \in DOMAIN st : i # j /\ st[i] = st[j] => k[st[i]] = "view"
  /\ \A id \in ToSet(q) \cap ToSet(st) : k[id] = "view"

Increasing(q) == \A i, j \in DOMAIN q : i < j => q[i] < q[j]

LEMMA OnceAppended ==
  ASSUME NEW S, NEW k, NEW s \in Seq(S), NEW e \in S, e \notin ToSet(s) \/ k[e] = "view",
         \A i, j \in DOMAIN s : i # j /\ s[i] = s[j] => k[s[i]] = "view"
  PROVE  LET r == Append(s, e) IN
           \A i, j \in DOMAIN r : i # j /\ r[i] = r[j] => k[r[i]] = "view"
<1> DEFINE r == Append(s, e)
<1>1. DOMAIN r = 1..(Len(s) + 1) /\ DOMAIN s = 1..Len(s) BY AppendFacts
<1>2. r[Len(s) + 1] = e /\ \A i \in 1..Len(s) : r[i] = s[i] BY AppendFacts
<1>3. \A i \in 1..Len(s) : s[i] \in ToSet(s) BY <1>1 DEF ToSet
<1> HIDE DEF r
<1>4. SUFFICES ASSUME NEW i \in DOMAIN r, NEW j \in DOMAIN r, i # j, r[i] = r[j]
               PROVE  k[r[i]] = "view"
  BY DEF r
<1>5. CASE i = Len(s) + 1 \/ j = Len(s) + 1
  <2>1. e \in ToSet(s) /\ r[i] = e BY <1>1, <1>2, <1>3, <1>4, <1>5
  <2> QED BY <2>1
<1>6. CASE i # Len(s) + 1 /\ j # Len(s) + 1
  <2>1. i \in 1..Len(s) /\ j \in 1..Len(s) BY <1>1, <1>6
  <2> QED BY <1>1, <1>2, <1>4, <2>1
<1> QED BY <1>5, <1>6

LEMMA PutOnce ==
  ASSUME NEW S, NEW k, NEW q \in Seq(S), NEW st \in Seq(S), NEW id \in S, Once(k, q, st),
         id \notin ToSet(q) \cup ToSet(st) \/ k[id] = "view"
  PROVE  Once(k, Append(q, id), st)
<1>1. ToSet(Append(q, id)) = ToSet(q) \cup {id} BY AppendFacts
<1> QED BY <1>1, OnceAppended DEF Once

LEMMA RunOnce ==
  ASSUME NEW S, NEW k, NEW q \in Seq(S), NEW st \in Seq(S), NEW id \in S, Once(k, q, st),
         id \notin ToSet(q) \cup ToSet(st) \/ k[id] = "view"
  PROVE  Once(k, q, Append(st, id))
<1>1. ToSet(Append(st, id)) = ToSet(st) \cup {id} BY AppendFacts
<1> QED BY <1>1, OnceAppended DEF Once

(* Where the ids of r are those of q, but for the nth, in their order.     *)
LEMMA RestOnce ==
  ASSUME NEW S, NEW k, NEW q \in Seq(S), NEW st \in Seq(S), NEW n \in 1..Len(q), Once(k, q, st)
  PROVE  /\ Once(k, RemoveAt(q, n), st)
         /\ q[n] \notin ToSet(RemoveAt(q, n)) \cup ToSet(st) \/ k[q[n]] = "view"
<1> DEFINE r == RemoveAt(q, n)
           old(i) == IF i < n THEN i ELSE i + 1
<1>1. r \in Seq(S) /\ DOMAIN r = 1..(Len(q) - 1) /\ DOMAIN q = 1..Len(q) BY RemoveAtFacts
<1>2. ToSet(r) \subseteq ToSet(q) BY RemoveAtFacts
<1>3. \A i \in 1..(Len(q) - 1) : r[i] = q[old(i)] /\ old(i) \in 1..Len(q) \ {n}
  BY RemoveAtFacts
<1>4. \A i, j \in 1..(Len(q) - 1) : i # j => old(i) # old(j) OBVIOUS
<1> HIDE DEF r, old
<1>5. \A i, j \in DOMAIN r : i # j /\ r[i] = r[j] => k[r[i]] = "view"
  BY <1>1, <1>3, <1>4 DEF Once
<1>6. q[n] \in ToSet(r) => k[q[n]] = "view"
  <2>1. SUFFICES ASSUME NEW i \in DOMAIN r, r[i] = q[n] PROVE k[q[n]] = "view" BY DEF ToSet
  <2> QED BY <1>1, <1>3, <2>1 DEF Once
<1>7. q[n] \in ToSet(st) => k[q[n]] = "view" BY <1>1 DEF Once, ToSet
<1> QED BY <1>2, <1>5, <1>6, <1>7 DEF Once, r

LEMMA RestIncreases ==
  ASSUME NEW S, S \subseteq Nat, NEW q \in Seq(S), NEW n \in 1..Len(q), Increasing(q)
  PROVE  /\ Increasing(RemoveAt(q, n))
         /\ n = 1 => \A id \in ToSet(RemoveAt(q, n)) : q[1] < id
<1> DEFINE r == RemoveAt(q, n)
           old(i) == IF i < n THEN i ELSE i + 1
<1>1. r \in Seq(S) /\ DOMAIN r = 1..(Len(q) - 1) /\ DOMAIN q = 1..Len(q) BY RemoveAtFacts
<1>2. \A i \in 1..(Len(q) - 1) : r[i] = q[old(i)] /\ old(i) \in 1..Len(q)
  <2>1. \A i \in 1..(Len(q) - 1) : r[i] = IF i < n THEN q[i] ELSE q[i + 1] BY RemoveAtFacts
  <2>2. \A i \in 1..(Len(q) - 1) : old(i) \in 1..Len(q) OBVIOUS
  <2> HIDE DEF r
  <2> QED BY <2>1, <2>2
<1>3. \A i, j \in 1..(Len(q) - 1) : i < j => old(i) < old(j) OBVIOUS
<1>4. \A i \in 1..(Len(q) - 1) : n = 1 => old(i) > 1 OBVIOUS
<1> HIDE DEF r, old
<1>5. Increasing(r) BY <1>1, <1>2, <1>3 DEF Increasing
<1>6. ASSUME n = 1, NEW id \in ToSet(r) PROVE q[1] < id
  <2>1. PICK i \in DOMAIN r : id = r[i] BY <1>6 DEF ToSet
  <2>2. id = q[old(i)] /\ old(i) \in DOMAIN q /\ 1 < old(i) BY <1>1, <1>2, <1>4, <1>6, <2>1
  <2>3. 1 \in DOMAIN q BY <1>1
  <2> QED BY <2>2, <2>3 DEF Increasing
<1> QED BY <1>5, <1>6 DEF r


-----------------------------------------------------------------------------
(* The invariant.  The types, in two parts: of the queue, and of the rest.  *)
QueueTypes ==
  /\ queue \in Seq(Ids) /\ Len(queue) <= MaxQueue /\ diskQueue \in Seq(Ids)
  /\ drainRun \in Ids \cup {None} /\ started \in Seq(Ids) /\ due \in [Ids -> Int]

OtherTypes ==
  /\ kind \in Scripts
  /\ phase \in {"booting", "up", "stopping", "down"} /\ stopper \in Ids \cup {None}
  /\ life \in 1..MaxLives
  /\ savedOffset \in 1..(MaxUpdate + 1) /\ offset \in 1..(MaxUpdate + 1)
  /\ pollPc \in {"off", "fetch", "batch"} /\ batch \in Seq(Ids) /\ pollRun \in Ids \cup {None}
  /\ busy \in BOOLEAN /\ chatting \subseteq Chats /\ cycle \in BOOLEAN
  /\ received \subseteq Ids /\ rejected \subseteq Ids

LEMMA TypesOfAll == TypeOK <=> QueueTypes /\ OtherTypes
BY DEF TypeOK, QueueTypes, OtherTypes

LEMMA IdsAreNumbers ==
  /\ Ids \subseteq Nat /\ None \notin Ids /\ MaxUpdate \in Nat
  /\ \A S \in SUBSET Ids : S \subseteq Nat
BY CommandAssumption DEF Ids, None

(* A process that does not poll yet has been handed nothing; one that is    *)
(* down does nothing.                                                      *)
Resting ==
  /\ phase \in {"booting", "down"} => batch = <<>> /\ pollRun = None /\ received = {}
  /\ phase = "down" => /\ queue = <<>> /\ started = <<>> /\ drainRun = None
                       /\ busy = FALSE /\ chatting = {}

(* What is polled follows the offset, and what was handed on precedes it.  *)
BatchFollows == \A i \in DOMAIN batch : batch[i] = offset + i - 1
ReceivedIsPast == \A id \in received : id < offset

(* The file holds what the queue holds; every copy in it is due.           *)
Saved == running => diskQueue = queue
DueCovers == \A id \in Ids : Copies(diskQueue, id) <= due[id]

(* In the first life there is nothing in the queue but what was received,   *)
(* in its order.                                                           *)
FirstInOrder == life = 1 => Increasing(queue) /\ Waiting \subseteq received

QueueOK ==
  /\ Saved /\ StopLeavesNoBacklog /\ NothingForgotten /\ RestoredAreSafe
  /\ Once(kind, queue, started) /\ DueCovers /\ FirstInOrder

Inv == QueueTypes /\ OtherTypes /\ Resting /\ BatchFollows /\ ReceivedIsPast /\ QueueOK /\ NoIdleBacklog

-----------------------------------------------------------------------------
(* Of a drain: it takes a message, or leaves the queue alone. *)
Takes ==
  /\ running /\ queue # <<>>
  /\ queue' = Rest(NextIndex) /\ diskQueue' = queue'
  /\ drainRun' = queue[NextIndex] /\ ExecuteQueued(queue[NextIndex])

Leaves == UNCHANGED <<queue, diskQueue, started, due>>

LEMMA DrainEither ==
  ASSUME NEW run, NEW b, NEW c, Drain(run, b, c)
  PROVE  \/ /\ Takes /\ run = None /\ ~b /\ ~c
            /\ busy' = (kind[drainRun'] = "chat")
         \/ /\ Leaves /\ drainRun' = run /\ busy' = b
            /\ run # None \/ ~running \/ queue = <<>> \/ b \/ c
BY DEF Drain, Takes, Leaves

LEMMA NextIndexIn ==
  ASSUME queue \in Seq(Ids), queue # <<>>
  PROVE  /\ NextIndex \in 1..Len(queue) /\ queue[NextIndex] \in Ids
         /\ kind[queue[NextIndex]] # "stop" =>
              NextIndex = 1 /\ \A id \in ToSet(queue) : kind[id] # "stop"
<1> DEFINE stops == {i \in DOMAIN queue : kind[queue[i]] = "stop"}
<1>1. DOMAIN queue = 1..Len(queue) /\ 1 \in DOMAIN queue OBVIOUS
<1>2. CASE stops = {}
  <2>1. NextIndex = 1 BY <1>2 DEF NextIndex
  <2>2. \A id \in ToSet(queue) : kind[id] # "stop" BY <1>2 DEF ToSet
  <2> QED BY <1>1, <2>1, <2>2
<1>3. CASE stops # {}
  <2>1. stops \subseteq Nat BY <1>1
  <2>2. \E i \in stops : \A j \in stops : i <= j BY <1>3, <2>1, LeastExists
  <2>3. NextIndex = CHOOSE i \in stops : \A j \in stops : i <= j BY <1>3 DEF NextIndex
  <2>4. NextIndex \in stops BY <2>2, <2>3
  <2> QED BY <1>1, <2>4
<1> QED BY <1>2, <1>3

LEMMA TakesTypes == ASSUME QueueTypes, Takes PROVE QueueTypes'
<1> DEFINE n == NextIndex
<1>1. n \in 1..Len(queue) /\ queue[n] \in Ids BY NextIndexIn DEF QueueTypes, Takes
<1>2. queue' \in Seq(Ids) /\ Len(queue') = Len(queue) - 1
  BY <1>1, RemoveAtFacts DEF QueueTypes, Takes, Rest
<1>3. started' \in Seq(Ids) BY <1>1, AppendFacts DEF QueueTypes, Takes, ExecuteQueued, Execute
<1>4. due' \in [Ids -> Int] BY <1>1 DEF QueueTypes, Takes, ExecuteQueued
<1>5. Len(queue') <= MaxQueue BY <1>2, CommandAssumption DEF QueueTypes
<1> QED BY <1>1, <1>2, <1>3, <1>4, <1>5 DEF QueueTypes, Takes

LEMMA TakesQueue ==
  ASSUME QueueTypes, QueueOK, Takes, UNCHANGED <<kind, received, rejected, life>>,
         phase' \in {"booting", "up"}
  PROVE  QueueOK'
<1> DEFINE n == NextIndex
           id == queue[n]
<1>1. n \in 1..Len(queue) /\ id \in Ids BY NextIndexIn DEF QueueTypes, Takes
<1>2. /\ queue \in Seq(Ids) /\ started \in Seq(Ids) /\ queue' = RemoveAt(queue, n)
      /\ started' = Append(started, id) /\ diskQueue' = queue' /\ diskQueue = queue
      /\ due' = [due EXCEPT ![id] = @ - 1] /\ due \in [Ids -> Int]
  BY DEF QueueTypes, QueueOK, Saved, Takes, Rest, ExecuteQueued, Execute
<1>3. /\ ToSet(queue') \subseteq ToSet(queue) /\ ToSet(queue) = ToSet(queue') \cup {id}
      /\ ToSet(started') = ToSet(started) \cup {id}
  BY <1>1, <1>2, RemoveAtFacts, AppendFacts
<1> HIDE DEF n, id
<1>4. Saved' /\ StopLeavesNoBacklog' BY <1>2 DEF Saved, StopLeavesNoBacklog, shuttingDown
<1>5. NothingForgotten' BY <1>3 DEF QueueOK, NothingForgotten, Waiting, Takes
<1>6. RestoredAreSafe' BY <1>3 DEF QueueOK, RestoredAreSafe, Waiting
<1>7. Once(kind, queue, started)'
  <2>1. Once(kind, queue, started) BY DEF QueueOK
  <2>2. /\ Once(kind, queue', started)
        /\ id \notin ToSet(queue') \cup ToSet(started) \/ kind[id] = "view"
    BY <1>1, <1>2, <2>1, RestOnce DEF id
  <2>3. queue' \in Seq(Ids) BY <1>1, <1>2, RemoveAtFacts
  <2>4. Once(kind, queue', Append(started, id)) BY <1>1, <1>2, <2>2, <2>3, RunOnce
  <2> QED BY <1>2, <2>4
<1>8. DueCovers'
  <2>1. SUFFICES ASSUME NEW e \in Ids PROVE Copies(queue', e) <= due'[e] BY <1>2 DEF DueCovers
  <2>2. Copies(queue', e) <= Copies(queue, e) - (IF e = id THEN 1 ELSE 0)
    BY <1>1, <1>2, CopiesOfRemoveAt DEF id
  <2>3. Copies(queue, e) <= due[e] BY <1>2 DEF QueueOK, DueCovers
  <2>4. due'[e] = due[e] - (IF e = id THEN 1 ELSE 0) /\ due[e] \in Int BY <1>1, <1>2
  <2>5. queue' \in Seq(Ids) BY <1>1, <1>2, RemoveAtFacts
  <2>6. Copies(queue, e) \in Nat /\ Copies(queue', e) \in Nat BY <1>2, <2>5, PlacesFinite
  <2> QED BY <2>2, <2>3, <2>4, <2>6
<1>9. FirstInOrder'
  <2>1. SUFFICES ASSUME life = 1 PROVE Increasing(queue') /\ ToSet(queue') \subseteq received
    BY DEF FirstInOrder, Waiting
  <2>2. Increasing(queue) /\ ToSet(queue) \subseteq received
    BY <2>1 DEF QueueOK, FirstInOrder, Waiting
  <2> QED BY <1>1, <1>2, <1>3, <2>2, IdsAreNumbers, RestIncreases
<1> QED BY <1>4, <1>5, <1>6, <1>7, <1>8, <1>9 DEF QueueOK


-----------------------------------------------------------------------------
(* Of the handler, when it is handed a message not received before.        *)
LEMMA PutsQueue ==
  ASSUME QueueTypes, QueueOK, NEW id \in Ids, running, PutInQueue(queue, id),
         id \notin received, \A r \in received : r < id, received' = received \cup {id},
         UNCHANGED <<kind, started, rejected, life, phase>>
  PROVE  QueueOK'
<1>1. /\ queue \in Seq(Ids) /\ started \in Seq(Ids) /\ queue' = Append(queue, id)
      /\ diskQueue' = queue' /\ diskQueue = queue
      /\ due' = [due EXCEPT ![id] = @ + 1] /\ due \in [Ids -> Int]
  BY DEF QueueTypes, QueueOK, Saved, PutInQueue
<1>2. ToSet(queue') = ToSet(queue) \cup {id} /\ queue' \in Seq(Ids) BY <1>1, AppendFacts
<1>3. id \notin ToSet(queue) \cup ToSet(started) \/ kind[id] = "view"
  BY DEF QueueOK, RestoredAreSafe, Waiting
<1>4. Saved' /\ StopLeavesNoBacklog'
  BY <1>1 DEF Saved, StopLeavesNoBacklog, shuttingDown, running
<1>5. NothingForgotten' BY <1>2 DEF QueueOK, NothingForgotten, Waiting, running
<1>6. RestoredAreSafe' BY <1>2 DEF QueueOK, RestoredAreSafe, Waiting
<1>7. Once(kind, queue, started)'
  <2>1. Once(kind, Append(queue, id), started) BY <1>1, <1>3, PutOnce DEF QueueOK
  <2> QED BY <1>1, <2>1
<1>8. DueCovers'
  <2>1. SUFFICES ASSUME NEW e \in Ids PROVE Copies(queue', e) <= due'[e] BY <1>1 DEF DueCovers
  <2>2. Copies(queue', e) <= Copies(queue, e) + (IF e = id THEN 1 ELSE 0)
    BY <1>1, CopiesOfAppend
  <2>3. Copies(queue, e) <= due[e] BY <1>1 DEF QueueOK, DueCovers
  <2>4. due'[e] = due[e] + (IF e = id THEN 1 ELSE 0) /\ due[e] \in Int BY <1>1
  <2>5. Copies(queue, e) \in Nat /\ Copies(queue', e) \in Nat BY <1>1, <1>2, PlacesFinite
  <2> QED BY <2>2, <2>3, <2>4, <2>5
<1>9. FirstInOrder'
  <2>1. SUFFICES ASSUME life = 1 PROVE Increasing(queue') /\ ToSet(queue') \subseteq received'
    BY DEF FirstInOrder, Waiting
  <2>2. Increasing(queue) /\ ToSet(queue) \subseteq received
    BY <2>1 DEF QueueOK, FirstInOrder, Waiting
  <2>3. /\ DOMAIN queue' = 1..(Len(queue) + 1) /\ DOMAIN queue = 1..Len(queue)
        /\ queue'[Len(queue) + 1] = id /\ \A i \in 1..Len(queue) : queue'[i] = queue[i]
    BY <1>1, AppendFacts
  <2>4. \A i \in 1..Len(queue) : queue[i] < id BY <2>2, <2>3 DEF ToSet
  <2>5. Increasing(queue')
    <3>1. SUFFICES ASSUME NEW i \in 1..(Len(queue) + 1), NEW j \in 1..(Len(queue) + 1), i < j
                   PROVE  queue'[i] < queue'[j]
      BY <2>3 DEF Increasing
    <3>2. i \in 1..Len(queue) /\ (j \in 1..Len(queue) \/ j = Len(queue) + 1) BY <1>1, <3>1
    <3> QED BY <2>2, <2>3, <2>4, <3>1, <3>2 DEF Increasing
  <2> QED BY <1>2, <2>2, <2>5
<1> QED BY <1>4, <1>5, <1>6, <1>7, <1>8, <1>9 DEF QueueOK

LEMMA RefusesQueue ==
  ASSUME QueueOK, NEW id \in Ids, received' = received \cup {id}, rejected' = rejected \cup {id},
         UNCHANGED <<kind, queue, diskQueue, due, started, life, phase>>
  PROVE  QueueOK'
BY DEF QueueOK, Saved, StopLeavesNoBacklog, NothingForgotten, RestoredAreSafe, DueCovers,
       FirstInOrder, Waiting, running, shuttingDown

LEMMA RunsQueue ==
  ASSUME QueueTypes, QueueOK, NEW id \in Ids, Execute(id),
         id \notin received, received' = received \cup {id},
         UNCHANGED <<kind, queue, diskQueue, due, rejected, life, phase>>
  PROVE  QueueOK'
<1>1. queue \in Seq(Ids) /\ started \in Seq(Ids) /\ started' = Append(started, id)
  BY DEF QueueTypes, Execute
<1>2. ToSet(started') = ToSet(started) \cup {id} BY <1>1, AppendFacts
<1>3. id \notin ToSet(queue) \cup ToSet(started) \/ kind[id] = "view"
  BY DEF QueueOK, RestoredAreSafe, Waiting
<1>4. Once(kind, queue, started)'
  <2>1. Once(kind, queue, Append(started, id)) BY <1>1, <1>3, RunOnce DEF QueueOK
  <2> QED BY <1>1, <2>1
<1>5. NothingForgotten' BY <1>2 DEF QueueOK, NothingForgotten, Waiting, running
<1>6. RestoredAreSafe' BY <1>2 DEF QueueOK, RestoredAreSafe, Waiting
<1> QED
  BY <1>4, <1>5, <1>6
  DEF QueueOK, Saved, StopLeavesNoBacklog, DueCovers, FirstInOrder, Waiting, running, shuttingDown

(* Of a step that has nothing to do with messages.                         *)
LEMMA StaysQueue ==
  ASSUME QueueOK, UNCHANGED <<kind, queue, diskQueue, due, started, received, rejected, life>>,
         phase' = phase \/ (running /\ running')
  PROVE  QueueOK'
BY DEF QueueOK, Saved, StopLeavesNoBacklog, NothingForgotten, RestoredAreSafe, DueCovers,
       FirstInOrder, Waiting, running, shuttingDown

LEMMA EmptyQueue ==
  ASSUME NEW id
  PROVE  /\ ToSet(<<>>) = {} /\ Increasing(<<>>)
         /\ Copies(<<>>, id) = 0
<1>1. Places(<<>>, id) = {} BY DEF Places
<1> QED BY <1>1, FS_EmptySet DEF ToSet, Increasing, Copies

(* Of a stop, the end of the process and a restart. *)
LEMMA ShutdownQueue ==
  ASSUME QueueTypes, QueueOK, NEW by, Shutdown(by)
  PROVE  QueueOK'
<1>1. ToSet(queue') = {} /\ Increasing(queue') /\ \A id : Copies(diskQueue', id) = 0
  BY EmptyQueue DEF Shutdown
<1>2. Once(kind, queue, started)'
  <2>1. queue' = <<>> /\ UNCHANGED <<kind, started>> BY DEF Shutdown
  <2> QED BY <1>1, <2>1 DEF QueueOK, Once
<1>3. DueCovers' BY <1>1 DEF DueCovers, Shutdown
<1>4. StopLeavesNoBacklog' BY DEF StopLeavesNoBacklog, Shutdown
<1>5. Saved' /\ NothingForgotten' BY DEF Saved, NothingForgotten, running, Shutdown
<1>6. RestoredAreSafe' /\ FirstInOrder'
  BY <1>1 DEF QueueOK, RestoredAreSafe, FirstInOrder, Waiting, Shutdown
<1> QED BY <1>2, <1>3, <1>4, <1>5, <1>6 DEF QueueOK

LEMMA DiesQueue == ASSUME QueueOK, Dies PROVE QueueOK'
<1>1. ToSet(queue') = {} /\ ToSet(started') = {} /\ Increasing(queue')
  BY EmptyQueue DEF Dies
<1>2. Once(kind, queue, started)' BY <1>1 DEF Once, Dies
<1>3. DueCovers' BY DEF QueueOK, DueCovers, Dies
<1>4. Saved' /\ NothingForgotten' /\ StopLeavesNoBacklog'
  BY DEF Saved, NothingForgotten, StopLeavesNoBacklog, shuttingDown, running, Dies
<1>5. RestoredAreSafe' /\ FirstInOrder'
  BY <1>1 DEF RestoredAreSafe, FirstInOrder, Waiting, Dies
<1> QED BY <1>2, <1>3, <1>4, <1>5 DEF QueueOK

LEMMA RestartQueue ==
  ASSUME QueueTypes, OtherTypes, Resting, QueueOK, Restart
  PROVE  QueueTypes' /\ QueueOK'
<1> DEFINE n == Cardinality(Restorable(diskQueue))
           m == IF n < MaxQueue THEN n ELSE MaxQueue
<1>1. diskQueue \in Seq(Ids) /\ due \in [Ids -> Int] BY DEF QueueTypes
<1>2. Restorable(diskQueue) \subseteq DOMAIN diskQueue BY DEF Restorable
<1>3. n \in Nat /\ m \in 0..n /\ m <= MaxQueue
  <2>1. IsFiniteSet(DOMAIN diskQueue) BY <1>1, FS_Interval
  <2>2. n \in Nat BY <1>2, <2>1, FS_Subset, FS_CardinalityType
  <2> QED BY <2>2, CommandAssumption
<1>4. PICK order \in [1..n -> Restorable(diskQueue)] :
        /\ \A i, j \in 1..n : i < j => order[i] < order[j]
        /\ queue' = [i \in 1..m |-> diskQueue[order[i]]]
  BY DEF Restart
<1> HIDE DEF n, m
<1>5. /\ queue' \in Seq(Ids) /\ Len(queue') = m
      /\ \A i \in 1..m : \E j \in Restorable(diskQueue) : queue'[i] = diskQueue[j]
      /\ \A id : Copies(queue', id) <= Copies(diskQueue, id)
  <2> DEFINE T == Restorable(diskQueue)
  <2>1. T \subseteq 1..Len(diskQueue) BY <1>1, <1>2
  <2>2. Selects(queue', diskQueue, T, n, m, order) BY <1>3, <1>4, <2>1 DEF Selects
  <2> HIDE DEF T
  <2>3. ASSUME NEW id
        PROVE  /\ queue' \in Seq(Ids) /\ Len(queue') = m
               /\ \A i \in 1..m : \E j \in T : queue'[i] = diskQueue[j]
               /\ Copies(queue', id) <= Copies(diskQueue, id)
    BY <1>1, <2>2, CopiesOfSelection
  <2> QED BY <2>3 DEF T
<1>6. \A id \in ToSet(queue') : kind[id] = "view"
  <2>1. DOMAIN queue' = 1..m BY <1>4
  <2>2. \A j \in Restorable(diskQueue) : kind[diskQueue[j]] = "view" BY DEF Restorable
  <2> QED BY <1>5, <2>1, <2>2 DEF ToSet
<1>7. /\ phase = "down" /\ phase' = "booting" /\ received' = {} /\ started' = <<>> /\ drainRun' = None
      /\ diskQueue' = queue' /\ life' = life + 1 /\ kind' = kind
      /\ due' = [id \in Ids |-> IF kind[id] = "view" THEN due[id] ELSE 0]
  BY DEF Restart, Resting
<1>8. QueueTypes'
  <2>1. due' \in [Ids -> Int] BY <1>1, <1>7
  <2> QED BY <1>3, <1>5, <1>7, <2>1 DEF QueueTypes
<1>9. DueCovers'
  <2>1. SUFFICES ASSUME NEW id \in Ids PROVE Copies(queue', id) <= due'[id]
    BY <1>7 DEF DueCovers
  <2>2. CASE kind[id] = "view"
    <3>1. Copies(diskQueue, id) <= due[id] BY DEF QueueOK, DueCovers
    <3>2. Copies(queue', id) \in Nat /\ Copies(diskQueue, id) \in Nat /\ due[id] \in Int
      BY <1>1, <1>5, PlacesFinite
    <3> QED BY <1>5, <1>7, <2>2, <3>1, <3>2
  <2>3. CASE kind[id] # "view"
    <3>1. Places(queue', id) = {} BY <1>6, <2>3 DEF Places, ToSet
    <3>2. Copies(queue', id) = 0 BY <3>1, FS_EmptySet DEF Copies
    <3> QED BY <1>7, <2>3, <3>2
  <2> QED BY <2>2, <2>3
<1>10. Once(kind, queue, started)'
  <2>1. \A i \in DOMAIN queue' : queue'[i] \in ToSet(queue') BY DEF ToSet
  <2>2. ToSet(started') = {} /\ DOMAIN started' = {} BY <1>7, EmptyQueue
  <2> QED BY <1>6, <1>7, <2>1, <2>2 DEF Once
<1>11. Saved' /\ StopLeavesNoBacklog' /\ NothingForgotten'
  BY <1>7 DEF Saved, StopLeavesNoBacklog, NothingForgotten, shuttingDown
<1>12. RestoredAreSafe' BY <1>6, <1>7, EmptyQueue DEF RestoredAreSafe, Waiting
<1>13. FirstInOrder' BY <1>7 DEF FirstInOrder, OtherTypes
<1> QED BY <1>8, <1>9, <1>10, <1>11, <1>12, <1>13 DEF QueueOK


-----------------------------------------------------------------------------
(* What a drain leaves behind, when no message is handed over. *)
LEMMA DrainKeeps ==
  ASSUME QueueTypes, QueueOK, NEW run \in Ids \cup {None}, NEW b \in BOOLEAN, NEW c, Drain(run, b, c),
         UNCHANGED <<kind, received, rejected, life>>,
         phase' = phase \/ (running /\ running'), c => cycle'
  PROVE  QueueTypes' /\ QueueOK' /\ NoIdleBacklog' /\ busy' \in BOOLEAN
<1>1. CASE Takes /\ busy' = (kind[drainRun'] = "chat")
  <2>1. QueueTypes' BY <1>1, TakesTypes
  <2>2. phase' \in {"booting", "up"} BY <1>1 DEF Takes, running
  <2>3. QueueOK' BY <1>1, <2>2, TakesQueue
  <2>4. drainRun' # None
    BY <1>1, NextIndexIn, IdsAreNumbers DEF Takes, QueueTypes
  <2>5. busy' \in BOOLEAN BY <1>1
  <2> QED BY <2>1, <2>3, <2>4, <2>5 DEF NoIdleBacklog, draining
<1>2. CASE /\ Leaves /\ drainRun' = run /\ busy' = b
           /\ run # None \/ ~running \/ queue = <<>> \/ b \/ c
  <2>1. QueueTypes' BY <1>2 DEF QueueTypes, Leaves
  <2>2. QueueOK' BY <1>2, StaysQueue DEF Leaves
  <2>3. phase' = "up" => running BY DEF running
  <2>4. NoIdleBacklog' BY <1>2, <2>3 DEF NoIdleBacklog, draining, AgentBusy, Leaves
  <2> QED BY <1>2, <2>1, <2>2, <2>4
<1> QED BY <1>1, <1>2, DrainEither

(* Of the batch. *)
LEMMA FetchedBatch ==
  ASSUME OtherTypes, Fetch
  PROVE  batch' \in Seq(Ids) /\ BatchFollows'
<1>1. PICK n \in offset..MaxUpdate : batch' = [i \in 1..(n - offset + 1) |-> offset + i - 1]
  BY DEF Fetch
<1>2. offset \in Nat /\ offset >= 1 /\ MaxUpdate \in Nat /\ offset' = offset
  BY IdsAreNumbers DEF OtherTypes, Fetch
<1>3. n - offset + 1 \in Nat BY <1>2
<1>4. \A i \in 1..(n - offset + 1) : offset + i - 1 \in Ids BY <1>2 DEF Ids
<1>5. batch' \in Seq(Ids) BY <1>1, <1>3, <1>4
<1>6. BatchFollows' BY <1>1, <1>2 DEF BatchFollows
<1> QED BY <1>5, <1>6

LEMMA NextOfBatch ==
  ASSUME OtherTypes, BatchFollows, batch # <<>>
  PROVE  /\ Head(batch) = offset /\ Head(batch) \in Ids /\ Tail(batch) \in Seq(Ids)
         /\ \A i \in DOMAIN Tail(batch) : Tail(batch)[i] = (offset + 1) + i - 1
<1>1. batch \in Seq(Ids) /\ offset \in Int BY IdsAreNumbers DEF OtherTypes
<1>2. 1 \in DOMAIN batch /\ Head(batch) = batch[1] BY <1>1
<1>3. Head(batch) = offset BY <1>1, <1>2 DEF BatchFollows
<1>4. Head(batch) \in Ids /\ Tail(batch) \in Seq(Ids) BY <1>1
<1>5. ASSUME NEW i \in DOMAIN Tail(batch) PROVE Tail(batch)[i] = (offset + 1) + i - 1
  <2>1. i \in Nat /\ i + 1 \in DOMAIN batch /\ Tail(batch)[i] = batch[i + 1] BY <1>1
  <2> QED BY <1>1, <2>1 DEF BatchFollows
<1> QED BY <1>3, <1>4, <1>5

-----------------------------------------------------------------------------
(* Every action preserves the invariant. *)
LEMMA InitInv == Init => Inv
<1> SUFFICES ASSUME Init PROVE Inv OBVIOUS
<1>1. QueueTypes
  <2>1. due \in [Ids -> Int] BY DEF Init
  <2> QED BY <2>1, CommandAssumption DEF Init, QueueTypes
<1>2. OtherTypes
  <2>1. 1 \in 1..MaxLives /\ 1 \in 1..(MaxUpdate + 1) BY CommandAssumption
  <2>2. batch \in Seq(Ids) BY DEF Init
  <2> QED BY <2>1, <2>2 DEF Init, OtherTypes
<1>3. DueCovers BY EmptyQueue DEF Init, DueCovers
<1>4. Once(kind, queue, started) BY EmptyQueue DEF Init, Once
<1>5. Resting /\ BatchFollows /\ ReceivedIsPast /\ Saved /\ StopLeavesNoBacklog /\ NoIdleBacklog
  BY DEF Init, Resting, BatchFollows, ReceivedIsPast, Saved, StopLeavesNoBacklog, shuttingDown,
         NoIdleBacklog
<1>6. NothingForgotten /\ RestoredAreSafe /\ FirstInOrder
  BY EmptyQueue DEF Init, NothingForgotten, RestoredAreSafe, FirstInOrder, Waiting
<1> QED BY <1>1, <1>2, <1>3, <1>4, <1>5, <1>6 DEF Inv, QueueOK

LEMMA PollNextInv == ASSUME Inv, PollNext PROVE Inv'
<1> USE DEF Inv
<1> DEFINE id == Head(batch)
<1>1. /\ id = offset /\ id \in Ids /\ Tail(batch) \in Seq(Ids)
      /\ \A i \in DOMAIN Tail(batch) : Tail(batch)[i] = (offset + 1) + i - 1
  BY NextOfBatch DEF PollNext
<1>2. /\ offset' = id + 1 /\ batch' = Tail(batch) /\ phase \in {"up", "stopping"}
      /\ UNCHANGED <<kind, pollPc, savedOffset, chatting, cycle, phase, stopper, life>>
  BY DEF PollNext, lifeVars
<1>3. offset' \in 1..(MaxUpdate + 1) BY <1>1, <1>2, IdsAreNumbers DEF Ids
<1>4. BatchFollows' BY <1>1, <1>2 DEF BatchFollows
<1>5. /\ id \notin received /\ \A r \in received : r < id
  BY <1>1, IdsAreNumbers DEF ReceivedIsPast, OtherTypes
<1>6. Resting' BY <1>2 DEF Resting
<1>7. \/ shuttingDown /\ UNCHANGED <<pollRun, queueVars, busy, received, rejected>>
      \/ /\ ~shuttingDown /\ AgentBusy
         /\ received' = received \cup {id} /\ Enqueue(id)
         /\ UNCHANGED <<pollRun, drainRun, started, busy>>
      \/ /\ ~shuttingDown /\ received' = received \cup {id} /\ pollRun' = id /\ Execute(id)
         /\ busy' = (busy \/ kind[id] = "chat")
         /\ UNCHANGED <<queue, diskQueue, drainRun, due, rejected>>
  BY DEF PollNext
<1> HIDE DEF id
<1>8. ASSUME received' \in {received, received \cup {id}} PROVE ReceivedIsPast'
  <2>1. offset \in Nat /\ received \subseteq Nat BY <1>1, IdsAreNumbers DEF OtherTypes
  <2> QED BY <1>1, <1>2, <1>8, <2>1 DEF ReceivedIsPast
<1>9. CASE shuttingDown /\ UNCHANGED <<pollRun, queueVars, busy, received, rejected>>
  <2>1. QueueTypes' BY <1>9 DEF QueueTypes, queueVars
  <2>2. OtherTypes' BY <1>1, <1>2, <1>3, <1>9 DEF OtherTypes
  <2>3. QueueOK' BY <1>2, <1>9, StaysQueue DEF queueVars
  <2>4. NoIdleBacklog' BY <1>2, <1>9 DEF NoIdleBacklog, shuttingDown
  <2> QED BY <1>4, <1>6, <1>8, <1>9, <2>1, <2>2, <2>3, <2>4
<1>10. CASE /\ ~shuttingDown /\ AgentBusy
            /\ received' = received \cup {id} /\ Enqueue(id)
            /\ UNCHANGED <<pollRun, drainRun, started, busy>>
  <2>1. running BY <1>2, <1>10 DEF running, shuttingDown
  <2>2. NoIdleBacklog' BY <1>2, <1>10 DEF NoIdleBacklog, AgentBusy
  <2>3. CASE PutInQueue(queue, id) /\ UNCHANGED rejected /\ Len(queue) < MaxQueue
    <3>1. QueueOK' BY <1>1, <1>2, <1>5, <1>10, <2>1, <2>3, PutsQueue
    <3>2. queue' \in Seq(Ids) /\ Len(queue') <= MaxQueue
      BY <1>1, <2>3, AppendFacts, CommandAssumption DEF QueueTypes, PutInQueue
    <3>3. due' \in [Ids -> Int] BY <1>1, <2>3 DEF QueueTypes, PutInQueue
    <3>4. QueueTypes' BY <1>10, <2>3, <3>2, <3>3 DEF QueueTypes, PutInQueue
    <3>5. OtherTypes' BY <1>1, <1>2, <1>3, <1>10, <2>3 DEF OtherTypes
    <3> QED BY <1>4, <1>6, <1>8, <1>10, <2>2, <3>1, <3>4, <3>5
  <2>4. CASE rejected' = rejected \cup {id} /\ UNCHANGED <<queue, diskQueue, due>>
    <3>1. QueueOK' BY <1>1, <1>2, <1>10, <2>4, RefusesQueue
    <3>2. QueueTypes' BY <1>10, <2>4 DEF QueueTypes
    <3>3. OtherTypes' BY <1>1, <1>2, <1>3, <1>10, <2>4 DEF OtherTypes
    <3> QED BY <1>4, <1>6, <1>8, <1>10, <2>2, <3>1, <3>2, <3>3
  <2> QED BY <1>10, <2>3, <2>4 DEF Enqueue
<1>11. CASE /\ ~shuttingDown /\ received' = received \cup {id} /\ pollRun' = id /\ Execute(id)
            /\ busy' = (busy \/ kind[id] = "chat")
            /\ UNCHANGED <<queue, diskQueue, drainRun, due, rejected>>
  <2>1. QueueOK' BY <1>1, <1>2, <1>5, <1>11, RunsQueue
  <2>2. started' \in Seq(Ids) BY <1>1, <1>11, AppendFacts DEF QueueTypes, Execute
  <2>3. QueueTypes' BY <1>11, <2>2 DEF QueueTypes
  <2>4. busy' \in BOOLEAN BY <1>11
  <2>5. OtherTypes' BY <1>1, <1>2, <1>3, <1>11, <2>4 DEF OtherTypes
  <2>6. NoIdleBacklog' BY <1>2, <1>11 DEF NoIdleBacklog, AgentBusy, draining
  <2> QED BY <1>4, <1>6, <1>8, <1>11, <2>1, <2>3, <2>5, <2>6
<1> QED BY <1>7, <1>9, <1>10, <1>11


LEMMA NextInv == ASSUME Inv, [Next]_vars PROVE Inv'
<1> USE DEF Inv
<1>1. kind' = kind
  BY DEF Next, Handlers, Fetch, PollNext, PollSaves, PollHandled, DrainHandled, ChatStarts, ChatEnds,
         DrainTick, CycleStarts, CycleEnds, StopCommand, Signal, Shutdown, Exit, Crash, Dies, Restart,
         Boot, vars
<1>2. drainRun \in Ids \cup {None} /\ busy \in BOOLEAN /\ cycle \in BOOLEAN
  BY DEF QueueTypes, OtherTypes
<1>3. CASE PollNext BY <1>3, PollNextInv
<1>4. CASE Fetch \/ PollSaves
  <2>1. /\ UNCHANGED <<kind, pollRun, queueVars, busy, chatting, cycle, lifeVars, received, rejected>>
        /\ offset' = offset
    BY <1>4 DEF Fetch, PollSaves
  <2>2. QueueTypes' /\ QueueOK'
    BY <2>1, StaysQueue DEF QueueTypes, queueVars, lifeVars
  <2>3. batch' \in Seq(Ids) /\ BatchFollows'
    <3>1. CASE PollSaves BY <3>1 DEF PollSaves, OtherTypes, BatchFollows
    <3> QED BY <1>4, <3>1, FetchedBatch
  <2>4. savedOffset' \in 1..(MaxUpdate + 1) /\ pollPc' \in {"off", "fetch", "batch"}
    BY <1>4 DEF Fetch, PollSaves, OtherTypes
  <2>5. OtherTypes' BY <2>1, <2>3, <2>4 DEF OtherTypes, lifeVars
  <2>6. Resting'
    <3>1. phase' \in {"up", "stopping"} BY <1>4 DEF Fetch, PollSaves, lifeVars
    <3> QED BY <3>1 DEF Resting
  <2>7. ReceivedIsPast' /\ NoIdleBacklog'
    BY <2>1 DEF ReceivedIsPast, NoIdleBacklog, AgentBusy, draining, lifeVars, queueVars
  <2> QED BY <2>2, <2>3, <2>5, <2>6, <2>7
<1>5. CASE PollHandled
  <2>1. /\ pollRun' = None /\ phase \in {"up", "stopping"}
        /\ UNCHANGED <<kind, pollVars, chatting, cycle, lifeVars, received, rejected>>
    BY <1>5 DEF PollHandled
  <2>2. QueueTypes' /\ QueueOK' /\ NoIdleBacklog' /\ busy' \in BOOLEAN
    <3>1. CASE Drain(drainRun, FALSE, cycle) BY <1>2, <2>1, <3>1, DrainKeeps DEF lifeVars
    <3>2. CASE UNCHANGED <<queueVars, busy>>
      <4>1. QueueTypes' /\ QueueOK'
        BY <2>1, <3>2, StaysQueue DEF QueueTypes, queueVars, lifeVars
      <4>2. NoIdleBacklog' BY <2>1, <3>2 DEF NoIdleBacklog, AgentBusy, draining, lifeVars, queueVars
      <4> QED BY <1>2, <3>2, <4>1, <4>2
    <3> QED BY <1>5, <3>1, <3>2 DEF PollHandled
  <2>3. OtherTypes' BY <2>1, <2>2 DEF OtherTypes, pollVars, lifeVars
  <2>4. Resting' /\ BatchFollows' /\ ReceivedIsPast'
    BY <2>1 DEF Resting, BatchFollows, ReceivedIsPast, pollVars, lifeVars
  <2> QED BY <2>2, <2>3, <2>4
<1>6. CASE DrainHandled \/ DrainTick \/ CycleEnds \/ \E c \in Chats : ChatEnds(c)
  <2>1. /\ phase # "down" /\ chatting' \subseteq chatting /\ cycle' \in BOOLEAN
        /\ UNCHANGED <<kind, pollVars, pollRun, lifeVars, received, rejected>>
    BY <1>2, <1>6 DEF DrainHandled, DrainTick, CycleEnds, ChatEnds, running
  <2>2. PICK run \in Ids \cup {None}, b \in BOOLEAN, c \in BOOLEAN : Drain(run, b, c) /\ (c => cycle')
    <3>1. CASE DrainHandled
      BY <1>2, <3>1 DEF DrainHandled
    <3>2. CASE DrainTick BY <1>2, <3>2 DEF DrainTick
    <3>3. CASE CycleEnds BY <1>2, <3>3 DEF CycleEnds
    <3>4. CASE \E c \in Chats : ChatEnds(c)
      <4>1. Drain(drainRun, FALSE, cycle) /\ cycle' = cycle BY <3>4 DEF ChatEnds
      <4> QED BY <1>2, <4>1
    <3> QED BY <1>6, <3>1, <3>2, <3>3, <3>4
  <2>3. QueueTypes' /\ QueueOK' /\ NoIdleBacklog' /\ busy' \in BOOLEAN
    BY <2>1, <2>2, DrainKeeps DEF lifeVars
  <2>4. OtherTypes' BY <2>1, <2>3 DEF OtherTypes, pollVars, lifeVars
  <2>5. Resting' /\ BatchFollows' /\ ReceivedIsPast'
    BY <2>1 DEF Resting, BatchFollows, ReceivedIsPast, pollVars, lifeVars
  <2> QED BY <2>3, <2>4, <2>5
<1>7. CASE CycleStarts \/ \E c \in Chats : ChatStarts(c)
  <2>1. /\ phase # "down" /\ chatting' \subseteq Chats
        /\ busy' \in BOOLEAN /\ cycle' \in BOOLEAN /\ (AgentBusy => AgentBusy')
        /\ UNCHANGED <<kind, pollVars, pollRun, queueVars, lifeVars, received, rejected>>
    BY <1>2, <1>7 DEF CycleStarts, ChatStarts, running, AgentBusy, OtherTypes
  <2>2. QueueTypes' /\ QueueOK' BY <2>1, StaysQueue DEF QueueTypes, queueVars, lifeVars
  <2>3. OtherTypes' BY <2>1 DEF OtherTypes, pollVars, lifeVars
  <2>4. Resting' /\ BatchFollows' /\ ReceivedIsPast' /\ NoIdleBacklog'
    BY <2>1 DEF Resting, BatchFollows, ReceivedIsPast, NoIdleBacklog, draining, pollVars, queueVars,
                lifeVars
  <2> QED BY <2>2, <2>3, <2>4
<1>8. CASE StopCommand \/ Signal
  <2>1. PICK by \in Ids \cup {None} : Shutdown(by)
    BY <1>8 DEF StopCommand, Signal, Stops, QueueTypes, OtherTypes
  <2>2. QueueOK' BY <2>1, ShutdownQueue
  <2>3. QueueTypes'
    <3>1. queue' \in Seq(Ids) /\ Len(queue') <= MaxQueue /\ diskQueue' \in Seq(Ids)
      BY <2>1, CommandAssumption DEF Shutdown
    <3>2. due' \in [Ids -> Int] BY <2>1 DEF Shutdown
    <3> QED BY <2>1, <3>1, <3>2 DEF Shutdown, QueueTypes
  <2>4. OtherTypes' BY <2>1 DEF Shutdown, OtherTypes, pollVars
  <2>5. Resting' /\ BatchFollows' /\ ReceivedIsPast' /\ NoIdleBacklog'
    BY <2>1 DEF Shutdown, Resting, BatchFollows, ReceivedIsPast, NoIdleBacklog, pollVars
  <2> QED BY <2>2, <2>3, <2>4, <2>5
<1>9. CASE Exit \/ Crash
  <2>1. Dies BY <1>9 DEF Exit, Crash
  <2>2. QueueOK' BY <2>1, DiesQueue
  <2>3. QueueTypes' BY <2>1, CommandAssumption DEF Dies, QueueTypes
  <2>4. OtherTypes'
    <3>1. 1 \in 1..(MaxUpdate + 1) BY CommandAssumption
    <3>2. batch' \in Seq(Ids) BY <2>1 DEF Dies
    <3> QED BY <2>1, <3>1, <3>2 DEF Dies, OtherTypes
  <2>5. Resting' /\ BatchFollows' /\ ReceivedIsPast' /\ NoIdleBacklog'
    BY <2>1 DEF Dies, Resting, BatchFollows, ReceivedIsPast, NoIdleBacklog
  <2> QED BY <2>2, <2>3, <2>4, <2>5
<1>10. CASE Restart
  <2>1. QueueTypes' /\ QueueOK' BY <1>10, RestartQueue
  <2>2. life' \in 1..MaxLives
    BY <1>10, CommandAssumption DEF Restart, OtherTypes
  <2>3. OtherTypes' BY <1>10, <2>2 DEF Restart, OtherTypes, pollVars
  <2>4. Resting' /\ BatchFollows' /\ ReceivedIsPast' /\ NoIdleBacklog'
    BY <1>10 DEF Restart, Resting, BatchFollows, ReceivedIsPast, NoIdleBacklog, pollVars
  <2> QED BY <2>1, <2>3, <2>4
<1>11. CASE Boot
  <2>1. /\ phase = "booting" /\ phase' = "up" /\ pollPc' = "fetch" /\ offset' = savedOffset
        /\ Drain(drainRun, busy, cycle) /\ cycle' = TRUE
        /\ UNCHANGED <<kind, stopper, batch, savedOffset, pollRun, chatting, life, received, rejected>>
    BY <1>11 DEF Boot
  <2>2. QueueTypes' /\ QueueOK' /\ NoIdleBacklog' /\ busy' \in BOOLEAN
    BY <1>2, <2>1, DrainKeeps DEF running
  <2>3. OtherTypes' BY <2>1, <2>2 DEF OtherTypes
  <2>4. batch' = <<>> /\ received' = {} BY <2>1 DEF Resting
  <2>5. Resting' /\ BatchFollows' /\ ReceivedIsPast'
    BY <2>1, <2>4 DEF Resting, BatchFollows, ReceivedIsPast
  <2> QED BY <2>2, <2>3, <2>5
<1>12. CASE UNCHANGED vars
  <2>1. QueueTypes' /\ QueueOK' BY <1>12, StaysQueue DEF vars, QueueTypes, queueVars, lifeVars
  <2>2. OtherTypes' BY <1>12 DEF vars, OtherTypes, pollVars, queueVars, lifeVars
  <2>3. Resting' /\ BatchFollows' /\ ReceivedIsPast' /\ NoIdleBacklog'
    BY <1>12 DEF vars, Resting, BatchFollows, ReceivedIsPast, NoIdleBacklog, AgentBusy, draining,
                 pollVars, queueVars, lifeVars
  <2> QED BY <2>1, <2>2, <2>3
<1> QED
  BY <1>3, <1>4, <1>5, <1>6, <1>7, <1>8, <1>9, <1>10, <1>11, <1>12 DEF Next, Handlers


LEMMA InvHolds == Spec => []Inv
<1>1. Init => Inv BY InitInv
<1>2. Inv /\ [Next]_vars => Inv' BY NextInv
<1> QED BY <1>1, <1>2, PTL DEF Spec

-----------------------------------------------------------------------------
(* What the invariant is for.                                              *)

(* What an operator's messages owe to restarts: of what an earlier life was *)
(* given only read-only messages are executed, and however many crashes     *)
(* come, none more often than it was delivered; nothing mutating runs twice *)
(* in one life, and a stop leaves nothing for the next.                     *)
THEOREM RestartsAreSafe == Spec => []RestartIsSafe
<1>1. Inv => RestartIsSafe
  <2>1. SUFFICES ASSUME Inv PROVE RestartIsSafe OBVIOUS
  <2>2. RestoredAreSafe /\ StopLeavesNoBacklog BY <2>1 DEF Inv, QueueOK
  <2>3. ActsOncePerLife BY <2>1 DEF Inv, QueueOK, Once, ActsOncePerLife
  <2>4. ExecutedAsDelivered
    <3>1. SUFFICES ASSUME NEW id \in Ids PROVE due[id] >= 0 BY DEF ExecutedAsDelivered
    <3>2. Copies(diskQueue, id) <= due[id] BY <2>1 DEF Inv, QueueOK, DueCovers
    <3>3. Copies(diskQueue, id) \in Nat BY <2>1, PlacesFinite DEF Inv, QueueTypes
    <3>4. due[id] \in Int BY <2>1 DEF Inv, QueueTypes
    <3> QED BY <3>2, <3>3, <3>4
  <2> QED BY <2>2, <2>3, <2>4 DEF RestartIsSafe
<1> QED BY <1>1, InvHolds, PTL

(* Messages that waited are taken oldest first, a /stop before all others,  *)
(* in the first life.                                                      *)
THEOREM OldestAreFirst == Spec => OldestFirst
<1>1. ASSUME Inv, [Next]_vars, life = 1, drainRun' # drainRun, drainRun' # None,
             kind[drainRun'] # "stop", NEW id \in ToSet(queue')
      PROVE  id > drainRun' /\ kind[id] # "stop"
  <2>1. Takes
    <3>1. \A run, b, c : Drain(run, b, c) => Takes \/ drainRun' = run BY DrainEither
    <3>2. \/ drainRun' = drainRun \/ drainRun' = None
          \/ \E run \in {drainRun, None} : \E b, c : Drain(run, b, c)
      BY <1>1
      DEF Next, Handlers, Fetch, PollNext, PollSaves, PollHandled, DrainHandled, ChatStarts, ChatEnds,
          DrainTick, CycleStarts, CycleEnds, StopCommand, Signal, Shutdown, Exit, Crash, Dies, Restart,
          Boot, vars, queueVars
    <3> QED BY <1>1, <3>1, <3>2
  <2>2. /\ NextIndex = 1 /\ 1 \in 1..Len(queue) /\ drainRun' = queue[1]
        /\ queue' = RemoveAt(queue, 1) /\ queue \in Seq(Ids)
        /\ \A e \in ToSet(queue) : kind[e] # "stop"
    BY <1>1, <2>1, NextIndexIn DEF Inv, QueueTypes, Takes, Rest
  <2>3. Increasing(queue) BY <1>1 DEF Inv, QueueOK, FirstInOrder
  <2>4. drainRun' < id BY <1>1, <2>2, <2>3, RestIncreases, IdsAreNumbers
  <2>5. id \in ToSet(queue) /\ id \in Int /\ drainRun' \in Int
    <3>1. id \in ToSet(queue) BY <1>1, <2>2, RemoveAtFacts
    <3>2. \A e \in ToSet(queue) : e \in Ids BY <2>2 DEF ToSet
    <3>3. queue[1] \in Ids BY <2>2
    <3>4. \A e \in Ids : e \in Int BY DEF Ids
    <3> QED BY <2>2, <3>1, <3>2, <3>3, <3>4
  <2> QED BY <2>2, <2>4, <2>5
<1>2. Inv /\ [Next]_vars =>
        [life = 1 /\ drainRun' # drainRun /\ drainRun' # None /\ kind[drainRun'] # "stop" =>
           \A id \in ToSet(queue') : id > drainRun' /\ kind[id] # "stop"]_vars
  BY <1>1
<1> QED BY <1>2, InvHolds, PTL DEF Spec, OldestFirst


-----------------------------------------------------------------------------
(* Without desktop chats, what the handlers p and d (of polling and of the  *)
(* drain) and the chats cs are doing is at most one session, under the flag *)
(* b; the one that lowers the flag was the only one.                       *)
IsChat(k, r) == r # None /\ k[r] = "chat"

Alone(k, p, d, cs, b) ==
  /\ IsChat(k, p) \/ IsChat(k, d) \/ cs # {} => b
  /\ ~(IsChat(k, p) /\ IsChat(k, d))
  /\ cs # {} => ~IsChat(k, p) /\ ~IsChat(k, d)
  /\ \A c, e \in cs : c = e

SessionsAlone == Alone(kind, pollRun, drainRun, chatting, busy)

LEMMA DrainAlone ==
  ASSUME NEW run, NEW b \in BOOLEAN, NEW c, Drain(run, b, c), kind' = kind,
         Alone(kind, pollRun', run, chatting', b)
  PROVE  SessionsAlone'
<1>1. CASE Takes /\ run = None /\ ~b /\ busy' = (kind[drainRun'] = "chat")
  <2>1. ~IsChat(kind, pollRun') /\ chatting' = {} BY <1>1 DEF Alone
  <2>2. IsChat(kind, drainRun') => busy' BY <1>1 DEF IsChat
  <2> QED BY <2>1, <2>2 DEF SessionsAlone, Alone
<1>2. CASE drainRun' = run /\ busy' = b BY <1>2 DEF SessionsAlone
<1> QED BY <1>1, <1>2, DrainEither

LEMMA AloneStep ==
  ASSUME ~Desktop, Inv, SessionsAlone, [Next]_vars
  PROVE  SessionsAlone'
<1>1. /\ drainRun \in Ids \cup {None} /\ busy \in BOOLEAN /\ cycle \in BOOLEAN
      /\ SessionsAlone <=> Alone(kind, pollRun, drainRun, chatting, busy)
  BY DEF Inv, QueueTypes, OtherTypes, SessionsAlone
<1>2. CASE PollNext
  <2>1. kind' = kind /\ drainRun' = drainRun /\ chatting' = chatting /\ pollRun = None
    BY <1>2 DEF PollNext, queueVars
  <2>2. \/ pollRun' = pollRun /\ busy' = busy
        \/ /\ AgentBusy => kind[pollRun'] = "menu"
           /\ busy' = (busy \/ kind[pollRun'] = "chat")
    BY <1>2 DEF PollNext
  <2>3. CASE pollRun' = pollRun /\ busy' = busy BY <2>1, <2>3 DEF SessionsAlone
  <2>4. CASE /\ AgentBusy => kind[pollRun'] = "menu"
             /\ busy' = (busy \/ kind[pollRun'] = "chat")
    <3>1. CASE busy
      <4>1. ~IsChat(kind, pollRun') /\ busy' BY <2>4, <3>1 DEF AgentBusy, IsChat
      <4> QED BY <2>1, <4>1 DEF SessionsAlone, Alone
    <3>2. CASE ~busy
      <4>1. ~IsChat(kind, drainRun) /\ chatting = {} BY <3>2 DEF SessionsAlone, Alone
      <4>2. IsChat(kind, pollRun') => busy' BY <2>4 DEF IsChat
      <4> QED BY <2>1, <4>1, <4>2 DEF SessionsAlone, Alone
    <3> QED BY <3>1, <3>2
  <2> QED BY <2>2, <2>3, <2>4
<1>3. CASE PollHandled
  <2>1. kind' = kind /\ pollRun' = None /\ pollRun # None /\ chatting' = chatting
    BY <1>3 DEF PollHandled
  <2>2. ~IsChat(kind, pollRun') BY <2>1 DEF IsChat
  <2>3. CASE kind[pollRun] = "chat"
    <3>1. IsChat(kind, pollRun) BY <2>1, <2>3 DEF IsChat
    <3>2. ~IsChat(kind, drainRun) /\ chatting = {} BY <3>1 DEF SessionsAlone, Alone
    <3>3. Alone(kind, pollRun', drainRun, chatting', FALSE) BY <2>1, <2>2, <3>2 DEF Alone
    <3>4. Drain(drainRun, FALSE, cycle) BY <1>3, <2>3 DEF PollHandled
    <3> QED BY <2>1, <3>3, <3>4, DrainAlone
  <2>4. CASE kind[pollRun] # "chat"
    <3>1. drainRun' = drainRun /\ busy' = busy BY <1>3, <2>4 DEF PollHandled, queueVars
    <3> QED BY <2>1, <2>2, <3>1 DEF SessionsAlone, Alone
  <2> QED BY <2>3, <2>4
<1>4. CASE DrainHandled
  <2>1. /\ kind' = kind /\ pollRun' = pollRun /\ chatting' = chatting /\ drainRun # None
        /\ Drain(None, IF kind[drainRun] = "chat" THEN FALSE ELSE busy, cycle)
    BY <1>4 DEF DrainHandled, draining
  <2>2. ~IsChat(kind, None) BY DEF IsChat
  <2>3. CASE kind[drainRun] = "chat"
    <3>1. IsChat(kind, drainRun) BY <2>1, <2>3 DEF IsChat
    <3>2. ~IsChat(kind, pollRun) /\ chatting = {} BY <3>1 DEF SessionsAlone, Alone
    <3>3. Alone(kind, pollRun', None, chatting', FALSE) BY <2>1, <2>2, <3>2 DEF Alone
    <3>4. Drain(None, FALSE, cycle) BY <2>1, <2>3
    <3> QED BY <2>1, <3>3, <3>4, DrainAlone
  <2>4. CASE kind[drainRun] # "chat"
    <3>1. Alone(kind, pollRun', None, chatting', busy) BY <2>1, <2>2 DEF SessionsAlone, Alone
    <3>2. Drain(None, busy, cycle) BY <2>1, <2>4
    <3> QED BY <1>1, <2>1, <3>1, <3>2, DrainAlone
  <2> QED BY <2>3, <2>4
<1>5. CASE \E c \in Chats : ChatStarts(c)
  <2>1. PICK c \in Chats : ChatStarts(c) BY <1>5
  <2>2. ~busy BY <2>1 DEF ChatStarts, AgentBusy
  <2>3. ~IsChat(kind, pollRun) /\ ~IsChat(kind, drainRun) /\ chatting = {}
    BY <2>2 DEF SessionsAlone, Alone
  <2>4. kind' = kind /\ pollRun' = pollRun /\ drainRun' = drainRun /\ chatting' = {c} /\ busy'
    BY <2>1, <2>3 DEF ChatStarts, queueVars
  <2> QED BY <2>3, <2>4 DEF SessionsAlone, Alone
<1>6. CASE \E c \in Chats : ChatEnds(c)
  <2>1. PICK c \in Chats : ChatEnds(c) BY <1>6
  <2>2. kind' = kind /\ pollRun' = pollRun /\ c \in chatting /\ chatting' = chatting \ {c}
    BY <2>1 DEF ChatEnds
  <2>3. ~IsChat(kind, pollRun) /\ ~IsChat(kind, drainRun) /\ chatting' = {}
    BY <2>2 DEF SessionsAlone, Alone
  <2>4. Alone(kind, pollRun', drainRun, chatting', FALSE) BY <2>2, <2>3 DEF Alone
  <2>5. Drain(drainRun, FALSE, cycle) BY <2>1 DEF ChatEnds
  <2> QED BY <2>2, <2>4, <2>5, DrainAlone
<1>7. CASE DrainTick \/ CycleEnds \/ Boot
  <2>1. kind' = kind /\ pollRun' = pollRun /\ chatting' = chatting
    BY <1>7 DEF DrainTick, CycleEnds, Boot
  <2>2. Drain(drainRun, busy, cycle) \/ Drain(drainRun, busy, FALSE)
    BY <1>7 DEF DrainTick, CycleEnds, Boot
  <2> QED BY <1>1, <2>1, <2>2, DrainAlone
<1>8. CASE Exit \/ Crash
  <2>1. pollRun' = None /\ drainRun' = None /\ chatting' = {} BY <1>8 DEF Exit, Crash, Dies
  <2> QED BY <2>1 DEF SessionsAlone, Alone, IsChat
<1>9. CASE Fetch \/ PollSaves \/ CycleStarts \/ StopCommand \/ Signal \/ Restart \/ UNCHANGED vars
  <2>1. UNCHANGED <<kind, pollRun, drainRun, chatting, busy>>
    BY <1>9 DEF Fetch, PollSaves, CycleStarts, StopCommand, Signal, Shutdown, Restart, vars, queueVars
  <2> QED BY <2>1 DEF SessionsAlone
<1> QED BY <1>2, <1>3, <1>4, <1>5, <1>6, <1>7, <1>8, <1>9 DEF Next, Handlers

(* What the queue of a running daemon owes, without desktop chats: nothing  *)
(* is forgotten, nothing waits that will not be kicked, and the sessions    *)
(* that share a history hold the busy flag.                                *)
THEOREM QueueKept == ASSUME ~Desktop PROVE Spec => []QueueIsKept
<1>1. Init => SessionsAlone BY DEF Init, SessionsAlone, Alone, IsChat
<1>2. Inv /\ SessionsAlone /\ [Next]_vars => SessionsAlone' BY AloneStep
<1>3. Inv /\ SessionsAlone => QueueIsKept
  <2>1. SUFFICES ASSUME Inv, SessionsAlone PROVE QueueIsKept OBVIOUS
  <2>2. TypeOK BY <2>1, TypesOfAll DEF Inv
  <2>3. NoIdleBacklog /\ NothingForgotten BY <2>1 DEF Inv, QueueOK
  <2>4. ChatsHoldBusy
    BY <2>1 DEF ChatsHoldBusy, Sessions, SessionsAlone, Alone, IsChat
  <2> QED BY <2>2, <2>3, <2>4 DEF QueueIsKept
<1> QED BY <1>1, <1>2, <1>3, InvHolds, PTL DEF Spec

(* With them too, all but the flag. *)
THEOREM BacklogKept == Spec => [](TypeOK /\ NoIdleBacklog /\ NothingForgotten)
<1>1. Inv => TypeOK /\ NoIdleBacklog /\ NothingForgotten BY TypesOfAll DEF Inv, QueueOK
<1> QED BY <1>1, InvHolds, PTL
===============================================================================
