---------------------------- MODULE PositionProofs ----------------------------
(***************************************************************************)
(* Proofs about the positions: which of them the program believes to be    *)
(* open (PositionBook), and when it closes one (ExitSignals).              *)
(***************************************************************************)
EXTENDS PositionBook, ExitSignals, WellFoundedInduction, TLAPS

-----------------------------------------------------------------------------
(***************************************************************************)
(* Proofs about module PositionBook, for any positions, looks and reads.   *)
(***************************************************************************)

(* The types of a read and of a job. *)
ReadType == [at : {"none", "asked", "answered"}, shows : SUBSET Positions]
Jobs == [at : Ats, pos : Positions \cup {NoPosition}, tracked : BOOLEAN,
         tries : 0..(Looks - 1), seen : SUBSET Positions]

JobOK(j) == j \in Jobs /\ (j.at # "none" => j.pos \in Positions)

LEMMA TypesOfAll ==
  /\ TypeOK => read \in ReadType /\ JobOK(job)
  /\ TypeOK <=> /\ account \in [Positions -> {"none", "open", "gone"}]
                /\ listed \subseteq Positions /\ pendingRelay \subseteq Positions
                /\ book \in [Positions -> Watched \cup {"absent", "closed"}]
                /\ young \subseteq Positions /\ read \in ReadType /\ JobOK(job)
                /\ performance \in [Positions -> 0..2]
                /\ budget \in 0..Budget /\ misled \subseteq Positions
BY DEF TypeOK, ReadType, Jobs, JobOK

(* Of the reads. *)
LEMMA NoReadType == NoRead \in ReadType /\ NoRead.at = "none" /\ NoRead.shows = {}
BY DEF NoRead, ReadType

LEMMA AskType ==
  ASSUME read \in ReadType, Ask
  PROVE  /\ read' \in ReadType /\ read'.shows \subseteq read.shows
         /\ read'.at = "answered" => read.at = "answered" /\ read' = read
BY DEF Ask, ReadType, NoRead

(* Of the jobs. *)
LEMMA NoJobType ==
  /\ JobOK(NoJob) /\ NoJob.at = "none" /\ NoJob.pos = NoPosition
<1>1. 0 \in 0..(Looks - 1) BY PositionBookAssumption
<1> QED BY <1>1 DEF NoJob, Jobs, JobOK, Ats

LEMMA JobAt ==
  ASSUME NEW j \in Jobs, NEW at \in Ats
  PROVE  /\ [j EXCEPT !.at = at] \in Jobs
         /\ [j EXCEPT !.at = at].at = at /\ [j EXCEPT !.at = at].pos = j.pos
         /\ [j EXCEPT !.at = at].seen = j.seen
<1>1. [j EXCEPT !.at = at] \in Jobs BY Zenon DEF Jobs
<1>2. /\ [j EXCEPT !.at = at].at = at /\ [j EXCEPT !.at = at].pos = j.pos
      /\ [j EXCEPT !.at = at].seen = j.seen
  BY DEF Jobs
<1> QED BY <1>1, <1>2

LEMMA TrackType ==
  ASSUME NEW p \in Positions
  PROVE  /\ JobOK([NoJob EXCEPT !.at = "track", !.pos = p])
         /\ [NoJob EXCEPT !.at = "track", !.pos = p].at = "track"
         /\ [NoJob EXCEPT !.at = "track", !.pos = p].pos = p
<1>1. 0 \in 0..(Looks - 1) BY PositionBookAssumption
<1> QED BY <1>1 DEF NoJob, Jobs, JobOK, Ats

LEMMA BegunType ==
  ASSUME NEW p \in Positions, NEW t \in BOOLEAN
  PROVE  LET j == [NoJob EXCEPT !.at = "ask", !.pos = p, !.tracked = t] IN
         JobOK(j) /\ j.at = "ask" /\ j.pos = p
<1> DEFINE j == [NoJob EXCEPT !.at = "ask", !.pos = p, !.tracked = t]
<1>1. NoJob \in Jobs BY NoJobType DEF JobOK
<1>2. j \in Jobs BY <1>1, Zenon DEF Jobs, Ats
<1>3. j.at = "ask" /\ j.pos = p BY <1>1 DEF Jobs
<1> QED BY <1>2, <1>3 DEF JobOK

LEMMA ClosingType ==
  ASSUME NEW p \in Positions
  PROVE  JobOK(Closing(p, "ask")) /\ Closing(p, "ask").at = "ask" /\ Closing(p, "ask").pos = p
<1>1. (book[p] # "absent") \in BOOLEAN OBVIOUS
<1> QED BY <1>1, BegunType, Zenon DEF Closing

LEMMA LookAgainType ==
  ASSUME NEW j \in Jobs, LooksAgain(j.tries)
  PROVE  /\ [j EXCEPT !.at = "ask", !.tries = @ + 1] \in Jobs
         /\ [j EXCEPT !.at = "ask", !.tries = @ + 1].at = "ask"
         /\ [j EXCEPT !.at = "ask", !.tries = @ + 1].pos = j.pos
<1> DEFINE n == j.tries + 1
<1>1. n \in 0..(Looks - 1)
  <2>1. j.tries \in 0..(Looks - 1) BY DEF Jobs
  <2> QED BY <2>1, PositionBookAssumption DEF LooksAgain
<1> HIDE DEF n
<1>2. [j EXCEPT !.at = "ask", !.tries = n] \in Jobs BY <1>1, Zenon DEF Jobs, Ats
<1>3. [j EXCEPT !.at = "ask", !.tries = n].at = "ask" /\ [j EXCEPT !.at = "ask", !.tries = n].pos = j.pos
  BY DEF Jobs
<1> QED BY <1>2, <1>3 DEF n

LEMMA HandType ==
  ASSUME JobOK(job), NEW shows \in SUBSET Positions, Hand(shows)
  PROVE  /\ JobOK(job') /\ job'.pos = job.pos
         /\ \/ job.at = "look" /\ job'.at = "looked" /\ job'.seen = shows
            \/ job.at # "look" /\ job' = job
<1>1. CASE job.at # "look" BY <1>1 DEF Hand
<1>2. CASE job.at = "look"
  <2>1. job' = [job EXCEPT !.at = "looked", !.seen = shows] BY <1>2 DEF Hand
  <2>2. job' \in Jobs BY <2>1, Zenon DEF Jobs, JobOK, Ats
  <2>3. job'.at = "looked" /\ job'.pos = job.pos /\ job'.seen = shows BY <2>1 DEF Jobs, JobOK
  <2> QED BY <1>2, <2>2, <2>3 DEF JobOK
<1> QED BY <1>1, <1>2


-----------------------------------------------------------------------------
(* What is not on chain yet has left no trace. *)
NoneIsUntouched ==
  \A p \in Positions : account[p] = "none" =>
    /\ book[p] = "absent" /\ performance[p] = 0 /\ p # job.pos
    /\ p \notin listed /\ p \notin pendingRelay /\ p \notin misled /\ p \notin young
    /\ p \notin read.shows

(* The source shows a position, and so does an answer that is on its way. *)
Shown(p) == p \in listed /\ (read.at = "answered" => p \in read.shows)

(* A watched position past its grace period is shown while it is open. *)
WatchedIsShown ==
  \A p \in Positions :
    book[p] \in Watched /\ p \notin young /\ account[p] = "open" /\ p \notin misled => Shown(p)

(* So is one whose close is being looked for. *)
Closes == {"ask", "look", "looked"}

ClosingIsShown ==
  job.at \in Closes /\ account[job.pos] = "open" /\ job.pos \notin misled =>
    Shown(job.pos) /\ (job.at = "looked" => job.pos \in job.seen)

(* What is about to be tracked is open, and no answer has lacked it. *)
TrackedIsOpen ==
  job.at = "track" =>
    /\ account[job.pos] = "open" /\ job.pos \notin pendingRelay
    /\ "omits" \notin BadReads => job.pos \notin misled

(* What was recorded is gone; a close that may be recorded was not yet. *)
RecordedMeansGone ==
  /\ \A p \in Positions : performance[p] # 0 => account[p] = "gone" \/ p \in misled
  /\ job.at \in Closes \cup {"account"} => performance[job.pos] = 0 \/ job.pos \in misled
  /\ job.at = "account" => account[job.pos] = "gone" \/ job.pos \in misled

Inv ==
  /\ TypeOK /\ NoneIsUntouched /\ WatchedIsShown /\ ClosingIsShown /\ TrackedIsOpen
  /\ ClosedMeansGone /\ RecordedMeansGone /\ TradeRecordedOnce

LEMMA InitInv == Init => Inv
<1> SUFFICES ASSUME Init PROVE Inv OBVIOUS
<1> USE NoJobType, NoReadType DEF Init
<1>1. TypeOK
  <2>1. Budget \in 0..Budget BY PositionBookAssumption
  <2> QED BY <2>1, TypesOfAll
<1>2. NoneIsUntouched BY PositionBookAssumption DEF NoneIsUntouched
<1>3. WatchedIsShown BY DEF WatchedIsShown, Watched
<1>4. ClosingIsShown BY DEF ClosingIsShown, Closes
<1>5. TrackedIsOpen BY DEF TrackedIsOpen
<1>6. ClosedMeansGone BY DEF ClosedMeansGone
<1>7. RecordedMeansGone BY DEF RecordedMeansGone, Closes
<1>8. TradeRecordedOnce BY DEF TradeRecordedOnce
<1> QED BY <1>1, <1>2, <1>3, <1>4, <1>5, <1>6, <1>7, <1>8 DEF Inv

(* The steps of a request for the positions. *)
LEMMA AsksInv ==
  ASSUME Inv, Ask, UNCHANGED <<chainVars, bookVars, performance, budget, misled>>,
         JobOK(job'), job'.pos = job.pos,
         job' = job \/ (job.at = "ask" /\ job'.at = "look")
  PROVE  Inv'
<1> USE DEF Inv, chainVars, bookVars
<1>1. /\ read' \in ReadType /\ read'.shows \subseteq read.shows
      /\ read'.at = "answered" => read.at = "answered" /\ read' = read
  BY AskType, TypesOfAll
<1>2. TypeOK'
  BY <1>1, TypesOfAll DEF TypeOK, ReadType, Jobs, JobOK
<1>3. NoneIsUntouched' BY <1>1 DEF NoneIsUntouched
<1>4. WatchedIsShown' BY <1>1 DEF WatchedIsShown, Shown
<1>5. ClosingIsShown' BY <1>1 DEF ClosingIsShown, Closes, Shown
<1>6. TrackedIsOpen' BY DEF TrackedIsOpen
<1>7. ClosedMeansGone' BY DEF ClosedMeansGone
<1>8. RecordedMeansGone' BY DEF RecordedMeansGone, Closes
<1>9. TradeRecordedOnce' BY DEF TradeRecordedOnce
<1> QED BY <1>2, <1>3, <1>4, <1>5, <1>6, <1>7, <1>8, <1>9

LEMMA AnswerInv == Inv /\ Answer => Inv'
<1> SUFFICES ASSUME Inv, Answer PROVE Inv' OBVIOUS
<1> USE DEF Inv, Answer, chainVars, bookVars, Open
<1>1. PICK lost \in SUBSET listed :
        /\ read' = [at |-> "answered", shows |-> listed \ lost]
        /\ misled' = misled \cup (lost \cap Open)
        /\ "omits" \notin BadReads => lost = {}
  OBVIOUS
<1>2. read'.at = "answered" /\ read'.shows = listed \ lost BY <1>1
<1>3. TypeOK'
  <2>1. read' \in ReadType BY <1>1 DEF ReadType, TypeOK
  <2> QED BY <1>1, <2>1 DEF TypeOK, ReadType
<1>4. NoneIsUntouched' BY <1>1, <1>2 DEF NoneIsUntouched
<1>5. WatchedIsShown' BY <1>1, <1>2 DEF WatchedIsShown, Shown
<1>6. ClosingIsShown' BY <1>1, <1>2, TypesOfAll DEF ClosingIsShown, Closes, Shown, JobOK
<1>7. TrackedIsOpen' BY <1>1 DEF TrackedIsOpen
<1>8. ClosedMeansGone' BY <1>1 DEF ClosedMeansGone
<1>9. RecordedMeansGone' BY <1>1 DEF RecordedMeansGone, Closes
<1>10. TradeRecordedOnce' BY <1>1 DEF TradeRecordedOnce
<1> QED BY <1>3, <1>4, <1>5, <1>6, <1>7, <1>8, <1>9, <1>10

LEMMA ReadDoneInv == Inv /\ ReadDone => Inv'
<1> SUFFICES ASSUME Inv, ReadDone PROVE Inv' OBVIOUS
<1> USE DEF Inv, ReadDone, chainVars, Sync, Merge, Missing, Unknown
<1>1. read' = NoRead /\ read'.at = "none" /\ read'.shows = {} BY NoReadType
<1>2. read.shows \subseteq Positions /\ JobOK(job) BY TypesOfAll DEF ReadType
<1>3. /\ JobOK(job') /\ job'.pos = job.pos
      /\ \/ job.at = "look" /\ job'.at = "looked" /\ job'.seen = read.shows
         \/ job.at # "look" /\ job' = job
  BY <1>2, HandType
<1>4. TypeOK'
  <2>1. book' \in [Positions -> Watched \cup {"absent", "closed"}] /\ young' \subseteq Positions
    BY <1>2 DEF TypeOK, Watched
  <2>2. read' \in ReadType BY NoReadType
  <2> QED BY <1>3, <2>1, <2>2 DEF TypeOK, ReadType, JobOK, Jobs
<1>5. NoneIsUntouched' BY <1>1, <1>2, <1>3 DEF NoneIsUntouched, TypeOK, Watched
<1>6. WatchedIsShown' BY <1>1, <1>2 DEF WatchedIsShown, Shown, TypeOK, Watched
<1>7. ClosingIsShown' BY <1>1, <1>2, <1>3 DEF ClosingIsShown, Closes, Shown
<1>8. TrackedIsOpen' BY <1>3 DEF TrackedIsOpen
<1>9. ClosedMeansGone' BY <1>2 DEF ClosedMeansGone, WatchedIsShown, Shown, TypeOK
<1>10. RecordedMeansGone' BY <1>3 DEF RecordedMeansGone, Closes
<1>11. TradeRecordedOnce' BY DEF TradeRecordedOnce
<1> QED BY <1>4, <1>5, <1>6, <1>7, <1>8, <1>9, <1>10, <1>11

LEMMA ReadFailsInv == Inv /\ ReadFails => Inv'
<1> SUFFICES ASSUME Inv, ReadFails PROVE Inv' OBVIOUS
<1> USE DEF Inv, ReadFails, chainVars, bookVars, Open
<1>1. read' = NoRead /\ read'.at = "none" /\ read'.shows = {} BY NoReadType
<1>2. JobOK(job) BY TypesOfAll
<1>3. /\ JobOK(job') /\ job'.pos = job.pos
      /\ \/ job.at = "look" /\ job'.at = "looked" /\ job'.seen = {}
         \/ job.at # "look" /\ job' = job
  BY <1>2, HandType
<1>4. /\ misled \subseteq misled'
      /\ \A p \in misled' \ misled : job.at = "look" /\ p = job.pos /\ p \in Positions
                                     /\ account[p] = "open"
      /\ job.at = "look" /\ account[job.pos] = "open" => job.pos \in misled'
  BY <1>2 DEF JobOK
<1>5. TypeOK'
  <2>1. read' \in ReadType /\ misled' \subseteq Positions BY NoReadType, <1>4 DEF TypeOK
  <2> QED BY <1>3, <2>1 DEF TypeOK, ReadType, JobOK, Jobs
<1>6. NoneIsUntouched' BY <1>1, <1>3, <1>4 DEF NoneIsUntouched
<1>7. WatchedIsShown' BY <1>1, <1>4 DEF WatchedIsShown, Shown
<1>8. ClosingIsShown' BY <1>1, <1>3, <1>4 DEF ClosingIsShown, Closes, Shown
<1>9. TrackedIsOpen' BY <1>3, <1>4 DEF TrackedIsOpen
<1>10. ClosedMeansGone' BY <1>4 DEF ClosedMeansGone
<1>11. RecordedMeansGone' BY <1>3, <1>4 DEF RecordedMeansGone, Closes
<1>12. TradeRecordedOnce' BY <1>4 DEF TradeRecordedOnce
<1> QED BY <1>5, <1>6, <1>7, <1>8, <1>9, <1>10, <1>11, <1>12


LEMMA JobAsksInv == Inv /\ JobAsks => Inv'
<1> SUFFICES ASSUME Inv, JobAsks PROVE Inv' OBVIOUS
<1>1. JobOK(job) BY TypesOfAll DEF Inv
<1>2. "look" \in Ats BY DEF Ats
<1>3. job' \in Jobs /\ job'.at = "look" /\ job'.pos = job.pos
  BY <1>1, <1>2, JobAt DEF JobAsks, JobOK
<1>4. JobOK(job') BY <1>1, <1>3 DEF JobOK, JobAsks
<1> QED BY <1>3, <1>4, AsksInv DEF JobAsks

(* Steps of tools. *)
LEMMA DeployLandsInv == ASSUME Inv, NEW p \in Positions, DeployLands(p) PROVE Inv'
<1> USE DEF Inv, DeployLands, bookVars
<1>1. account' = [account EXCEPT ![p] = "open"] /\ account[p] = "none" OBVIOUS
<1>2. account \in [Positions -> {"none", "open", "gone"}] BY TypesOfAll
<1>3. account'[p] = "open" /\ \A q \in Positions : q # p => account'[q] = account[q]
  BY <1>1, <1>2
<1>4. /\ JobOK(job')
      /\ \/ job'.at = "track" /\ job'.pos = p
         \/ job'.at = "none" /\ job'.pos = NoPosition
  <2>1. CASE job' = NoJob BY <2>1, NoJobType
  <2>2. CASE job' = [NoJob EXCEPT !.at = "track", !.pos = p]
    <3> DEFINE j == [NoJob EXCEPT !.at = "track", !.pos = p]
    <3>1. JobOK(j) /\ j.at = "track" /\ j.pos = p BY TrackType
    <3> HIDE DEF j
    <3> QED BY <2>2, <3>1 DEF j
  <2> QED BY <2>1, <2>2
<1>5. /\ book[p] = "absent" /\ performance[p] = 0 /\ p \notin listed /\ p \notin pendingRelay
      /\ p \notin misled /\ p \notin young
  BY <1>1 DEF NoneIsUntouched
<1>6. TypeOK' BY <1>1, <1>2, <1>4, TypesOfAll DEF TypeOK, JobOK, Jobs
<1>7. NoneIsUntouched' BY <1>3, <1>4, PositionBookAssumption DEF NoneIsUntouched
<1>8. WatchedIsShown' BY <1>3, <1>5 DEF WatchedIsShown, Shown, Watched
<1>9. ClosingIsShown' BY <1>4 DEF ClosingIsShown, Closes
<1>10. TrackedIsOpen' BY <1>3, <1>4, <1>5 DEF TrackedIsOpen
<1>11. ClosedMeansGone' BY <1>3, <1>5 DEF ClosedMeansGone
<1>12. RecordedMeansGone' BY <1>3, <1>4, <1>5 DEF RecordedMeansGone, Closes
<1>13. TradeRecordedOnce' BY DEF TradeRecordedOnce
<1> QED BY <1>6, <1>7, <1>8, <1>9, <1>10, <1>11, <1>12, <1>13

LEMMA DeployTracksInv == Inv /\ DeployTracks => Inv'
<1> SUFFICES ASSUME Inv, DeployTracks PROVE Inv' OBVIOUS
<1> USE DEF Inv, DeployTracks, chainVars, Track
<1>1. JobOK(job) /\ job.pos \in Positions BY TypesOfAll DEF JobOK
<1>2. JobOK(job') /\ job'.at = "none" /\ job'.pos = NoPosition BY NoJobType
<1>3. book \in [Positions -> Watched \cup {"absent", "closed"}] BY TypesOfAll
<1>4. /\ book'[job.pos] = "deployed" /\ \A q \in Positions : q # job.pos => book'[q] = book[q]
      /\ young' = young \cup {job.pos}
  BY <1>1, <1>3
<1>5. account[job.pos] = "open" BY DEF TrackedIsOpen
<1>6. TypeOK'
  <2>1. book' \in [Positions -> Watched \cup {"absent", "closed"}] BY <1>3 DEF Watched
  <2> QED BY <1>1, <1>2, <2>1, TypesOfAll DEF TypeOK, JobOK, Jobs
<1>7. NoneIsUntouched' BY <1>2, <1>4, <1>5, PositionBookAssumption DEF NoneIsUntouched
<1>8. WatchedIsShown' BY <1>4 DEF WatchedIsShown, Shown
<1>9. ClosingIsShown' BY <1>2 DEF ClosingIsShown, Closes
<1>10. TrackedIsOpen' BY <1>2 DEF TrackedIsOpen
<1>11. ClosedMeansGone' BY <1>4 DEF ClosedMeansGone
<1>12. RecordedMeansGone' BY <1>2 DEF RecordedMeansGone, Closes
<1>13. TradeRecordedOnce' BY DEF TradeRecordedOnce
<1> QED BY <1>6, <1>7, <1>8, <1>9, <1>10, <1>11, <1>12, <1>13

(* A close begins for a position that is open; what is shown was. *)
LEMMA CloseBeginsInv ==
  ASSUME Inv, NEW p \in Positions, job = NoJob, CloseByRelay(p) \/ CloseBySelf(p),
         UNCHANGED <<listed, read, performance, budget, misled>>
  PROVE  Inv'
<1> USE DEF Inv, CloseByRelay, CloseBySelf, bookVars
<1>1. account[p] = "open" /\ account \in [Positions -> {"none", "open", "gone"}] BY TypesOfAll
<1>2. /\ JobOK(job')
      /\ \/ job'.at = "ask" /\ job'.pos = p
         \/ job'.at = "none" /\ job'.pos = NoPosition
  <2>1. CASE job' = NoJob BY <2>1, NoJobType
  <2>2. CASE job' = Closing(p, "ask") BY <2>2, ClosingType
  <2> QED BY <2>1, <2>2
<1>3. \/ account' = account /\ pendingRelay' = pendingRelay \cup {p} /\ Shown(p)
      \/ account' = [account EXCEPT ![p] = "gone"] /\ pendingRelay' = pendingRelay
  BY DEF Shown
<1>4. /\ account'[p] \in {"open", "gone"} /\ \A q \in Positions : q # p => account'[q] = account[q]
      /\ account'[p] = "open" => Shown(p)
      /\ account' \in [Positions -> {"none", "open", "gone"}]
  BY <1>1, <1>3
<1>5. pendingRelay' \subseteq pendingRelay \cup {p} /\ UNCHANGED <<book, young>> BY <1>3
<1>6. TypeOK' BY <1>2, <1>4, <1>5, TypesOfAll DEF TypeOK, JobOK, Jobs
<1>7. NoneIsUntouched' BY <1>2, <1>4, <1>5, PositionBookAssumption DEF NoneIsUntouched
<1>8. WatchedIsShown' BY <1>1, <1>4, <1>5 DEF WatchedIsShown, Shown
<1>9. ClosingIsShown' BY <1>2, <1>4 DEF ClosingIsShown, Closes, Shown
<1>10. TrackedIsOpen' BY <1>2 DEF TrackedIsOpen
<1>11. ClosedMeansGone' BY <1>1, <1>4, <1>5 DEF ClosedMeansGone
<1>12. RecordedMeansGone'
  <2>1. performance[p] = 0 \/ p \in misled BY <1>1 DEF RecordedMeansGone
  <2>2. \A q \in Positions : account[q] = "gone" => account'[q] = "gone" BY <1>1, <1>4
  <2> QED BY <1>2, <2>1, <2>2 DEF RecordedMeansGone, Closes
<1>13. TradeRecordedOnce' BY DEF TradeRecordedOnce
<1> QED BY <1>6, <1>7, <1>8, <1>9, <1>10, <1>11, <1>12, <1>13

(* recordClose for a position that is gone, or wrongly shown as gone. *)
LEMMA RecordCloseInv ==
  ASSUME Inv, NEW p \in Positions, RecordClose(p), account[p] = "gone" \/ p \in misled,
         UNCHANGED <<chainVars, read, performance, budget, misled>>,
         JobOK(job'), job'.pos \in {job.pos, NoPosition},
         job'.at = "none" \/ (job' = job /\ job.at = "none")
           \/ (job'.at = "account" /\ job.at \in Closes /\ job'.pos = p /\ job.pos = p)
  PROVE  Inv'
<1> USE DEF Inv, chainVars, RecordClose
<1>1. book \in [Positions -> Watched \cup {"absent", "closed"}] BY TypesOfAll
<1>2. /\ book'[p] \in {"absent", "closed"} /\ (book[p] = "absent" => book'[p] = "absent")
      /\ \A q \in Positions : q # p => book'[q] = book[q]
      /\ young' = young \ {p}
  BY <1>1
<1>3. TypeOK'
  <2>1. book' \in [Positions -> Watched \cup {"absent", "closed"}] BY <1>1
  <2> QED BY <2>1, TypesOfAll DEF TypeOK, JobOK, Jobs
<1>4. NoneIsUntouched' BY <1>2, PositionBookAssumption DEF NoneIsUntouched
<1>5. WatchedIsShown' BY <1>2 DEF WatchedIsShown, Shown, Watched
<1>6. ClosingIsShown' BY DEF ClosingIsShown, Closes
<1>7. TrackedIsOpen' BY DEF TrackedIsOpen
<1>8. ClosedMeansGone' BY <1>2 DEF ClosedMeansGone
<1>9. RecordedMeansGone' BY DEF RecordedMeansGone, Closes
<1>10. TradeRecordedOnce' BY DEF TradeRecordedOnce
<1> QED BY <1>3, <1>4, <1>5, <1>6, <1>7, <1>8, <1>9, <1>10

LEMMA CloseInv == ASSUME Inv, NEW p \in Positions, Close(p) PROVE Inv'
<1>1. CASE CloseOfGone(p)
  <2>1. job' = NoJob /\ job = NoJob BY <1>1 DEF Close, CloseOfGone
  <2> QED BY <1>1, <2>1, NoJobType, RecordCloseInv DEF Close, CloseOfGone, chainVars
<1>2. CASE CloseByRelay(p) \/ CloseBySelf(p) BY <1>2, CloseBeginsInv DEF Close
<1> QED BY <1>1, <1>2 DEF Close

(* A job goes on without a change to the rest. *)
LEMMA JobGoesInv ==
  ASSUME Inv, UNCHANGED <<chainVars, bookVars, read, performance, budget, misled>>,
         JobOK(job'), job'.pos \in {job.pos, NoPosition},
         job'.at = "none" \/ (job'.at = "ask" /\ job.at \in Closes /\ job'.pos = job.pos)
  PROVE  Inv'
<1> USE DEF Inv, chainVars, bookVars
<1>1. TypeOK' BY TypesOfAll DEF TypeOK, JobOK, Jobs
<1>2. NoneIsUntouched' BY PositionBookAssumption DEF NoneIsUntouched
<1>3. WatchedIsShown' BY DEF WatchedIsShown, Shown
<1>4. ClosingIsShown' BY DEF ClosingIsShown, Closes, Shown
<1>5. TrackedIsOpen' BY DEF TrackedIsOpen
<1>6. ClosedMeansGone' BY DEF ClosedMeansGone
<1>7. RecordedMeansGone' BY DEF RecordedMeansGone, Closes
<1>8. TradeRecordedOnce' BY DEF TradeRecordedOnce
<1> QED BY <1>1, <1>2, <1>3, <1>4, <1>5, <1>6, <1>7, <1>8

LEMMA CloseLookedInv == Inv /\ CloseLooked => Inv'
<1> SUFFICES ASSUME Inv, CloseLooked PROVE Inv' OBVIOUS
<1> USE DEF CloseLooked
<1>1. JobOK(job) /\ job.pos \in Positions /\ job \in Jobs BY TypesOfAll DEF Inv, JobOK
<1>2. CASE Confirmed(job.seen, job.pos)
  <2>1. account[job.pos] # "open" \/ job.pos \in misled
    BY <1>2 DEF Inv, ClosingIsShown, Closes, Confirmed
  <2>2. account[job.pos] \in {"open", "gone"}
    <3>1. account[job.pos] # "none" BY <1>1 DEF Inv, NoneIsUntouched
    <3> QED BY <1>1, <3>1, TypesOfAll DEF Inv
  <2>3. job' = [job EXCEPT !.at = "account"] \/ job' = NoJob BY <1>2
  <2>4. "account" \in Ats BY DEF Ats
  <2>5. /\ JobOK(job') /\ job'.pos \in {job.pos, NoPosition}
        /\ job'.at = "none" \/ (job'.at = "account" /\ job'.pos = job.pos)
    <3>1. CASE job' = NoJob BY <3>1, NoJobType
    <3>2. CASE job' = [job EXCEPT !.at = "account"]
      <4>1. job' \in Jobs /\ job'.at = "account" /\ job'.pos = job.pos BY <1>1, <2>4, <3>2, JobAt
      <4> QED BY <1>1, <4>1 DEF JobOK
    <3> QED BY <2>3, <3>1, <3>2
  <2>6. RecordClose(job.pos) BY <1>2
  <2>7. job.at \in Closes BY DEF Closes
  <2> QED BY <1>1, <2>1, <2>2, <2>5, <2>6, <2>7, RecordCloseInv
<1>3. CASE ~Confirmed(job.seen, job.pos)
  <2>1. UNCHANGED bookVars BY <1>3
  <2>2. CASE LooksAgain(job.tries)
    <3>1. job' \in Jobs /\ job'.at = "ask" /\ job'.pos = job.pos
      BY <1>1, <1>3, <2>2, LookAgainType
    <3>2. JobOK(job') /\ job.at \in Closes BY <1>1, <3>1 DEF JobOK, Closes
    <3> QED BY <2>1, <3>1, <3>2, JobGoesInv
  <2>3. CASE ~LooksAgain(job.tries)
    <3>1. job' = NoJob BY <1>3, <2>3
    <3> QED BY <2>1, <3>1, NoJobType, JobGoesInv
  <2> QED BY <2>2, <2>3
<1> QED BY <1>2, <1>3

LEMMA CloseRecordedInv == Inv /\ CloseRecorded => Inv'
<1> SUFFICES ASSUME Inv, CloseRecorded PROVE Inv' OBVIOUS
<1> USE DEF Inv, CloseRecorded, Recorded, chainVars, bookVars
<1>1. JobOK(job) /\ job.pos \in Positions BY TypesOfAll DEF JobOK
<1>2. JobOK(job') /\ job'.at = "none" /\ job'.pos = NoPosition BY NoJobType
<1>3. performance \in [Positions -> 0..2] BY TypesOfAll
<1>4. /\ performance[job.pos] = 0 \/ job.pos \in misled
      /\ account[job.pos] = "gone" \/ job.pos \in misled
  BY DEF RecordedMeansGone
<1>5. /\ \A q \in Positions : q # job.pos => performance'[q] = performance[q]
      /\ performance'[job.pos] = IF performance[job.pos] < 2 THEN performance[job.pos] + 1
                                                             ELSE performance[job.pos]
  BY <1>1, <1>3
<1>6. TypeOK'
  <2>1. performance' \in [Positions -> 0..2] BY <1>1, <1>3
  <2> QED BY <1>2, <2>1, TypesOfAll DEF TypeOK, JobOK, Jobs
<1>7. NoneIsUntouched' BY <1>2, <1>5, PositionBookAssumption DEF NoneIsUntouched
<1>8. WatchedIsShown' BY DEF WatchedIsShown, Shown
<1>9. ClosingIsShown' BY <1>2 DEF ClosingIsShown, Closes
<1>10. TrackedIsOpen' BY <1>2 DEF TrackedIsOpen
<1>11. ClosedMeansGone' BY DEF ClosedMeansGone
<1>12. RecordedMeansGone' BY <1>2, <1>4, <1>5 DEF RecordedMeansGone, Closes
<1>13. TradeRecordedOnce' BY <1>3, <1>4, <1>5 DEF TradeRecordedOnce
<1> QED BY <1>6, <1>7, <1>8, <1>9, <1>10, <1>11, <1>12, <1>13


(* Steps of the world. *)
LEMMA AccountGoneInv ==
  ASSUME Inv, NEW p \in Positions, account' = [account EXCEPT ![p] = "gone"],
         account[p] # "none", p # job.pos \/ job.at # "track",
         pendingRelay' \subseteq pendingRelay, budget' \in 0..Budget,
         UNCHANGED <<listed, bookVars, read, job, performance, misled>>
  PROVE  Inv'
<1> USE DEF Inv, bookVars
<1>1. account \in [Positions -> {"none", "open", "gone"}] BY TypesOfAll
<1>2. account'[p] = "gone" /\ \A q \in Positions : q # p => account'[q] = account[q] BY <1>1
<1>3. JobOK(job) BY TypesOfAll
<1>4. TypeOK' BY <1>1, TypesOfAll DEF TypeOK
<1>5. NoneIsUntouched' BY <1>2 DEF NoneIsUntouched
<1>6. WatchedIsShown' BY <1>2 DEF WatchedIsShown, Shown
<1>7. ClosingIsShown' BY <1>2, <1>3 DEF ClosingIsShown, Closes, Shown, JobOK
<1>8. TrackedIsOpen' BY <1>2, <1>3 DEF TrackedIsOpen, JobOK
<1>9. ClosedMeansGone' BY <1>2 DEF ClosedMeansGone
<1>10. RecordedMeansGone' BY <1>2, <1>3 DEF RecordedMeansGone, Closes, JobOK
<1>11. TradeRecordedOnce' BY DEF TradeRecordedOnce
<1> QED BY <1>4, <1>5, <1>6, <1>7, <1>8, <1>9, <1>10, <1>11

LEMMA RelaySendsInv == ASSUME Inv, NEW p \in Positions, RelaySends(p) PROVE Inv'
<1>1. account[p] # "none" BY DEF Inv, NoneIsUntouched, RelaySends
<1>2. p # job.pos \/ job.at # "track" BY DEF Inv, TrackedIsOpen, RelaySends
<1>3. budget' \in 0..Budget BY DEF Inv, TypeOK, RelaySends
<1> QED BY <1>1, <1>2, <1>3, AccountGoneInv DEF RelaySends

LEMMA OwnerInv == ASSUME Inv, NEW p \in Positions, Owner(p) PROVE Inv'
<1> USE DEF Owner
<1>1. budget' \in 0..Budget BY PositionBookAssumption DEF Inv, TypeOK
<1>2. CASE account[p] # "none"
  <2>1. account' = [account EXCEPT ![p] = "gone"] BY <1>2
  <2>2. pendingRelay' \subseteq pendingRelay /\ p # job.pos OBVIOUS
  <2> QED BY <1>1, <1>2, <2>1, <2>2, AccountGoneInv
<1>3. CASE account[p] = "none"
  <2> USE DEF Inv, bookVars
  <2>1. account \in [Positions -> {"none", "open", "gone"}] /\ JobOK(job) BY TypesOfAll
  <2>2. account'[p] = "open" /\ \A q \in Positions : q # p => account'[q] = account[q]
    BY <1>3, <2>1
  <2>3. /\ book[p] = "absent" /\ performance[p] = 0 /\ p \notin pendingRelay /\ p # job.pos
    BY <1>3 DEF NoneIsUntouched
  <2>4. TypeOK' BY <1>1, <1>3, <2>1, TypesOfAll DEF TypeOK
  <2>5. NoneIsUntouched' BY <2>2 DEF NoneIsUntouched
  <2>6. WatchedIsShown' BY <2>2, <2>3 DEF WatchedIsShown, Shown, Watched
  <2>7. ClosingIsShown' BY <2>1, <2>2, <2>3 DEF ClosingIsShown, Closes, Shown, JobOK
  <2>8. TrackedIsOpen' BY <2>1, <2>2, <2>3 DEF TrackedIsOpen, JobOK
  <2>9. ClosedMeansGone' BY <2>2, <2>3 DEF ClosedMeansGone
  <2>10. RecordedMeansGone' BY <2>1, <2>2, <2>3 DEF RecordedMeansGone, Closes, JobOK
  <2>11. TradeRecordedOnce' BY DEF TradeRecordedOnce
  <2> QED BY <2>4, <2>5, <2>6, <2>7, <2>8, <2>9, <2>10, <2>11
<1> QED BY <1>2, <1>3

(* The list catches up, a grace period ends, the relay drops a close: what *)
(* is open stays shown.                                                    *)
LEMMA QuietInv ==
  ASSUME Inv, UNCHANGED <<account, book, read, job, performance, budget, misled>>,
         young' \subseteq young, pendingRelay' \subseteq pendingRelay,
         listed' = listed \/ listed' = Open,
         \A p \in young \ young' :
           account[p] = "open" => p \in listed' /\ (read.at = "answered" => p \in read.shows \cup misled)
  PROVE  Inv'
<1> USE DEF Inv
<1>1. JobOK(job) BY TypesOfAll
<1>2. TypeOK' BY TypesOfAll DEF TypeOK, Open
<1>3. NoneIsUntouched' BY DEF NoneIsUntouched, Open
<1>4. WatchedIsShown' BY DEF WatchedIsShown, Shown, Open
<1>5. ClosingIsShown' BY <1>1 DEF ClosingIsShown, Closes, Shown, Open, JobOK
<1>6. TrackedIsOpen' BY DEF TrackedIsOpen
<1>7. ClosedMeansGone' BY DEF ClosedMeansGone
<1>8. RecordedMeansGone' BY DEF RecordedMeansGone, Closes
<1>9. TradeRecordedOnce' BY DEF TradeRecordedOnce
<1> QED BY <1>2, <1>3, <1>4, <1>5, <1>6, <1>7, <1>8, <1>9

LEMMA CrashInv == Inv /\ Crash => Inv'
<1> SUFFICES ASSUME Inv, Crash PROVE Inv' OBVIOUS
<1> USE DEF Inv, Crash, chainVars, bookVars
<1>1. JobOK(job') /\ job'.at = "none" /\ job'.pos = NoPosition BY NoJobType
<1>2. read' \in ReadType /\ read'.at = "none" /\ read'.shows = {} BY NoReadType
<1>3. TypeOK'
  <2>1. budget' \in 0..Budget BY PositionBookAssumption DEF TypeOK
  <2> QED BY <1>1, <1>2, <2>1, TypesOfAll DEF TypeOK, JobOK, Jobs, ReadType
<1>4. NoneIsUntouched' BY <1>1, <1>2, PositionBookAssumption DEF NoneIsUntouched
<1>5. WatchedIsShown' BY <1>2 DEF WatchedIsShown, Shown
<1>6. ClosingIsShown' BY <1>1 DEF ClosingIsShown, Closes
<1>7. TrackedIsOpen' BY <1>1 DEF TrackedIsOpen
<1>8. ClosedMeansGone' BY DEF ClosedMeansGone
<1>9. RecordedMeansGone' BY <1>1 DEF RecordedMeansGone, Closes
<1>10. TradeRecordedOnce' BY DEF TradeRecordedOnce
<1> QED BY <1>3, <1>4, <1>5, <1>6, <1>7, <1>8, <1>9, <1>10

LEMMA NextInv == Inv /\ [Next]_vars => Inv'
<1> SUFFICES ASSUME Inv, [Next]_vars PROVE Inv' OBVIOUS
<1>1. CASE ReadStep
  <2>1. CASE ReaderAsks
    <3>1. JobOK(job) /\ UNCHANGED job BY <2>1, TypesOfAll DEF Inv, ReaderAsks
    <3> QED BY <2>1, <3>1, AsksInv DEF ReaderAsks
  <2> QED BY <1>1, <2>1, ReadDoneInv, ReadFailsInv DEF ReadStep
<1>2. CASE JobStep
  BY <1>2, JobAsksInv, DeployTracksInv, CloseLookedInv, CloseRecordedInv DEF JobStep
<1>3. CASE Index
  BY <1>3, QuietInv DEF Index, bookVars
<1>4. ASSUME NEW p \in Positions, Tool(p) PROVE Inv' BY <1>4, DeployLandsInv, CloseInv DEF Tool
<1>5. ASSUME NEW p \in Positions, RelayDrops(p) PROVE Inv'
  <2>1. pendingRelay' \subseteq pendingRelay BY <1>5 DEF RelayDrops
  <2> QED BY <1>5, <2>1, QuietInv DEF RelayDrops, bookVars
<1>6. ASSUME NEW p \in Positions, GraceEnds(p) PROVE Inv'
  <2>1. young' = young \ {p} /\ UNCHANGED chainVars BY <1>6 DEF GraceEnds
  <2>2. \A q \in young \ young' :
          account[q] = "open" => /\ q \in listed'
                                 /\ read.at = "answered" => q \in read.shows \cup misled
    BY <1>6, <2>1 DEF GraceEnds, chainVars
  <2> QED BY <1>6, <2>1, <2>2, QuietInv DEF GraceEnds, chainVars
<1>7. CASE UNCHANGED vars BY <1>7, QuietInv DEF vars, chainVars, bookVars
<1> QED BY <1>1, <1>2, <1>3, <1>4, <1>5, <1>6, <1>7, AnswerInv, CrashInv, RelaySendsInv, OwnerInv
        DEF Next

(* state.json is right about what is over, for any number of positions and *)
(* whatever reads, relayed closes, crashes and moves of the owner come in  *)
(* between: what it calls closed is gone from the chain, and a trade is    *)
(* recorded once, but for positions that an answer wrongly showed as gone  *)
(* (domain/state.ts, MeteoraAdapter.ts: getMyPositions, closePosition).    *)
THEOREM BookStaysRight == Spec => []BookIsRight
<1>1. Inv => BookIsRight BY DEF Inv, BookIsRight
<1> QED BY <1>1, InitInv, NextInv, PTL DEF Spec

LEMMA RecordsStay ==
  ASSUME "omits" \notin BadReads, Inv, [Next]_vars, NEW p \in Positions
  PROVE  /\ book[p] = "closed" => book'[p] = "closed"
         /\ book[p] = "deployed" => book'[p] # "imported"
<1>1. book \in [Positions -> Watched \cup {"absent", "closed"}] /\ JobOK(job)
  BY TypesOfAll DEF Inv
<1>2. CASE UNCHANGED book BY <1>2
<1>3. CASE ReadDone BY <1>1, <1>3 DEF ReadDone, Sync, Merge, Missing, Unknown, Watched
<1>4. CASE DeployTracks
  <2>1. /\ job.at = "track" /\ job.pos \in Positions /\ book' = [book EXCEPT ![job.pos] = "deployed"]
    BY <1>1, <1>4 DEF DeployTracks, Track, JobOK
  <2>2. book[job.pos] # "closed" BY <2>1 DEF Inv, TrackedIsOpen, ClosedMeansGone
  <2> QED BY <1>1, <2>1, <2>2
<1>5. ASSUME NEW q, RecordClose(q)
      PROVE  (book[p] = "closed" => book'[p] = "closed")
             /\ (book[p] = "deployed" => book'[p] # "imported")
  BY <1>1, <1>5 DEF RecordClose
<1>6. ASSUME NEW q \in Positions, Tool(q)
      PROVE  (book[p] = "closed" => book'[p] = "closed")
             /\ (book[p] = "deployed" => book'[p] # "imported")
  BY <1>2, <1>5, <1>6 DEF Tool, DeployLands, Close, CloseByRelay, CloseBySelf, CloseOfGone, bookVars
<1>7. CASE JobStep
  BY <1>2, <1>4, <1>5, <1>7 DEF JobStep, JobAsks, CloseLooked, CloseRecorded, bookVars
<1>8. CASE ReadStep \/ Answer \/ Index \/ Crash
  BY <1>2, <1>3, <1>8 DEF ReadStep, ReaderAsks, ReadFails, Answer, Index, Crash, bookVars
<1>9. ASSUME NEW q \in Positions, RelaySends(q) \/ RelayDrops(q) \/ GraceEnds(q) \/ Owner(q)
      PROVE  UNCHANGED book
  BY <1>9 DEF RelaySends, RelayDrops, GraceEnds, Owner, bookVars
<1> QED BY <1>2, <1>6, <1>7, <1>8, <1>9 DEF Next, vars, bookVars

(* reconcileTrackedPositions, "never clobber existing metadata", for any   *)
(* positions and interleavings: late and outdated lists neither reopen a   *)
(* closed position nor turn a deployed one into an imported one.  That no  *)
(* answer lacks positions the source has is the condition: one that does   *)
(* may close a position between its deploy and its trackPosition.          *)
THEOREM RecordsAreKept ==
  ASSUME "omits" \notin BadReads PROVE Spec => RecordsNotClobbered
<1>1. Inv /\ [Next]_vars
        => [\A p \in Positions : /\ book[p] = "closed" => book'[p] = "closed"
                                 /\ book[p] = "deployed" => book'[p] # "imported"]_vars
  BY RecordsStay
<1>2. Spec => []Inv BY InitInv, NextInv, PTL DEF Spec
<1> QED BY <1>1, <1>2, PTL DEF Spec, RecordsNotClobbered

-----------------------------------------------------------------------------
(***************************************************************************)
(* Proofs about module ExitSignals, for any number of positions, readings, *)
(* limits and confirming ticks.                                            *)
(***************************************************************************)

ReadingType == [pnl : Int \cup {NoPnl}, priced : BOOLEAN, gain : BOOLEAN,
                out : BOOLEAN, flag : BOOLEAN, far : BOOLEAN, poor : BOOLEAN]

Entry == [peak : Pnls \cup {0}, pend : Pnls \cup {NoPnl}, pendCount : 0..ConfirmTicks,
          trailing : BOOLEAN, oor : InRange..Wait,
          sig : Signals \cup {NoSignal}, sigCount : 0..ConfirmTicks]

(* An entry between two ticks; its peak is a number. *)
Sound(s) ==
  /\ s \in Entry /\ s.peak \in Int
  /\ s.sigCount < ConfirmTicks /\ (s.sig = NoSignal <=> s.sigCount = 0)
  /\ s.pendCount < ConfirmTicks /\ (s.pend = NoPnl <=> s.pendCount = 0)
  /\ s.pend # NoPnl => s.pend > s.peak

(* It claims no more than was seen: b is the best PnL, t the time outside.  *)
Within(s, b, t) ==
  /\ s.peak <= b /\ (s.pend # NoPnl => s.pend <= b)
  /\ s.trailing => b >= Trigger
  /\ s.oor <= t

(* Its streak is no longer than what the poller last saw, h. *)
Follows(s, h) == s.sig # NoSignal => h.sig = s.sig /\ s.sigCount <= h.n

RunType == [sig : Signals \cup {NoSignal}, n : 0..ConfirmTicks]
ExitJobs == [pos : Portfolio, sig : Signals \cup {"INSTRUCTION"}]

Entries ==
  /\ mem \in [Portfolio -> Entry]
  /\ \A p \in Portfolio : /\ Sound(mem[p]) /\ Within(mem[p], best[p], stayed[p])
                          /\ Follows(mem[p], run[p])
                          /\ closed[p] => mem[p] = Fresh
Histories == /\ run \in [Portfolio -> RunType]
             /\ best \in [Portfolio -> Int] /\ stayed \in [Portfolio -> 0..Wait]
ClosingOK == /\ closing.by \in {"none", "poll", "manage"} /\ closing.left \subseteq ExitJobs
             /\ (closing.left = {}) <=> (closing.by = "none")
             /\ closing = [by |-> closing.by, left |-> closing.left]
(* The poller closes one position at a time, whose streak it has forgotten. *)
PollAlone ==
  closing.by = "poll" => \E c \in ExitJobs : closing.left = {c} /\ mem[c.pos].sig = NoSignal
ShownOK == \A p \in Portfolio : shown[p] \in Readings[p]

ExitInv ==
  /\ Entries /\ Histories /\ ClosingOK /\ PollAlone /\ ShownOK
  /\ closed \in [Portfolio -> BOOLEAN]

-----------------------------------------------------------------------------
(* Of readings and entries. *)
LEMMA ReadingFacts ==
  ASSUME NEW p \in Portfolio, NEW r \in Readings[p]
  PROVE  r \in ReadingType /\ r.pnl \in Pnls /\ (r.priced => r.pnl \in Int)
<1>1. r \in UNION {Readings[q] : q \in Portfolio} OBVIOUS
<1>2. r.pnl \in Pnls BY <1>1 DEF Pnls
<1>3. r \in ReadingType /\ (r.priced => r.pnl # NoPnl) BY ExitSignalsAssumption DEF ReadingType
<1> QED BY <1>2, <1>3 DEF ReadingType

LEMMA PnlsAreNumbers == \A v \in Pnls : v # NoPnl => v \in Int
BY ExitSignalsAssumption DEF Pnls

LEMMA FreshIsSound ==
  /\ Sound(Fresh)
  /\ \A b \in Int, t \in 0..Wait : b >= 0 => Within(Fresh, b, t)
  /\ \A h \in RunType : Follows(Fresh, h)
BY ExitSignalsAssumption DEF Sound, Within, Follows, Fresh, Entry, InRange, NoSignal, Signals

LEMMA MarkKeeps ==
  ASSUME NEW s, Sound(s), NEW out \in BOOLEAN
  PROVE  /\ Sound(Mark(s, out))
         /\ Mark(s, out).sig = s.sig /\ Mark(s, out).sigCount = s.sigCount
         /\ Mark(s, out).peak = s.peak /\ Mark(s, out).pend = s.pend
         /\ Mark(s, out).trailing = s.trailing
         /\ ~out => Mark(s, out).oor = InRange
         /\ out => Mark(s, out).oor \in {0, s.oor}
<1> DEFINE v == IF ~out THEN InRange ELSE IF s.oor = InRange THEN 0 ELSE s.oor
<1>1. Mark(s, out) = [s EXCEPT !.oor = v] BY DEF Mark
<1>2. v \in InRange..Wait BY ExitSignalsAssumption DEF InRange, Sound, Entry
<1> HIDE DEF v
<1>3. Sound([s EXCEPT !.oor = v]) BY <1>2 DEF Sound, Entry
<1>4. /\ [s EXCEPT !.oor = v].sig = s.sig /\ [s EXCEPT !.oor = v].sigCount = s.sigCount
      /\ [s EXCEPT !.oor = v].peak = s.peak /\ [s EXCEPT !.oor = v].pend = s.pend
      /\ [s EXCEPT !.oor = v].trailing = s.trailing /\ [s EXCEPT !.oor = v].oor = v
  BY DEF Sound, Entry
<1>5. (~out => v = InRange) /\ (out => v \in {0, s.oor}) BY DEF v
<1> QED BY <1>1, <1>3, <1>4, <1>5

LEMMA MarkWithin ==
  ASSUME NEW s, Sound(s), NEW out \in BOOLEAN, NEW b \in Int, NEW t \in 0..Wait, Within(s, b, t)
  PROVE  Within(Mark(s, out), b, t)
<1>1. InRange <= t /\ 0 <= t /\ s.oor <= t BY DEF InRange, Within
<1> QED BY <1>1, MarkKeeps DEF Within

LEMMA PeakKeeps ==
  ASSUME NEW s, Sound(s), NEW pnl \in Pnls, NEW ticks \in 1..ConfirmTicks,
         pnl \in Int \cup {NoPnl}
  PROVE  LET u == ConfirmPeak(s, pnl, ticks)
         IN  /\ Sound(u) /\ u.sig = s.sig /\ u.sigCount = s.sigCount
             /\ u.trailing = s.trailing /\ u.oor = s.oor
             /\ u.peak = s.peak \/ (pnl # NoPnl /\ u.peak = pnl)
             /\ u.pend \in {NoPnl, s.pend} \/ (pnl # NoPnl /\ u.pend = pnl)
<1> DEFINE u == ConfirmPeak(s, pnl, ticks)
<1>0. s \in Entry /\ 0 \in 0..ConfirmTicks /\ NoPnl \in Pnls \cup {NoPnl} /\ pnl \in Pnls \cup {0}
  BY ExitSignalsAssumption DEF Sound
<1>1. CASE pnl = NoPnl BY <1>1 DEF ConfirmPeak
<1>2. CASE pnl # NoPnl /\ pnl <= s.peak
  <2>1. u = [s EXCEPT !.pend = NoPnl, !.pendCount = 0] BY <1>2 DEF ConfirmPeak
  <2>2. [s EXCEPT !.pend = NoPnl, !.pendCount = 0] \in Entry
    BY <1>0 DEF Entry
  <2> HIDE DEF u
  <2>3. /\ u \in Entry /\ u.peak = s.peak /\ u.pend = NoPnl /\ u.pendCount = 0 /\ u.sig = s.sig
        /\ u.sigCount = s.sigCount /\ u.trailing = s.trailing /\ u.oor = s.oor
    BY <2>1, <2>2 DEF Sound, Entry
  <2>4. Sound(u) BY <2>3, ExitSignalsAssumption DEF Sound
  <2> QED BY <2>3, <2>4 DEF u
<1>3. CASE pnl # NoPnl /\ ~(pnl <= s.peak) /\ PendingTicks(s, pnl) >= ticks
  <2>1. u = [s EXCEPT !.peak = pnl, !.pend = NoPnl, !.pendCount = 0] BY <1>3 DEF ConfirmPeak
  <2>2. [s EXCEPT !.peak = pnl, !.pend = NoPnl, !.pendCount = 0] \in Entry
    BY <1>0 DEF Entry
  <2> HIDE DEF u
  <2>3. /\ u \in Entry /\ u.peak = pnl /\ u.pend = NoPnl /\ u.pendCount = 0 /\ u.sig = s.sig
        /\ u.sigCount = s.sigCount /\ u.trailing = s.trailing /\ u.oor = s.oor
    BY <2>1, <2>2 DEF Sound, Entry
  <2>4. Sound(u) BY <1>3, <2>3, ExitSignalsAssumption DEF Sound
  <2> QED BY <1>3, <2>3, <2>4 DEF u
<1>4. CASE pnl # NoPnl /\ ~(pnl <= s.peak) /\ ~(PendingTicks(s, pnl) >= ticks)
  <2>1. u = [s EXCEPT !.pend = pnl, !.pendCount = PendingTicks(s, pnl)] BY <1>4 DEF ConfirmPeak
  <2>2. PendingTicks(s, pnl) \in 1..ConfirmTicks /\ PendingTicks(s, pnl) < ConfirmTicks
    BY <1>4, ExitSignalsAssumption DEF PendingTicks, Sound, Entry
  <2>3. [s EXCEPT !.pend = pnl, !.pendCount = PendingTicks(s, pnl)] \in Entry
    <3> DEFINE k == PendingTicks(s, pnl)
    <3>1. k \in 0..ConfirmTicks /\ pnl \in Pnls \cup {NoPnl} BY <2>2, ExitSignalsAssumption
    <3> HIDE DEF k
    <3>2. [s EXCEPT !.pend = pnl, !.pendCount = k] \in Entry BY <1>0, <3>1 DEF Entry
    <3> QED BY <3>2 DEF k
  <2> HIDE DEF u
  <2>4. /\ u \in Entry /\ u.peak = s.peak /\ u.pend = pnl /\ u.pendCount = PendingTicks(s, pnl)
        /\ u.sig = s.sig /\ u.sigCount = s.sigCount /\ u.trailing = s.trailing /\ u.oor = s.oor
    BY <2>1, <2>3 DEF Sound, Entry
  <2>5. Sound(u) BY <1>4, <2>2, <2>4, ExitSignalsAssumption DEF Sound
  <2> QED BY <1>4, <2>4, <2>5 DEF u
<1> QED BY <1>1, <1>2, <1>3, <1>4

(* An evaluation leaves the streak alone, and what it adds was shown. *)
LEMMA EvaluatedKeeps ==
  ASSUME NEW s, Sound(s), NEW p \in Portfolio, NEW r \in Readings[p], NEW ticks \in 1..ConfirmTicks,
         NEW b \in Int, NEW t \in 0..Wait, Within(s, b, t),
         NEW c \in Int, c >= b, r.pnl # NoPnl => c >= r.pnl,
         NEW w \in 0..Wait, r.out => w = t
  PROVE  LET e == Evaluated(s, r, ticks)
         IN  /\ Sound(e) /\ Within(e, c, w)
             /\ e.sig = s.sig /\ e.sigCount = s.sigCount
             /\ ~r.out => e.oor = InRange
<1>1. r \in ReadingType /\ r.pnl \in Pnls BY ReadingFacts
<1>2. r.flag \in BOOLEAN /\ r.out \in BOOLEAN /\ r.pnl \in Int \cup {NoPnl} BY <1>1 DEF ReadingType
<1> DEFINE m == Mark(s, r.flag)
           u == ConfirmPeak(m, r.pnl, ticks)
           a == [u EXCEPT !.trailing = Armed(u)]
<1>3. Evaluated(s, r, ticks) = Mark(a, r.out) BY DEF Evaluated
<1>4. /\ Sound(m) /\ m.sig = s.sig /\ m.sigCount = s.sigCount /\ Within(m, b, t)
  BY <1>2, MarkKeeps, MarkWithin
<1> HIDE DEF m
<1>5. /\ Sound(u) /\ u.sig = s.sig /\ u.sigCount = s.sigCount
      /\ u.trailing = m.trailing /\ u.oor = m.oor
      /\ u.peak = m.peak \/ (r.pnl # NoPnl /\ u.peak = r.pnl)
      /\ u.pend \in {NoPnl, m.pend} \/ (r.pnl # NoPnl /\ u.pend = r.pnl)
  BY <1>1, <1>2, <1>4, PeakKeeps
<1> HIDE DEF u
<1>6. Armed(u) \in BOOLEAN BY <1>5 DEF Armed, Sound, Entry
<1>7. /\ a \in Entry /\ a.trailing = Armed(u) /\ a.peak = u.peak /\ a.pend = u.pend /\ a.oor = u.oor
      /\ a.pendCount = u.pendCount /\ a.sig = u.sig /\ a.sigCount = u.sigCount
  BY <1>5, <1>6 DEF Sound, Entry
<1> HIDE DEF a
<1>8. Sound(a) BY <1>5, <1>7 DEF Sound
<1>9. u.peak <= c /\ (u.pend # NoPnl => u.pend <= c)
  <2>1. /\ m.peak <= b /\ m.peak \in Int /\ (m.pend # NoPnl => m.pend <= b /\ m.pend \in Pnls)
    BY <1>4 DEF Within, Sound, Entry
  <2>2. m.pend # NoPnl => m.pend \in Int BY <2>1, PnlsAreNumbers
  <2>3. r.pnl # NoPnl => r.pnl <= c BY <1>2
  <2>4. u.peak <= c BY <1>5, <2>1, <2>3
  <2>5. ASSUME u.pend # NoPnl PROVE u.pend <= c
    <3>1. CASE u.pend = m.pend BY <2>1, <2>2, <2>5, <3>1
    <3>2. CASE u.pend # m.pend BY <1>5, <2>3, <2>5, <3>2
    <3> QED BY <3>1, <3>2
  <2> QED BY <2>4, <2>5
<1>10. a.trailing => c >= Trigger
  <2>1. Trigger \in Int BY ExitSignalsAssumption
  <2>2. ASSUME u.trailing PROVE c >= Trigger BY <1>4, <1>5, <2>1, <2>2 DEF Within
  <2>3. ASSUME u.peak >= Trigger PROVE c >= Trigger BY <1>5, <1>9, <2>1, <2>3 DEF Sound
  <2> QED BY <1>7, <2>2, <2>3 DEF Armed
<1>11. Mark(a, r.out).oor <= w
  <2>1. a.oor <= t BY <1>4, <1>5, <1>7 DEF Within
  <2>2. InRange <= w /\ 0 <= w BY DEF InRange
  <2>3. ~r.out => Mark(a, r.out).oor = InRange BY <1>2, <1>8, MarkKeeps
  <2>4. r.out => Mark(a, r.out).oor \in {0, a.oor} BY <1>2, <1>8, MarkKeeps
  <2> QED BY <2>1, <2>2, <2>3, <2>4
<1>12. /\ Sound(Mark(a, r.out)) /\ Mark(a, r.out).sig = s.sig /\ Mark(a, r.out).sigCount = s.sigCount
       /\ Mark(a, r.out).peak = u.peak /\ Mark(a, r.out).pend = u.pend
       /\ Mark(a, r.out).trailing = a.trailing /\ (~r.out => Mark(a, r.out).oor = InRange)
  BY <1>2, <1>5, <1>7, <1>8, MarkKeeps
<1>13. Within(Mark(a, r.out), c, w) BY <1>9, <1>10, <1>11, <1>12 DEF Within
<1> QED BY <1>3, <1>12, <1>13

-----------------------------------------------------------------------------
(* Of signals and streaks. *)
LEMMA ExitsAndRules ==
  ASSUME NEW signals \in {Exits, Exits \o Rules}
  PROVE  DOMAIN signals \subseteq 1..6 /\ \A i \in DOMAIN signals : signals[i] \in Signals
<1>1. CASE signals = Exits BY <1>1 DEF Exits, Signals
<1>2. CASE signals = Exits \o Rules
  <2>1. DOMAIN signals = 1..6 BY <1>2 DEF Exits, Rules
  <2>2. /\ signals[1] = "STOP_LOSS" /\ signals[2] = "TRAILING_TP" /\ signals[3] = "OUT_OF_RANGE"
        /\ signals[4] = "LOW_YIELD" /\ signals[5] = "RULE_2" /\ signals[6] = "RULE_3"
    BY <1>2 DEF Exits, Rules
  <2> QED BY <2>1, <2>2 DEF Signals
<1> QED BY <1>1, <1>2

LEMMA LeastExists ==
  ASSUME NEW S \in SUBSET Nat, S # {} PROVE \E i \in S : \A j \in S : i <= j
<1> DEFINE R == OpToRel(<, Nat)
<1>1. IsWellFoundedOn(R, Nat) BY NatLessThanWellFounded
<1>2. \A i, j \in Nat : j < i => <<j, i>> \in R BY DEF OpToRel
<1> HIDE DEF R
<1>3. PICK i \in S : \A j \in S : <<j, i>> \notin R BY <1>1, WFMin
<1>4. \A j \in S : i <= j
  <2>1. SUFFICES ASSUME NEW j \in S PROVE i <= j OBVIOUS
  <2>2. i \in Nat /\ j \in Nat OBVIOUS
  <2>3. ~(j < i) BY <1>2, <1>3, <2>2
  <2> QED BY <2>2, <2>3
<1> QED BY <1>4

LEMMA FirstHolds ==
  ASSUME NEW signals \in {Exits, Exits \o Rules}, NEW s, NEW r
  PROVE  /\ First(signals, s, r) \in Signals \cup {NoSignal}
         /\ First(signals, s, r) # NoSignal => Holds(First(signals, s, r), s, r)
<1> DEFINE live == {i \in DOMAIN signals : Holds(signals[i], s, r)}
           best1 == CHOOSE i \in live : \A j \in live : i <= j
<1>1. CASE live = {} BY <1>1 DEF First
<1>2. CASE live # {}
  <2>1. live \in SUBSET Nat BY ExitsAndRules
  <2>2. \E i \in live : \A j \in live : i <= j
    <3> HIDE DEF live
    <3> QED BY <1>2, <2>1, LeastExists
  <2>3. best1 \in live
    <3> HIDE DEF live
    <3> QED BY <2>2
  <2>4. First(signals, s, r) = signals[best1] BY <1>2 DEF First
  <2> HIDE DEF best1
  <2> QED BY <2>3, <2>4, ExitsAndRules
<1> QED BY <1>1, <1>2

LEMMA CountFacts ==
  ASSUME NEW h \in RunType, NEW sig \in Signals \cup {NoSignal}
  PROVE  /\ Count(h, sig) \in RunType /\ Count(h, sig).sig = sig
         /\ Count(h, sig).n \in 1..ConfirmTicks
         /\ h.sig = sig => Count(h, sig).n >= h.n /\
                           (Count(h, sig).n = h.n + 1 \/ Count(h, sig).n = ConfirmTicks)
<1> DEFINE v == IF sig # h.sig THEN 1 ELSE IF h.n < ConfirmTicks THEN h.n + 1 ELSE h.n
<1>1. Count(h, sig) = [sig |-> sig, n |-> v] BY DEF Count
<1>2. /\ v \in 1..ConfirmTicks
      /\ h.sig = sig => v >= h.n /\ (v = h.n + 1 \/ v = ConfirmTicks)
  BY ExitSignalsAssumption DEF RunType
<1> HIDE DEF v
<1> QED BY <1>1, <1>2 DEF RunType

LEMMA StreakKeeps ==
  ASSUME NEW s, Sound(s), NEW h \in RunType, Follows(s, h), NEW sig \in Signals \cup {NoSignal}
  PROVE  LET g == Registered(s, sig)
         IN  /\ Sound(g) /\ Follows(g, Count(h, sig))
             /\ g.peak = s.peak /\ g.pend = s.pend /\ g.trailing = s.trailing /\ g.oor = s.oor
             /\ Fires(Streak(s, sig)) =>
                  /\ sig # NoSignal /\ Count(h, sig) = [sig |-> sig, n |-> ConfirmTicks]
                  /\ g.sig = NoSignal
<1> DEFINE k == IF sig = NoSignal THEN 0 ELSE IF s.sig = sig THEN s.sigCount + 1 ELSE 1
           t == Streak(s, sig)
<1>1. /\ s \in Entry /\ 0 \in 0..ConfirmTicks /\ NoSignal \in Signals \cup {NoSignal}
      /\ s.sigCount \in 0..(ConfirmTicks - 1)
  BY ExitSignalsAssumption DEF Sound, Entry
<1>2. k \in 0..ConfirmTicks /\ (k = 0 <=> sig = NoSignal) BY <1>1, ExitSignalsAssumption
<1>3. t = [s EXCEPT !.sig = sig, !.sigCount = k] BY <1>1 DEF Streak, Entry
<1>4. sig # NoSignal => k <= Count(h, sig).n
  <2>1. ASSUME sig # NoSignal PROVE k <= Count(h, sig).n
    <3>1. CASE s.sig = sig
      <4>1. h.sig = sig /\ s.sigCount <= h.n BY <2>1, <3>1 DEF Follows
      <4> QED BY <1>1, <2>1, <3>1, <4>1, CountFacts, ExitSignalsAssumption DEF RunType
    <3>2. CASE s.sig # sig BY <2>1, <3>2, CountFacts
    <3> QED BY <3>1, <3>2
  <2> QED BY <2>1
<1> HIDE DEF k
<1>5. [s EXCEPT !.sig = sig, !.sigCount = k] \in Entry BY <1>1, <1>2 DEF Entry
<1> HIDE DEF t
<1>6. /\ t \in Entry /\ t.sig = sig /\ t.sigCount = k /\ t.peak = s.peak /\ t.pend = s.pend
      /\ t.pendCount = s.pendCount /\ t.trailing = s.trailing /\ t.oor = s.oor
  BY <1>1, <1>3, <1>5 DEF Entry
<1>7. CASE Fires(t)
  <2>1. sig # NoSignal /\ k = ConfirmTicks BY <1>2, <1>6, <1>7, ExitSignalsAssumption DEF Fires
  <2>2. Count(h, sig) = [sig |-> sig, n |-> ConfirmTicks]
    <3>1. Count(h, sig).n = ConfirmTicks BY <1>4, <2>1, CountFacts, ExitSignalsAssumption
    <3> QED BY <3>1 DEF Count
  <2>3. Registered(s, sig) = [t EXCEPT !.sig = NoSignal, !.sigCount = 0]
    BY <1>7 DEF Registered, t
  <2>4. [t EXCEPT !.sig = NoSignal, !.sigCount = 0] \in Entry BY <1>1, <1>6 DEF Entry
  <2> DEFINE g == Registered(s, sig)
  <2> HIDE DEF g
  <2>5. /\ g \in Entry /\ g.sig = NoSignal /\ g.sigCount = 0 /\ g.peak = s.peak /\ g.pend = s.pend
        /\ g.pendCount = s.pendCount /\ g.trailing = s.trailing /\ g.oor = s.oor
    BY <1>6, <2>3, <2>4 DEF Entry, g
  <2>6. Sound(g) BY <2>5, ExitSignalsAssumption DEF Sound
  <2> QED BY <2>1, <2>2, <2>5, <2>6 DEF g, Follows
<1>8. CASE ~Fires(t)
  <2>1. Registered(s, sig) = t BY <1>8 DEF Registered, t
  <2>2. k < ConfirmTicks BY <1>2, <1>6, <1>8, ExitSignalsAssumption DEF Fires
  <2>3. Sound(t) BY <1>2, <1>6, <2>2, ExitSignalsAssumption DEF Sound
  <2>4. Follows(t, Count(h, sig)) BY <1>4, <1>6, CountFacts DEF Follows
  <2> QED BY <1>6, <1>8, <2>1, <2>3, <2>4 DEF t
<1> QED BY <1>7, <1>8

-----------------------------------------------------------------------------
(* Of the steps. *)
LEMMA ExitInitInv == ExitInit => ExitInv
<1> SUFFICES ASSUME ExitInit PROVE ExitInv OBVIOUS
<1>1. ShownOK BY DEF ExitInit, ShownOK
<1>2. Histories BY ExitSignalsAssumption DEF ExitInit, Histories, RunType, NoSignal, Signals
<1>3. Entries
  <2>1. mem \in [Portfolio -> Entry] BY FreshIsSound DEF ExitInit, Sound
  <2>2. SUFFICES ASSUME NEW p \in Portfolio
                 PROVE  /\ Sound(mem[p]) /\ Within(mem[p], best[p], stayed[p])
                        /\ Follows(mem[p], run[p]) /\ (closed[p] => mem[p] = Fresh)
    BY <2>1 DEF Entries
  <2>3. mem[p] = Fresh /\ best[p] = 0 /\ stayed[p] = 0 BY DEF ExitInit
  <2>4. run[p] \in RunType /\ stayed[p] \in 0..Wait BY <1>2 DEF Histories
  <2> QED BY <2>3, <2>4, FreshIsSound
<1>4. ClosingOK BY DEF ExitInit, ClosingOK, NoClosing
<1>5. PollAlone BY DEF ExitInit, PollAlone, NoClosing
<1> QED BY <1>1, <1>2, <1>3, <1>4, <1>5 DEF ExitInv, ExitInit

(* What the histories remember of the positions ps that a tick reaches. *)
LEMMA RememberFacts ==
  ASSUME ExitInv, NEW ps \in SUBSET Portfolio, Remember(ps)
  PROVE  /\ best' \in [Portfolio -> Int] /\ stayed' \in [Portfolio -> 0..Wait]
         /\ \A p \in ps : /\ best'[p] >= best[p]
                          /\ shown[p].pnl # NoPnl => best'[p] >= shown[p].pnl
                          /\ shown[p].out => stayed'[p] = stayed[p]
         /\ \A p \in Portfolio \ ps : best'[p] = best[p] /\ stayed'[p] = stayed[p]
<1>1. \A p \in Portfolio : shown[p].pnl # NoPnl => shown[p].pnl \in Int
  BY ReadingFacts DEF ExitInv, ShownOK, ReadingType
<1>2. best' \in [Portfolio -> Int] BY <1>1 DEF Remember, ExitInv, Histories
<1>3. stayed' \in [Portfolio -> 0..Wait] BY ExitSignalsAssumption DEF Remember, ExitInv, Histories
<1>4. ASSUME NEW p \in ps
      PROVE  /\ best'[p] >= best[p]
             /\ shown[p].pnl # NoPnl => best'[p] >= shown[p].pnl
             /\ shown[p].out => stayed'[p] = stayed[p]
  BY <1>1 DEF Remember, ExitInv, Histories
<1>5. \A p \in Portfolio \ ps : best'[p] = best[p] /\ stayed'[p] = stayed[p] BY DEF Remember
<1> QED BY <1>2, <1>3, <1>4, <1>5

(* An exit that an evaluated entry e calls for is justified. *)
LEMMA HoldsMeans ==
  ASSUME NEW p \in Portfolio, NEW r \in Readings[p], NEW e, Sound(e),
         NEW b \in Int, NEW t \in 0..Wait, Within(e, b, t), ~r.out => e.oor = InRange,
         NEW sig \in Signals, Holds(sig, e, r)
  PROVE  /\ sig \in PnlSignals => r.priced
         /\ sig = "TRAILING_TP" => b >= Trigger /\ b - r.pnl >= Drop
         /\ sig = "OUT_OF_RANGE" => r.out /\ t >= Wait
<1>1. /\ r \in ReadingType /\ (r.priced => r.pnl \in Int)
      /\ e.peak \in Int /\ e.oor \in InRange..Wait /\ Trigger \in Int /\ Drop \in Int
      /\ Wait \in Nat \ {0}
  BY ReadingFacts, ExitSignalsAssumption DEF Sound, Entry
<1>2. ASSUME sig \in PnlSignals PROVE r.priced
  BY <1>1, <1>2 DEF Holds, PnlSignals, Suspect, ReadingType
<1>3. ASSUME sig = "TRAILING_TP" PROVE b >= Trigger /\ b - r.pnl >= Drop
  <2>1. r.priced /\ e.trailing /\ e.peak - r.pnl >= Drop BY <1>3 DEF Holds, Suspect
  <2> QED BY <1>1, <2>1 DEF Within
<1>4. ASSUME sig = "OUT_OF_RANGE" PROVE r.out /\ t >= Wait
  <2>1. e.oor >= Wait BY <1>4 DEF Holds, OutTooLong
  <2> QED BY <1>1, <2>1 DEF Within, InRange, ReadingType
<1> QED BY <1>2, <1>3, <1>4

LEMMA PollKeeps ==
  ASSUME ExitInv, PollTick
  PROVE  /\ ExitInv' /\ (closing' = NoClosing \/ closing'.by = "poll")
         /\ \A c \in closing'.left :
              /\ run'[c.pos] = [sig |-> c.sig, n |-> ConfirmTicks]
              /\ c.sig \in PnlSignals => shown[c.pos].priced
              /\ c.sig = "TRAILING_TP" =>
                   best'[c.pos] >= Trigger /\ best'[c.pos] - shown[c.pos].pnl >= Drop
              /\ c.sig = "OUT_OF_RANGE" => shown[c.pos].out /\ stayed'[c.pos] >= Wait
<1> DEFINE entry == [p \in Unclosed |-> Evaluated(mem[p], shown[p], ConfirmTicks)]
           sig == [p \in Unclosed |-> First(Exits \o Rules, entry[p], shown[p])]
           firing == {p \in Unclosed : Fires(Streak(entry[p], sig[p]))}
           reached == Reached(firing)
           Body(e, s, f, rs) ==
             /\ mem' = [p \in Portfolio |->
                          IF p \in rs THEN Registered(e[p], s[p])
                          ELSE IF p \in Unclosed THEN Mark(mem[p], shown[p].flag) ELSE mem[p]]
             /\ run' = [p \in Portfolio |-> IF p \in rs THEN Count(run[p], s[p]) ELSE run[p]]
             /\ closing' = IF f = {} THEN NoClosing
                           ELSE [by |-> "poll", left |-> {[pos |-> p, sig |-> s[p]] : p \in rs \cap f}]
             /\ Remember(rs)
<1>1. /\ mem' = [p \in Portfolio |->
                   IF p \in reached THEN Registered(entry[p], sig[p])
                   ELSE IF p \in Unclosed THEN Mark(mem[p], shown[p].flag) ELSE mem[p]]
      /\ run' = [p \in Portfolio |-> IF p \in reached THEN Count(run[p], sig[p]) ELSE run[p]]
      /\ closing' = IF firing = {} THEN NoClosing
                    ELSE [by |-> "poll",
                          left |-> {[pos |-> p, sig |-> sig[p]] : p \in reached \cap firing}]
      /\ Remember(reached) /\ UNCHANGED <<shown, closed>>
  <2>1. /\ UNCHANGED <<shown, closed>>
        /\ \E e \in {entry} : \E s \in {[p \in Unclosed |-> First(Exits \o Rules, e[p], shown[p])]} :
           \E f \in {{p \in Unclosed : Fires(Streak(e[p], s[p]))}} : \E rs \in {Reached(f)} :
             Body(e, s, f, rs)
    BY DEF PollTick
  <2>2. Body(entry, sig, firing, reached)
    <3> HIDE DEF Body
    <3> QED BY <2>1
  <2> QED BY <2>1, <2>2
<1>2. /\ reached \subseteq Unclosed /\ Unclosed \subseteq Portfolio
      /\ \A p \in Portfolio : p \in Unclosed <=> ~closed[p]
  BY DEF Reached, Unclosed, ExitInv
<1>3. /\ ConfirmTicks \in 1..ConfirmTicks BY ExitSignalsAssumption
<1>4. ASSUME NEW p \in reached
      PROVE  /\ Sound(entry[p]) /\ Within(entry[p], best'[p], stayed'[p])
             /\ Follows(entry[p], run[p])
             /\ ~shown[p].out => entry[p].oor = InRange
             /\ sig[p] \in Signals \cup {NoSignal}
             /\ sig[p] # NoSignal => Holds(sig[p], entry[p], shown[p])
  <2>1. p \in Unclosed /\ p \in Portfolio BY <1>2
  <2>2. entry[p] = Evaluated(mem[p], shown[p], ConfirmTicks) BY <2>1
  <2>3. /\ shown[p] \in Readings[p] /\ Sound(mem[p]) /\ Within(mem[p], best[p], stayed[p])
        /\ Follows(mem[p], run[p]) /\ best[p] \in Int /\ stayed[p] \in 0..Wait
    BY <2>1 DEF ExitInv, Entries, ShownOK, Histories
  <2>4. /\ best'[p] \in Int /\ stayed'[p] \in 0..Wait /\ best'[p] >= best[p]
        /\ shown[p].pnl # NoPnl => best'[p] >= shown[p].pnl
        /\ shown[p].out => stayed'[p] = stayed[p]
    BY <1>1, <1>2, <2>1, RememberFacts
  <2>5. /\ Sound(entry[p]) /\ Within(entry[p], best'[p], stayed'[p])
        /\ entry[p].sig = mem[p].sig /\ entry[p].sigCount = mem[p].sigCount
        /\ ~shown[p].out => entry[p].oor = InRange
    BY <1>3, <2>1, <2>2, <2>3, <2>4, EvaluatedKeeps
  <2>6. sig[p] = First(Exits \o Rules, entry[p], shown[p]) BY <2>1
  <2> HIDE DEF entry, sig
  <2>7. /\ sig[p] \in Signals \cup {NoSignal}
        /\ sig[p] # NoSignal => Holds(sig[p], entry[p], shown[p])
    BY <2>6, FirstHolds
  <2> QED BY <2>3, <2>5, <2>7 DEF Follows
<1> HIDE DEF entry, sig
<1>5. ASSUME NEW p \in reached
      PROVE  /\ Sound(mem'[p]) /\ Within(mem'[p], best'[p], stayed'[p])
             /\ Follows(mem'[p], run'[p]) /\ run'[p] \in RunType
             /\ Fires(Streak(entry[p], sig[p])) =>
                  /\ sig[p] # NoSignal /\ run'[p] = [sig |-> sig[p], n |-> ConfirmTicks]
                  /\ mem'[p].sig = NoSignal
  <2>1. /\ p \in Portfolio /\ run[p] \in RunType BY <1>2 DEF ExitInv, Histories
  <2>2. mem'[p] = Registered(entry[p], sig[p]) /\ run'[p] = Count(run[p], sig[p]) BY <1>1, <2>1
  <2>3. /\ Sound(mem'[p]) /\ Follows(mem'[p], run'[p])
        /\ mem'[p].peak = entry[p].peak /\ mem'[p].pend = entry[p].pend
        /\ mem'[p].trailing = entry[p].trailing /\ mem'[p].oor = entry[p].oor
        /\ Fires(Streak(entry[p], sig[p])) =>
             /\ sig[p] # NoSignal /\ run'[p] = [sig |-> sig[p], n |-> ConfirmTicks]
             /\ mem'[p].sig = NoSignal
    BY <1>4, <2>1, <2>2, StreakKeeps
  <2>4. run'[p] \in RunType BY <1>4, <2>1, <2>2, CountFacts
  <2>5. Within(mem'[p], best'[p], stayed'[p]) BY <1>4, <2>3 DEF Within
  <2> QED BY <2>3, <2>4, <2>5
<1>6. ASSUME NEW p \in Portfolio \ reached
      PROVE  /\ Sound(mem'[p]) /\ Within(mem'[p], best'[p], stayed'[p])
             /\ Follows(mem'[p], run'[p]) /\ run'[p] = run[p]
  <2>1. /\ shown[p] \in Readings[p] /\ Sound(mem[p]) /\ Within(mem[p], best[p], stayed[p])
        /\ Follows(mem[p], run[p]) /\ best[p] \in Int /\ stayed[p] \in 0..Wait
    BY DEF ExitInv, Entries, ShownOK, Histories
  <2>2. best'[p] = best[p] /\ stayed'[p] = stayed[p] BY <1>1, <1>2, RememberFacts
  <2>3. run'[p] = run[p] BY <1>1
  <2>4. shown[p].flag \in BOOLEAN BY <2>1, ReadingFacts DEF ReadingType
  <2>5. mem'[p] = mem[p] \/ mem'[p] = Mark(mem[p], shown[p].flag) BY <1>1
  <2>6. Follows(Mark(mem[p], shown[p].flag), run[p]) BY <2>1, <2>4, MarkKeeps DEF Follows
  <2> QED BY <2>1, <2>2, <2>3, <2>4, <2>5, <2>6, MarkKeeps, MarkWithin
<1>7. Entries'
  <2>1. mem' \in [Portfolio -> Entry]
    <3>1. \A p \in Portfolio : mem'[p] \in Entry BY <1>5, <1>6 DEF Sound
    <3> QED BY <1>1, <3>1
  <2>2. \A p \in Portfolio : closed'[p] => mem'[p] = Fresh
    BY <1>1, <1>2 DEF ExitInv, Entries
  <2> QED BY <1>5, <1>6, <2>1, <2>2 DEF Entries
<1>8. Histories'
  <2>1. \A p \in Portfolio : run'[p] \in RunType BY <1>5, <1>6 DEF ExitInv, Histories
  <2>2. run' \in [Portfolio -> RunType] BY <1>1, <2>1
  <2> QED BY <1>1, <1>2, <2>2, RememberFacts DEF Histories
<1>9. ASSUME NEW c \in closing'.left
      PROVE  \E p \in reached : /\ c = [pos |-> p, sig |-> sig[p]] /\ sig[p] \in Signals
                                /\ run'[p] = [sig |-> sig[p], n |-> ConfirmTicks]
                                /\ Holds(sig[p], entry[p], shown[p])
  <2>1. firing # {} /\ c \in {[pos |-> p, sig |-> sig[p]] : p \in reached \cap firing}
    BY <1>1, <1>9 DEF NoClosing
  <2>2. PICK p \in reached \cap firing : c = [pos |-> p, sig |-> sig[p]] BY <2>1
  <2>3. Fires(Streak(entry[p], sig[p])) BY <2>2
  <2> QED BY <1>4, <1>5, <2>2, <2>3
<1>10. ClosingOK' /\ PollAlone'
  <2>1. closing'.left \subseteq ExitJobs
    <3>1. SUFFICES ASSUME NEW c \in closing'.left PROVE c \in ExitJobs OBVIOUS
    <3>2. PICK p \in reached : c = [pos |-> p, sig |-> sig[p]] /\ sig[p] \in Signals BY <1>9
    <3>3. p \in Portfolio BY <1>2
    <3> QED BY <3>2, <3>3 DEF ExitJobs
  <2>2. firing # {} => \E p \in firing : reached \cap firing = {p}
    <3>1. SUFFICES ASSUME firing # {} PROVE \E p \in firing : reached \cap firing = {p} OBVIOUS
    <3>2. firing \in SUBSET Nat /\ firing \subseteq Unclosed
      BY ExitSignalsAssumption DEF Unclosed, Portfolio
    <3>3. PICK p \in firing : \A q \in firing : p <= q
      <4> HIDE DEF firing
      <4> QED BY <3>1, <3>2, LeastExists
    <3>4. p \in reached BY <3>2, <3>3 DEF Reached
    <3>5. \A q \in reached \cap firing : q = p
      <4>1. SUFFICES ASSUME NEW q \in reached \cap firing PROVE q = p OBVIOUS
      <4>2. q <= p /\ p <= q BY <3>3 DEF Reached
      <4> QED BY <3>2, <4>2
    <3> QED BY <3>3, <3>4, <3>5
  <2>3. closing' = NoClosing \/ closing' = [by |-> "poll", left |-> closing'.left] BY <1>1
  <2>4. CASE closing' = NoClosing BY <2>4 DEF ClosingOK, PollAlone, NoClosing
  <2>5. CASE closing' # NoClosing
    <3>1. firing # {} /\ closing'.by = "poll" BY <1>1, <2>5
    <3>2. PICK p \in firing : reached \cap firing = {p} BY <2>2, <3>1
    <3> DEFINE c == [pos |-> p, sig |-> sig[p]]
    <3>3. closing'.left = {c} BY <1>1, <3>1, <3>2
    <3>4. ClosingOK'
      <4> HIDE DEF c
      <4> QED BY <2>1, <2>3, <2>5, <3>1, <3>3 DEF ClosingOK
    <3>5. p \in reached /\ Fires(Streak(entry[p], sig[p])) BY <3>2
    <3>6. mem'[p].sig = NoSignal BY <1>5, <3>5
    <3>7. c \in ExitJobs BY <2>1, <3>3
    <3>8. c.pos = p OBVIOUS
    <3> HIDE DEF c, firing, reached
    <3> QED BY <3>3, <3>4, <3>6, <3>7, <3>8 DEF PollAlone
  <2> QED BY <2>4, <2>5
<1>11. ExitInv' BY <1>1, <1>7, <1>8, <1>10 DEF ExitInv, ShownOK
<1>12. closing' = NoClosing \/ closing'.by = "poll" BY <1>1
<1>13. ASSUME NEW c \in closing'.left
       PROVE  /\ run'[c.pos] = [sig |-> c.sig, n |-> ConfirmTicks]
              /\ c.sig \in PnlSignals => shown[c.pos].priced
              /\ c.sig = "TRAILING_TP" =>
                   best'[c.pos] >= Trigger /\ best'[c.pos] - shown[c.pos].pnl >= Drop
              /\ c.sig = "OUT_OF_RANGE" => shown[c.pos].out /\ stayed'[c.pos] >= Wait
  <2>1. PICK p \in reached : /\ c = [pos |-> p, sig |-> sig[p]] /\ sig[p] \in Signals
                             /\ run'[p] = [sig |-> sig[p], n |-> ConfirmTicks]
                             /\ Holds(sig[p], entry[p], shown[p])
    BY <1>9
  <2>2. c.pos = p /\ c.sig = sig[p] BY <2>1
  <2>3. /\ shown[p] \in Readings[p] /\ p \in Portfolio /\ best'[p] \in Int /\ stayed'[p] \in 0..Wait
    BY <1>2, <1>11 DEF ExitInv, ShownOK, Histories
  <2>4. /\ sig[p] \in PnlSignals => shown[p].priced
        /\ sig[p] = "TRAILING_TP" => best'[p] >= Trigger /\ best'[p] - shown[p].pnl >= Drop
        /\ sig[p] = "OUT_OF_RANGE" => shown[p].out /\ stayed'[p] >= Wait
    BY <1>4, <2>1, <2>3, HoldsMeans
  <2> QED BY <2>1, <2>2, <2>4
<1> QED BY <1>11, <1>12, <1>13

LEMMA ManagementKeeps ==
  ASSUME ExitInv, ManagementTick
  PROVE  /\ ExitInv' /\ (closing' = NoClosing \/ closing'.by = "manage")
         /\ \A c \in closing'.left :
              /\ c.sig \in PnlSignals => shown[c.pos].priced
              /\ c.sig = "TRAILING_TP" =>
                   best'[c.pos] >= Trigger /\ best'[c.pos] - shown[c.pos].pnl >= Drop
              /\ c.sig = "OUT_OF_RANGE" => shown[c.pos].out /\ stayed'[c.pos] >= Wait
<1> DEFINE entry == [p \in Unclosed |-> Evaluated(mem[p], shown[p], 1)]
           sig == [p \in Unclosed |-> First(Considered(p), entry[p], shown[p])]
           Due(s, asked) == {[pos |-> p, sig |-> s[p]] : p \in {q \in Unclosed : s[q] # NoSignal}}
                              \cup {[pos |-> p, sig |-> "INSTRUCTION"] : p \in asked}
           Body(e, s, asked) ==
             /\ mem' = [p \in Portfolio |-> IF p \in Unclosed THEN e[p] ELSE mem[p]]
             /\ closing' = IF Due(s, asked) = {} THEN NoClosing
                           ELSE [by |-> "manage", left |-> Due(s, asked)]
<1>1. PICK asked \in SUBSET Unclosed : Body(entry, sig, asked)
  <2>1. \E e \in {entry} : \E s \in {[p \in Unclosed |-> First(Considered(p), e[p], shown[p])]} :
          \E asked \in SUBSET {p \in Unclosed \cap Instructed : s[p] = NoSignal} : Body(e, s, asked)
    BY DEF ManagementTick
  <2> HIDE DEF Body
  <2>2. \E asked \in SUBSET {p \in Unclosed \cap Instructed : sig[p] = NoSignal} :
          Body(entry, sig, asked)
    BY <2>1
  <2> QED BY <2>2
<1>2. Remember(Unclosed) /\ UNCHANGED <<shown, closed, run>> BY DEF ManagementTick
<1>3. Unclosed \subseteq Portfolio /\ \A p \in Portfolio : p \in Unclosed <=> ~closed[p]
  BY DEF Unclosed, ExitInv
<1>4. ASSUME NEW p \in Unclosed
      PROVE  /\ Sound(entry[p]) /\ Within(entry[p], best'[p], stayed'[p])
             /\ Follows(entry[p], run[p])
             /\ ~shown[p].out => entry[p].oor = InRange
             /\ sig[p] \in Signals \cup {NoSignal}
             /\ sig[p] # NoSignal => Holds(sig[p], entry[p], shown[p])
  <2>1. p \in Portfolio BY <1>3
  <2>2. entry[p] = Evaluated(mem[p], shown[p], 1) OBVIOUS
  <2>3. /\ shown[p] \in Readings[p] /\ Sound(mem[p]) /\ Within(mem[p], best[p], stayed[p])
        /\ Follows(mem[p], run[p]) /\ best[p] \in Int /\ stayed[p] \in 0..Wait
    BY <2>1 DEF ExitInv, Entries, ShownOK, Histories
  <2>4. /\ best'[p] \in Int /\ stayed'[p] \in 0..Wait /\ best'[p] >= best[p]
        /\ shown[p].pnl # NoPnl => best'[p] >= shown[p].pnl
        /\ shown[p].out => stayed'[p] = stayed[p]
    BY <1>2, <1>3, <2>1, RememberFacts
  <2>5. 1 \in 1..ConfirmTicks BY ExitSignalsAssumption
  <2>6. /\ Sound(entry[p]) /\ Within(entry[p], best'[p], stayed'[p])
        /\ entry[p].sig = mem[p].sig /\ entry[p].sigCount = mem[p].sigCount
        /\ ~shown[p].out => entry[p].oor = InRange
    BY <2>1, <2>2, <2>3, <2>4, <2>5, EvaluatedKeeps
  <2>7. sig[p] = First(Considered(p), entry[p], shown[p]) OBVIOUS
  <2> HIDE DEF entry, sig
  <2>8. Considered(p) = Exits \/ Considered(p) = Exits \o Rules BY DEF Considered
  <2>9. /\ sig[p] \in Signals \cup {NoSignal}
        /\ sig[p] # NoSignal => Holds(sig[p], entry[p], shown[p])
    <3>1. CASE Considered(p) = Exits BY <2>7, <3>1, FirstHolds
    <3>2. CASE Considered(p) = Exits \o Rules BY <2>7, <3>2, FirstHolds
    <3> QED BY <2>8, <3>1, <3>2
  <2> QED BY <2>3, <2>6, <2>9 DEF Follows
<1> HIDE DEF entry, sig
<1>5. Entries'
  <2>1. mem' = [p \in Portfolio |-> IF p \in Unclosed THEN entry[p] ELSE mem[p]] BY <1>1
  <2>2. ASSUME NEW p \in Unclosed
        PROVE  /\ Sound(mem'[p]) /\ Within(mem'[p], best'[p], stayed'[p])
               /\ Follows(mem'[p], run'[p])
    BY <1>2, <1>3, <1>4, <2>1
  <2>3. ASSUME NEW p \in Portfolio \ Unclosed
        PROVE  /\ Sound(mem'[p]) /\ Within(mem'[p], best'[p], stayed'[p])
               /\ Follows(mem'[p], run'[p]) /\ mem'[p] = Fresh
    <3>1. mem'[p] = mem[p] /\ best'[p] = best[p] /\ stayed'[p] = stayed[p] /\ run'[p] = run[p]
      BY <1>2, <1>3, <2>1, RememberFacts
    <3>2. closed[p] BY <1>3
    <3> QED BY <3>1, <3>2 DEF ExitInv, Entries
  <2>4. mem' \in [Portfolio -> Entry]
    <3>1. \A p \in Portfolio : mem'[p] \in Entry BY <2>2, <2>3 DEF Sound
    <3> QED BY <2>1, <3>1
  <2>5. \A p \in Portfolio : closed'[p] => mem'[p] = Fresh BY <1>2, <1>3, <2>3
  <2> QED BY <2>2, <2>3, <2>4, <2>5 DEF Entries
<1>6. Histories' BY <1>2, <1>3, RememberFacts DEF Histories, ExitInv
<1>7. ASSUME NEW c \in closing'.left
      PROVE  \/ \E p \in Unclosed : /\ c = [pos |-> p, sig |-> sig[p]] /\ sig[p] \in Signals
                                    /\ Holds(sig[p], entry[p], shown[p])
             \/ \E p \in Unclosed : c = [pos |-> p, sig |-> "INSTRUCTION"]
  <2>1. c \in Due(sig, asked) BY <1>1 DEF NoClosing
  <2>2. CASE \E p \in {q \in Unclosed : sig[q] # NoSignal} : c = [pos |-> p, sig |-> sig[p]]
    BY <1>4, <2>2
  <2>3. CASE \E p \in asked : c = [pos |-> p, sig |-> "INSTRUCTION"] BY <2>3
  <2> QED BY <2>1, <2>2, <2>3
<1>8. ClosingOK'
  <2>1. closing'.left \subseteq ExitJobs
    <3>1. SUFFICES ASSUME NEW c \in closing'.left PROVE c \in ExitJobs OBVIOUS
    <3>2. CASE \E p \in Unclosed : c = [pos |-> p, sig |-> sig[p]] /\ sig[p] \in Signals
      BY <1>3, <3>2 DEF ExitJobs
    <3>3. CASE \E p \in Unclosed : c = [pos |-> p, sig |-> "INSTRUCTION"]
      BY <1>3, <3>3 DEF ExitJobs
    <3> QED BY <1>7, <3>2, <3>3
  <2>2. CASE closing' = NoClosing BY <2>2 DEF ClosingOK, NoClosing
  <2>3. CASE closing' # NoClosing
    <3>1. closing' = [by |-> "manage", left |-> Due(sig, asked)] /\ Due(sig, asked) # {}
      BY <1>1, <2>3
    <3> HIDE DEF Due
    <3> QED BY <2>1, <3>1 DEF ClosingOK
  <2> QED BY <2>2, <2>3
<1>9. closing' = NoClosing \/ closing'.by = "manage" BY <1>1
<1>10. ExitInv'
  <2>1. PollAlone' BY <1>9 DEF PollAlone, NoClosing
  <2> QED BY <1>2, <1>5, <1>6, <1>8, <2>1 DEF ExitInv, ShownOK
<1>11. ASSUME NEW c \in closing'.left
       PROVE  /\ c.sig \in PnlSignals => shown[c.pos].priced
              /\ c.sig = "TRAILING_TP" =>
                   best'[c.pos] >= Trigger /\ best'[c.pos] - shown[c.pos].pnl >= Drop
              /\ c.sig = "OUT_OF_RANGE" => shown[c.pos].out /\ stayed'[c.pos] >= Wait
  <2>1. CASE \E p \in Unclosed : /\ c = [pos |-> p, sig |-> sig[p]] /\ sig[p] \in Signals
                                 /\ Holds(sig[p], entry[p], shown[p])
    <3>1. PICK p \in Unclosed : /\ c = [pos |-> p, sig |-> sig[p]] /\ sig[p] \in Signals
                                /\ Holds(sig[p], entry[p], shown[p])
      BY <2>1
    <3>2. c.pos = p /\ c.sig = sig[p] BY <3>1
    <3>3. /\ shown[p] \in Readings[p] /\ p \in Portfolio /\ best'[p] \in Int /\ stayed'[p] \in 0..Wait
      BY <1>3, <1>10 DEF ExitInv, ShownOK, Histories
    <3>4. /\ sig[p] \in PnlSignals => shown[p].priced
          /\ sig[p] = "TRAILING_TP" => best'[p] >= Trigger /\ best'[p] - shown[p].pnl >= Drop
          /\ sig[p] = "OUT_OF_RANGE" => shown[p].out /\ stayed'[p] >= Wait
      BY <1>4, <3>1, <3>3, HoldsMeans
    <3> QED BY <3>2, <3>4
  <2>2. CASE \E p \in Unclosed : c = [pos |-> p, sig |-> "INSTRUCTION"] BY <2>2 DEF PnlSignals
  <2> QED BY <1>7, <2>1, <2>2
<1> QED BY <1>9, <1>10, <1>11

LEMMA NextOfOne ==
  ASSUME NEW c \in ExitJobs, closing.left = {c} PROVE NextClose = c
<1>1. c.pos \in Int BY ExitSignalsAssumption DEF ExitJobs, Portfolio
<1> QED BY <1>1 DEF NextClose

LEMMA CloseKeeps ==
  ASSUME ExitInv, NEW done \in BOOLEAN, CloseEnds(done) PROVE ExitInv'
<1> DEFINE q == NextClose.pos
<1>1. /\ closing # NoClosing
      /\ closing' = IF closing.left = {NextClose} THEN NoClosing
                    ELSE [closing EXCEPT !.left = @ \ {NextClose}]
      /\ run' = IF done \/ closing.by = "poll"
                THEN [run EXCEPT ![q] = [sig |-> NoSignal, n |-> 0]] ELSE run
      /\ done => /\ closed' = [closed EXCEPT ![q] = TRUE] /\ mem' = [mem EXCEPT ![q] = Fresh]
                 /\ best' = [best EXCEPT ![q] = 0] /\ stayed' = [stayed EXCEPT ![q] = 0]
      /\ ~done => UNCHANGED <<closed, mem, best, stayed>>
      /\ shown' = shown
  BY DEF CloseEnds
<1> HIDE DEF q
<1>2. ClosingOK'
  <2>1. CASE closing.left = {NextClose} BY <1>1, <2>1 DEF ClosingOK, NoClosing
  <2>2. CASE closing.left # {NextClose}
    <3> DEFINE rest == closing.left \ {NextClose}
    <3>1. closing = [by |-> closing.by, left |-> closing.left] /\ closing.by # "none"
      BY <1>1 DEF ExitInv, ClosingOK, NoClosing
    <3>2. closing' = [by |-> closing.by, left |-> rest] BY <1>1, <2>2, <3>1
    <3>3. rest \subseteq ExitJobs /\ rest # {} BY <2>2, <3>1 DEF ExitInv, ClosingOK
    <3> HIDE DEF rest
    <3> QED BY <3>1, <3>2, <3>3 DEF ExitInv, ClosingOK
  <2> QED BY <2>1, <2>2
<1>3. Histories'
  <2>1. [sig |-> NoSignal, n |-> 0] \in RunType BY ExitSignalsAssumption DEF RunType
  <2>2. 0 \in 0..Wait BY ExitSignalsAssumption
  <2>3. run' \in [Portfolio -> RunType] BY <1>1, <2>1 DEF ExitInv, Histories
  <2>4. best' \in [Portfolio -> Int] BY <1>1 DEF ExitInv, Histories
  <2>5. stayed' \in [Portfolio -> 0..Wait] BY <1>1, <2>2 DEF ExitInv, Histories
  <2> QED BY <2>3, <2>4, <2>5 DEF Histories
<1>4. Entries'
  <2>1. mem' \in [Portfolio -> Entry]
    BY <1>1, FreshIsSound DEF ExitInv, Entries, Sound
  <2>2. SUFFICES ASSUME NEW p \in Portfolio
                 PROVE  /\ Sound(mem'[p]) /\ Within(mem'[p], best'[p], stayed'[p])
                        /\ Follows(mem'[p], run'[p]) /\ (closed'[p] => mem'[p] = Fresh)
    BY <2>1 DEF Entries
  <2>3. /\ Sound(mem[p]) /\ Within(mem[p], best[p], stayed[p])
        /\ Follows(mem[p], run[p]) /\ (closed[p] => mem[p] = Fresh)
    BY DEF ExitInv, Entries
  <2>4. CASE done /\ p = q
    <3>1. mem'[p] = Fresh /\ best'[p] = 0 /\ stayed'[p] = 0
      BY <1>1, <2>4 DEF ExitInv, Entries, Histories
    <3>2. run'[p] \in RunType /\ stayed'[p] \in 0..Wait BY <1>3 DEF Histories
    <3> QED BY <3>1, <3>2, FreshIsSound
  <2>5. CASE ~(done /\ p = q)
    <3>1. mem'[p] = mem[p] /\ best'[p] = best[p] /\ stayed'[p] = stayed[p] /\ closed'[p] = closed[p]
      BY <1>1, <2>5 DEF ExitInv, Entries, Histories
    <3>2. CASE run'[p] = run[p] BY <2>3, <3>1, <3>2
    <3>3. CASE run'[p] # run[p]
      <4>1. closing.by = "poll" /\ ~done /\ p = q BY <1>1, <2>5, <3>3 DEF ExitInv, Histories
      <4>2. PICK c \in ExitJobs : closing.left = {c} /\ mem[c.pos].sig = NoSignal
        BY <4>1 DEF ExitInv, PollAlone
      <4>3. NextClose = c BY <4>2, NextOfOne
      <4>4. mem[p].sig = NoSignal BY <4>1, <4>2, <4>3 DEF q
      <4> QED BY <2>3, <3>1, <4>4 DEF Follows
    <3> QED BY <3>2, <3>3
  <2> QED BY <2>4, <2>5
<1>5. closed' \in [Portfolio -> BOOLEAN] BY <1>1 DEF ExitInv
<1>6. PollAlone'
  <2>1. SUFFICES ASSUME closing'.by = "poll" PROVE FALSE BY DEF PollAlone
  <2>2. closing.by = "poll" BY <1>1, <2>1 DEF NoClosing, ExitInv, ClosingOK
  <2>3. PICK c \in ExitJobs : closing.left = {c} BY <2>2 DEF ExitInv, PollAlone
  <2>4. NextClose = c BY <2>3, NextOfOne
  <2> QED BY <1>1, <2>1, <2>3, <2>4 DEF NoClosing
<1> QED BY <1>1, <1>2, <1>3, <1>4, <1>5, <1>6 DEF ExitInv, ShownOK

LEMMA MinuteKeeps == ASSUME ExitInv, Minute PROVE ExitInv'
<1>1. /\ mem' = [p \in Portfolio |-> IF mem[p].oor \in 0..(Wait - 1)
                                     THEN [mem[p] EXCEPT !.oor = @ + 1] ELSE mem[p]]
      /\ stayed' = [p \in Portfolio |-> IF ~closed[p] /\ stayed[p] < Wait
                                        THEN stayed[p] + 1 ELSE stayed[p]]
      /\ UNCHANGED <<shown, closed, closing, run, best>>
  BY DEF Minute
<1>2. stayed' \in [Portfolio -> 0..Wait]
  BY <1>1, ExitSignalsAssumption DEF ExitInv, Histories
<1>3. ASSUME NEW p \in Portfolio
      PROVE  /\ Sound(mem'[p]) /\ Within(mem'[p], best'[p], stayed'[p])
             /\ Follows(mem'[p], run'[p]) /\ (closed'[p] => mem'[p] = Fresh)
             /\ mem'[p].sig = mem[p].sig
  <2>1. /\ Sound(mem[p]) /\ Within(mem[p], best[p], stayed[p])
        /\ Follows(mem[p], run[p]) /\ (closed[p] => mem[p] = Fresh)
        /\ stayed[p] \in 0..Wait /\ closed[p] \in BOOLEAN
    BY DEF ExitInv, Entries, Histories
  <2>2. /\ best'[p] = best[p] /\ run'[p] = run[p] /\ closed'[p] = closed[p]
        /\ stayed'[p] = IF ~closed[p] /\ stayed[p] < Wait THEN stayed[p] + 1 ELSE stayed[p]
        /\ stayed[p] <= stayed'[p]
    BY <1>1, <2>1, ExitSignalsAssumption
  <2>3. CASE mem[p].oor \in 0..(Wait - 1)
    <3>1. ~closed[p] BY <2>1, <2>3 DEF Fresh, InRange
    <3> DEFINE v == mem[p].oor + 1
    <3>2. mem'[p] = [mem[p] EXCEPT !.oor = v] BY <1>1, <2>3
    <3>3. v \in InRange..Wait /\ v <= stayed'[p]
      BY <2>1, <2>2, <2>3, <3>1, ExitSignalsAssumption DEF InRange, Within
    <3> HIDE DEF v
    <3>4. Sound([mem[p] EXCEPT !.oor = v]) BY <2>1, <3>3 DEF Sound, Entry
    <3>5. /\ mem'[p].peak = mem[p].peak /\ mem'[p].pend = mem[p].pend /\ mem'[p].oor = v
          /\ mem'[p].trailing = mem[p].trailing /\ mem'[p].sig = mem[p].sig
          /\ mem'[p].sigCount = mem[p].sigCount
      BY <2>1, <3>2 DEF Sound, Entry
    <3>6. Within(mem'[p], best'[p], stayed'[p]) BY <2>1, <2>2, <3>3, <3>5 DEF Within
    <3> QED BY <2>1, <2>2, <3>1, <3>2, <3>4, <3>5, <3>6 DEF Follows
  <2>4. CASE mem[p].oor \notin 0..(Wait - 1)
    <3>1. mem'[p] = mem[p] BY <1>1, <2>4
    <3>2. mem[p].oor <= stayed'[p] BY <2>1, <2>2 DEF Within, Sound, Entry, InRange
    <3>3. Within(mem'[p], best'[p], stayed'[p]) BY <2>1, <2>2, <3>1, <3>2 DEF Within
    <3> QED BY <2>1, <2>2, <3>1, <3>3
  <2> QED BY <2>3, <2>4
<1>4. Entries'
  <2>1. \A p \in Portfolio : mem'[p] \in Entry BY <1>3 DEF Sound
  <2>2. mem' \in [Portfolio -> Entry] BY <1>1, <2>1
  <2> QED BY <1>3, <2>2 DEF Entries
<1>5. PollAlone'
  <2>1. SUFFICES ASSUME closing.by = "poll"
                 PROVE  \E c \in ExitJobs : closing.left = {c} /\ mem'[c.pos].sig = NoSignal
    BY <1>1 DEF PollAlone
  <2>2. PICK c \in ExitJobs : closing.left = {c} /\ mem[c.pos].sig = NoSignal
    BY <2>1 DEF ExitInv, PollAlone
  <2>3. c.pos \in Portfolio BY DEF ExitJobs
  <2> QED BY <1>3, <2>2, <2>3
<1> QED BY <1>1, <1>2, <1>4, <1>5 DEF ExitInv, Histories, ClosingOK, ShownOK

LEMMA OthersKeep ==
  ASSUME ExitInv, Restart \/ (\E p \in Portfolio : Moves(p)) \/ UNCHANGED exitVars PROVE ExitInv'
<1>1. CASE Restart
  <2>1. closing' = NoClosing /\ UNCHANGED <<shown, mem, closed, run, best, stayed>>
    BY <1>1 DEF Restart, history
  <2>2. ClosingOK' /\ PollAlone' BY <2>1 DEF ClosingOK, PollAlone, NoClosing
  <2> QED BY <2>1, <2>2 DEF ExitInv, Entries, Histories, ShownOK
<1>2. CASE \E p \in Portfolio : Moves(p)
  <2>1. PICK p \in Portfolio : Moves(p) BY <1>2
  <2>2. PICK r \in Readings[p] : shown' = [shown EXCEPT ![p] = r] BY <2>1 DEF Moves
  <2>3. UNCHANGED <<mem, closed, closing, run, best, stayed>> BY <2>1 DEF Moves, history
  <2>4. ShownOK' BY <2>2 DEF ExitInv, ShownOK
  <2> QED BY <2>3, <2>4 DEF ExitInv, Entries, Histories, ClosingOK, PollAlone
<1>3. CASE UNCHANGED exitVars
  BY <1>3 DEF exitVars, ExitInv, Entries, Histories, ClosingOK, PollAlone, ShownOK
<1> QED BY <1>1, <1>2, <1>3

LEMMA ExitStep == ExitInv /\ [ExitNext]_exitVars => ExitInv'
<1> SUFFICES ASSUME ExitInv, [ExitNext]_exitVars PROVE ExitInv' OBVIOUS
<1>1. CASE PollTick BY <1>1, PollKeeps
<1>2. CASE ManagementTick BY <1>2, ManagementKeeps
<1>3. CASE Minute BY <1>3, MinuteKeeps
<1>4. CASE \E done \in BOOLEAN : CloseEnds(done) BY <1>4, CloseKeeps
<1>5. CASE Restart \/ (\E p \in Portfolio : Moves(p)) \/ UNCHANGED exitVars BY <1>5, OthersKeep
<1> QED BY <1>1, <1>2, <1>3, <1>4, <1>5 DEF ExitNext

-----------------------------------------------------------------------------
LEMMA ExitTypes == ExitInv => ExitTypeOK
BY DEF ExitInv, Entries, Sound, Entry, ClosingOK, ShownOK, ExitTypeOK, ExitJobs

(* Only the two cycles decide to close. *)
LEMMA DecidersOnly ==
  ASSUME ExitInv, [ExitNext]_exitVars, NEW by \in {"poll", "manage"}, Decides(by)
  PROVE  (by = "poll" /\ PollTick) \/ (by = "manage" /\ ManagementTick)
<1>1. closing.by = "none" /\ closing'.by = by BY DEF Decides, NoClosing
<1>2. PollTick \/ ManagementTick
  BY <1>1 DEF ExitNext, exitVars, Minute, Restart, CloseEnds, Moves, Decides
<1>3. PollTick => closing'.by \in {"none", "poll"} BY PollKeeps DEF NoClosing
<1>4. ManagementTick => closing'.by \in {"none", "manage"} BY ManagementKeeps DEF NoClosing
<1> QED BY <1>1, <1>2, <1>3, <1>4

LEMMA DecisionsAreJustified ==
  ASSUME ExitInv, [ExitNext]_exitVars, NEW by \in {"poll", "manage"}, Decides(by),
         NEW c \in closing'.left
  PROVE  /\ by = "poll" => run'[c.pos] = [sig |-> c.sig, n |-> ConfirmTicks]
         /\ c.sig \in PnlSignals => shown[c.pos].priced
         /\ c.sig = "TRAILING_TP" =>
              best'[c.pos] >= Trigger /\ best'[c.pos] - shown[c.pos].pnl >= Drop
         /\ c.sig = "OUT_OF_RANGE" => shown[c.pos].out /\ stayed'[c.pos] >= Wait
<1>1. CASE by = "poll" /\ PollTick BY <1>1, PollKeeps
<1>2. CASE by = "manage" /\ ManagementTick BY <1>2, ManagementKeeps
<1> QED BY <1>1, <1>2, DecidersOnly

(* Whatever the market shows, however ticks of the two cycles, closes that *)
(* fail and restarts follow one another: what is closed by rule was seen,  *)
(* as often in a row, as high and for as long as the rule asks             *)
(* (state.ts: confirmPeak, registerExitSignal, updatePnlAndCheckExits).    *)
THEOREM EveryExitIsJustified == ExitSpec => ExitsAreJustified
<1>1. ExitInv /\ [ExitNext]_exitVars =>
        [Decides("poll") =>
           \A c \in closing'.left : run'[c.pos] = [sig |-> c.sig, n |-> ConfirmTicks]]_exitVars
  BY DecisionsAreJustified
<1>2. ExitInv /\ [ExitNext]_exitVars =>
        [\A by \in {"poll", "manage"} : Decides(by) =>
           \A c \in closing'.left :
             /\ c.sig \in PnlSignals => shown[c.pos].priced
             /\ c.sig = "TRAILING_TP" =>
                  best'[c.pos] >= Trigger /\ best'[c.pos] - shown[c.pos].pnl >= Drop]_exitVars
  BY DecisionsAreJustified
<1>3. ExitInv /\ [ExitNext]_exitVars =>
        [\A by \in {"poll", "manage"} : Decides(by) =>
           \A c \in closing'.left :
             c.sig = "OUT_OF_RANGE" => shown[c.pos].out /\ stayed'[c.pos] >= Wait]_exitVars
  BY DecisionsAreJustified
<1>4. ExitSpec => []ExitInv BY ExitInitInv, ExitStep, PTL DEF ExitSpec
<1> QED BY <1>1, <1>2, <1>3, <1>4, ExitTypes, PTL
     DEF ExitSpec, ExitsAreJustified, PollConfirmed, PnlExitsAreReal, OutExitsAreLate
=============================================================================
