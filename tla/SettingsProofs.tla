---------------------------- MODULE SettingsProofs ----------------------------
(***************************************************************************)
(* What Settings promises, for any libraries, calls of update_config and   *)
(* numbers of edits and starts.                                            *)
(*                                                                         *)
(* A content on its way into the truncated file counts as saved: the       *)
(* invariant speaks of the file and of what is being written into it, of   *)
(* the library as it will be when a removal is done, and of every stage of *)
(* a start.                                                                *)
(***************************************************************************)
EXTENDS Settings, FiniteSetTheorems, TLAPS

Flags == /\ timers \in BOOLEAN /\ cronStarted \in BOOLEAN /\ paused \in BOOLEAN
         /\ stranded \in BOOLEAN /\ overtaken \in BOOLEAN /\ strayed \in BOOLEAN
         /\ bereft \in BOOLEAN /\ apart \in BOOLEAN

Phases == {"down", "loaded", "writing", "identified", "up"}
Files == [state : {"good", "empty", "cut"}, c : Contents]
Jobs == [op : {"add", "remove"}, id : Strategies, lib : SUBSET Private]

Typed ==
  /\ phase \in Phases /\ file \in Files /\ live \in Running /\ meant \in Values
  /\ library \subseteq Private /\ doing \subseteq Jobs
  /\ opened \subseteq Contents /\ web \subseteq Contents /\ cli \subseteq Contents
  /\ edits \in 0..MaxEdits /\ boots \in 0..MaxBoots
  /\ Flags

AtMostOne ==
  /\ Cardinality(doing) <= 1 /\ Cardinality(opened) <= 1
  /\ Cardinality(web) <= 1 /\ Cardinality(cli) <= 1

(* What was meant is in the file, or on its way into it. *)
SavedOrOnItsWay ==
  ~overtaken =>
    /\ Readable => ValuesOf(file.c) = meant
    /\ \A c \in opened : ~Readable /\ ValuesOf(c) = meant

(* What is in the file, or on its way, is acceptable. *)
Acceptable(c) == c.valid /\ (~bereft => c.active \in Known)

NothingAmiss ==
  ~overtaken /\ ~strayed =>
    /\ Readable \/ opened # {}
    /\ Readable => Acceptable(file.c)
    /\ \A c \in opened : Acceptable(c)

(* A content that a start would find to be what the agent runs with, or    *)
(* one that it refuses where values were saved elsewhere.                  *)
RunsOn(c) == ValuesOf(c) = ValuesOf(live) /\ ("elsewhere" \in live.unsaved => ~c.valid)

(* What a starting or running agent has in memory is in the file, or the   *)
(* agent is writing it.                                                    *)
RunsOnSaved ==
  ~apart =>
    /\ phase \in {"loaded", "identified", "up"} => opened = {} /\ Readable /\ RunsOn(file.c)
    /\ phase = "writing" => opened # {} /\ ~Readable /\ \A c \in opened : RunsOn(c)

(* A strategy in use is in the library, and still is when a removal that   *)
(* is under way has saved its older copy.                                  *)
StrategyStays ==
  /\ ActiveIsKnown
  /\ \A d \in doing : phase = "up" /\ (d.op = "remove" /\ ~bereft => live.active \in d.lib \cup Shared)

(* Jobs that are noted as started are, or were to be. *)
StartedMeansRunning ==
  /\ cronStarted => phase = "up" /\ (timers \/ stranded)
  /\ TimersRun

Inv == Typed /\ AtMostOne /\ SavedOrOnItsWay /\ NothingAmiss /\ RunsOnSaved
         /\ StrategyStays /\ StartedMeansRunning

-----------------------------------------------------------------------------
(* The operators on contents.                                              *)

LEMMA SetsType ==
  ASSUME NEW keys, NEW e \in 0..MaxEdits
  PROVE  /\ \A c \in Contents : /\ Sets(keys, c, e) \in Contents
                                /\ Sets(keys, c, e).valid = c.valid
                                /\ Sets(keys, c, e).active = c.active
                                /\ ValuesOf(Sets(keys, c, e)) = Sets(keys, ValuesOf(c), e)
         /\ \A v \in Values : /\ Sets(keys, v, e) \in Values
                              /\ Sets(keys, v, e).active = v.active
                              /\ Sets(keys, v, e).agent = v.agent
         /\ \A v \in Running : /\ Sets(keys, v, e) \in Running
                               /\ Sets(keys, v, e).active = v.active
                               /\ Sets(keys, v, e).agent = v.agent
                               /\ Sets(keys, v, e).unsaved = v.unsaved
                               /\ ValuesOf(Sets(keys, v, e)) = Sets(keys, ValuesOf(v), e)
BY DEF Sets, Contents, Values, Running, ValuesOf

LEMMA ValuesType == \A c \in Contents : ValuesOf(c) \in Values
BY DEF ValuesOf, Contents, Values

LEMMA LoadedType ==
  \A c \in Contents : /\ Loaded(c) \in Running /\ Loaded(c).unsaved = {}
                      /\ ValuesOf(Loaded(c)) = ValuesOf(c)
BY DEF Loaded, ValuesOf, Contents, Running

(* What applying keys to the live values leaves, and what it may add to    *)
(* those that are saved nowhere a start looks.                             *)
LEMMA LiveAfterFacts ==
  ASSUME live \in Running, NEW keys, NEW e \in 0..MaxEdits, NEW v \in LiveAfter(keys, e)
  PROVE  /\ v \in Running /\ v.active = live.active
         /\ ValuesOf(v) = Sets(keys, ValuesOf(live), e)
         /\ "elsewhere" \in v.unsaved => "elsewhere" \in live.unsaved \/ keys \cap Elsewhere # {}
<1> DEFINE s == Sets(keys, live, e)
           more == IF keys \cap Elsewhere = {} THEN {} ELSE {"elsewhere"}
<1>1. /\ s \in Running /\ s.active = live.active /\ s.unsaved = live.unsaved
      /\ ValuesOf(s) = Sets(keys, ValuesOf(live), e)
  BY SetsType
<1>2. PICK clamped \in {{}, {"bins"}} : v = [s EXCEPT !.unsaved = @ \cup more \cup clamped]
  BY DEF LiveAfter
<1>3. more \subseteq {"elsewhere"} /\ ("elsewhere" \in more => keys \cap Elsewhere # {}) OBVIOUS
<1> HIDE DEF s, more
<1>4. v.unsaved = s.unsaved \cup more \cup clamped /\ v \in Running
  <2>1. s.unsaved \cup more \cup clamped \in SUBSET {"elsewhere", "bins"} BY <1>1, <1>3 DEF Running
  <2> QED BY <1>1, <1>2, <2>1 DEF Running
<1>5. v.active = s.active /\ ValuesOf(v) = ValuesOf(s) BY <1>1, <1>2 DEF Running, ValuesOf
<1> QED BY <1>1, <1>2, <1>3, <1>4, <1>5

LEMMA DefaultType == DefaultConfig \in Contents /\ Fragment \in Contents /\ DefaultConfig.valid
<1>1. Default \in Strategies /\ 0 \in 0..MaxEdits /\ 0 \in 0..MaxBoots
  BY SettingsAssumption DEF Strategies
<1>2. DefaultConfig \in Contents /\ DefaultConfig.valid BY <1>1 DEF DefaultConfig, Contents
<1>3. Fragment \in Contents BY <1>2 DEF Fragment, Contents
<1> QED BY <1>2, <1>3

LEMMA TornType == \A s \in {"empty", "cut"} : Torn(s) \in Files /\ Torn(s).state # "good"
BY DefaultType DEF Torn, Files

LEMMA GoodType == \A c \in Contents : Good(c) \in Files /\ Good(c).state = "good" /\ Good(c).c = c
BY DEF Good, Files

LEMMA NoneOrOne == Cardinality({}) <= 1 /\ \A x : Cardinality({x}) <= 1
BY FS_EmptySet, FS_Singleton

(* The content that a file operation works with, and the file after it.    *)
LEMMA SaveJsonFacts ==
  ASSUME NEW c \in Contents, SaveJson(c)
  PROVE  file' \in Files /\ file'.state = "good" /\ file'.c = c /\ opened' = {}
BY GoodType DEF SaveJson

LEMMA OpenToWriteFacts ==
  ASSUME NEW c \in Contents, OpenToWrite(c)
  PROVE  file' \in Files /\ file'.state # "good" /\ opened' = {c}
BY TornType DEF OpenToWrite

LEMMA WrittenFacts ==
  ASSUME NEW c \in Contents, Written(c)
  PROVE  /\ file' \in Files /\ opened' = {}
         /\ \/ file'.state = "good" /\ file'.c = c
            \/ Readable /\ file'.state # "good"
BY GoodType, TornType DEF Written

LEMMA ActivateFacts ==
  ASSUME OneFile, Typed, NEW id \in Strategies, Activate(id)
  PROVE  /\ file' \in Files /\ file'.state = "good" /\ opened' = {}
         /\ file'.c = [file.c EXCEPT !.active = id]
         /\ live' = [live EXCEPT !.active = id] /\ live' \in Running
         /\ meant' = [meant EXCEPT !.active = id] /\ meant' \in Values
         /\ overtaken' = (overtaken \/ ~Readable) /\ apart' = (apart \/ ~Readable)
         /\ overtaken' \in BOOLEAN /\ apart' \in BOOLEAN
<1>1. [file.c EXCEPT !.active = id] \in Contents BY DEF Typed, Files, Contents
<1>2. live' \in Running /\ meant' \in Values BY DEF Activate, Typed, Values, Running
<1> QED BY <1>1, <1>2, SaveJsonFacts DEF Activate


-----------------------------------------------------------------------------
LEMMA InvInit == Init => Inv
<1> SUFFICES ASSUME Init PROVE Inv OBVIOUS
<1>1. file \in Files /\ file.state = "good" /\ file.c = DefaultConfig
  BY DefaultType, GoodType DEF Init
<1>2. live \in Running /\ meant \in Values BY DefaultType, ValuesType, LoadedType DEF Init
<1>3. Typed
  <2>1. 0 \in 0..MaxEdits /\ 0 \in 0..MaxBoots BY SettingsAssumption
  <2>2. Flags BY DEF Init, Flags
  <2>3. /\ library \subseteq Private /\ doing \subseteq Jobs
        /\ opened \subseteq Contents /\ web \subseteq Contents /\ cli \subseteq Contents
    BY DEF Init
  <2> QED BY <1>1, <1>2, <2>1, <2>2, <2>3 DEF Init, Typed, Phases
<1>4. AtMostOne BY NoneOrOne DEF Init, AtMostOne
<1>5. Acceptable(file.c)
  BY <1>1, DefaultType, SettingsAssumption DEF Acceptable, Known, DefaultConfig
<1> QED
  BY <1>1, <1>3, <1>4, <1>5 DEF Init, Inv, SavedOrOnItsWay, NothingAmiss, RunsOnSaved, Readable,
     StrategyStays, ActiveIsKnown, StartedMeansRunning, TimersRun

(* A start of the agent.                                                   *)
LEMMA LoadInv == Inv /\ Load => Inv'
<1> SUFFICES ASSUME Inv, Load PROVE Inv' OBVIOUS
<1> USE DEF Load, cronVars, fileVars, draftVars
<1>1. CASE /\ Readable /\ file.c.valid /\ live' = Loaded(file.c)
           /\ UNCHANGED <<fileVars, overtaken>>
  <2>1. live' \in Running /\ live'.unsaved = {} /\ ValuesOf(live') = ValuesOf(file.c)
    BY <1>1, LoadedType DEF Inv, Typed, Files
  <2>2. Typed' BY <1>1, <2>1, SettingsAssumption DEF Inv, Typed, Phases, Flags
  <2>3. AtMostOne' BY <1>1 DEF Inv, AtMostOne
  <2>4. SavedOrOnItsWay' BY <1>1 DEF Inv, SavedOrOnItsWay, Readable
  <2>5. NothingAmiss' BY <1>1 DEF Inv, NothingAmiss, Readable, Acceptable, Known
  <2>6. RunsOnSaved' BY <1>1, <2>1 DEF RunsOnSaved, RunsOn, Readable
  <2>7. StrategyStays' BY DEF Inv, StrategyStays, ActiveIsKnown
  <2>8. StartedMeansRunning' BY DEF Inv, StartedMeansRunning, TimersRun
  <2> QED BY <2>2, <2>3, <2>4, <2>5, <2>6, <2>7, <2>8 DEF Inv
<1>2. CASE /\ file' = Good(DefaultConfig) /\ live' = Loaded(DefaultConfig)
           /\ overtaken' = TRUE /\ UNCHANGED opened
  <2>1. /\ live' \in Running /\ live'.unsaved = {} /\ ValuesOf(live') = ValuesOf(DefaultConfig)
        /\ file' \in Files /\ file'.state = "good" /\ file'.c = DefaultConfig
    BY <1>2, LoadedType, DefaultType, GoodType
  <2>2. Typed' BY <1>2, <2>1, SettingsAssumption DEF Inv, Typed, Phases, Flags
  <2>3. AtMostOne' BY <1>2 DEF Inv, AtMostOne
  <2>4. SavedOrOnItsWay' /\ NothingAmiss' BY <1>2 DEF SavedOrOnItsWay, NothingAmiss
  <2>5. RunsOnSaved' BY <1>2, <2>1 DEF RunsOnSaved, RunsOn, Readable
  <2>6. StrategyStays' BY DEF Inv, StrategyStays, ActiveIsKnown
  <2>7. StartedMeansRunning' BY DEF Inv, StartedMeansRunning, TimersRun
  <2> QED BY <2>2, <2>3, <2>4, <2>5, <2>6, <2>7 DEF Inv
<1> QED BY <1>1, <1>2

LEMMA IdentifyInv == Inv /\ Identify => Inv'
<1> SUFFICES ASSUME Inv, Identify PROVE Inv' OBVIOUS
<1> USE DEF Identify, Identity, cronVars, fileVars, draftVars
<1>1. CASE /\ Identity # 0 /\ phase' = "identified" /\ live' = [live EXCEPT !.agent = Identity]
           /\ UNCHANGED <<fileVars, meant, overtaken, apart>>
  <2>1. live' \in Running BY <1>1 DEF Inv, Typed, Files, Contents, Running
  <2>2. Typed' BY <1>1, <2>1 DEF Inv, Typed, Phases, Flags
  <2>3. AtMostOne' BY <1>1 DEF Inv, AtMostOne
  <2>4. SavedOrOnItsWay' BY <1>1 DEF Inv, SavedOrOnItsWay, Readable
  <2>5. NothingAmiss' BY <1>1 DEF Inv, NothingAmiss, Readable, Acceptable, Known
  <2>6. RunsOnSaved'
    <3>1. ValuesOf(file.c) = ValuesOf(live) => live' = live
      BY <1>1 DEF ValuesOf, Inv, Typed, Running
    <3> QED BY <1>1, <3>1 DEF Inv, RunsOnSaved, RunsOn, Readable
  <2>7. StrategyStays' BY <1>1 DEF Inv, StrategyStays, ActiveIsKnown
  <2>8. StartedMeansRunning' BY <1>1 DEF Inv, StartedMeansRunning, TimersRun
  <2> QED BY <2>2, <2>3, <2>4, <2>5, <2>6, <2>7, <2>8 DEF Inv
<1>2. CASE /\ Identity = 0 /\ phase' = "writing" /\ live' = [live EXCEPT !.agent = boots]
           /\ OpenToWrite([file.c EXCEPT !.agent = boots])
           /\ meant' = [meant EXCEPT !.agent = boots]
           /\ overtaken' = (overtaken \/ ~Readable) /\ apart' = (apart \/ ~Readable)
  <2> DEFINE c == [file.c EXCEPT !.agent = boots]
  <2>1. c \in Contents /\ c.valid = file.c.valid /\ c.active = file.c.active
    BY DEF Inv, Typed, Files, Contents
  <2>2. file' \in Files /\ file'.state # "good" /\ opened' = {c} BY <1>2, <2>1, OpenToWriteFacts
  <2>3. /\ live' \in Running /\ live'.unsaved = live.unsaved
        /\ meant' \in Values
    BY <1>2 DEF Inv, Typed, Values, Running
  <2>4. Typed' BY <1>2, <2>1, <2>2, <2>3 DEF Inv, Typed, Phases, Flags
  <2>5. AtMostOne' BY <2>2, NoneOrOne DEF Inv, AtMostOne
  <2>6. /\ ValuesOf(file.c) = meant => ValuesOf(c) = meant'
        /\ ValuesOf(file.c) = ValuesOf(live) => ValuesOf(c) = ValuesOf(live')
    BY <1>2 DEF ValuesOf, Inv, Typed, Files, Contents, Values, Running
  <2> HIDE DEF c
  <2>7. SavedOrOnItsWay' BY <1>2, <2>2, <2>6 DEF Inv, SavedOrOnItsWay, Readable
  <2>8. NothingAmiss' BY <1>2, <2>1, <2>2 DEF Inv, NothingAmiss, Readable, Acceptable, Known
  <2>9. RunsOnSaved' BY <1>2, <2>1, <2>2, <2>3, <2>6 DEF Inv, RunsOnSaved, RunsOn, Readable
  <2>10. StrategyStays' BY <1>2 DEF Inv, StrategyStays, ActiveIsKnown
  <2>11. StartedMeansRunning' BY <1>2 DEF Inv, StartedMeansRunning, TimersRun
  <2> QED BY <2>4, <2>5, <2>7, <2>8, <2>9, <2>10, <2>11 DEF Inv
<1> QED BY <1>1, <1>2

(* What is written reaches the file.                                       *)
LEMMA WrittenInv ==
  ASSUME Inv, NEW c \in opened, Written(c), overtaken' = (overtaken \/ Readable),
         UNCHANGED <<meant, strayed, bereft, library>>
  PROVE  /\ file' \in Files /\ opened' = {} /\ overtaken' \in BOOLEAN
         /\ SavedOrOnItsWay' /\ NothingAmiss'
<1>1. c \in Contents BY DEF Inv, Typed
<1>2. /\ file' \in Files /\ opened' = {}
      /\ \/ file'.state = "good" /\ file'.c = c
         \/ Readable /\ file'.state # "good"
  BY <1>1, WrittenFacts
<1>3. SavedOrOnItsWay' BY <1>2 DEF Inv, SavedOrOnItsWay, Readable
<1>4. NothingAmiss' BY <1>2 DEF Inv, NothingAmiss, Readable, Acceptable, Known
<1> QED BY <1>2, <1>3, <1>4

LEMMA IdentifiedInv == Inv /\ Identified => Inv'
<1> SUFFICES ASSUME Inv, Identified PROVE Inv' OBVIOUS
<1> USE DEF Identified, cronVars, fileVars, draftVars
<1>1. CASE \E c \in opened : c.agent = live.agent /\ Written(c) /\ overtaken' = (overtaken \/ Readable)
  <2>1. PICK c \in opened : c.agent = live.agent /\ Written(c) /\ overtaken' = (overtaken \/ Readable)
    BY <1>1
  <2>2. /\ file' \in Files /\ opened' = {} /\ overtaken' \in BOOLEAN
        /\ SavedOrOnItsWay' /\ NothingAmiss'
    BY <2>1, WrittenInv
  <2>3. Typed' BY <2>2 DEF Inv, Typed, Phases, Flags
  <2>4. AtMostOne' BY <2>2, NoneOrOne DEF Inv, AtMostOne
  <2>5. RunsOnSaved'
    <3>1. c \in Contents BY DEF Inv, Typed
    <3>2. (file'.state = "good" /\ file'.c = c) \/ (Readable /\ file'.state # "good")
      BY <2>1, <3>1, WrittenFacts
    <3> QED BY <2>2, <3>2 DEF Inv, RunsOnSaved, RunsOn, Readable
  <2>6. StrategyStays' BY DEF Inv, StrategyStays, ActiveIsKnown
  <2>7. StartedMeansRunning' BY DEF Inv, StartedMeansRunning, TimersRun
  <2> QED BY <2>2, <2>3, <2>4, <2>5, <2>6, <2>7 DEF Inv
<1>2. CASE ~(\E c \in opened : c.agent = live.agent) /\ UNCHANGED <<fileVars, overtaken>>
  <2>1. Typed' BY <1>2 DEF Inv, Typed, Phases, Flags
  <2>2. AtMostOne' BY <1>2 DEF Inv, AtMostOne
  <2>3. SavedOrOnItsWay' BY <1>2 DEF Inv, SavedOrOnItsWay, Readable
  <2>4. NothingAmiss' BY <1>2 DEF Inv, NothingAmiss, Readable, Acceptable, Known
  <2>5. apart BY <1>2 DEF Inv, RunsOnSaved, RunsOn, ValuesOf
  <2>6. RunsOnSaved' BY <2>5 DEF RunsOnSaved
  <2>7. StrategyStays' BY DEF Inv, StrategyStays, ActiveIsKnown
  <2>8. StartedMeansRunning' BY DEF Inv, StartedMeansRunning, TimersRun
  <2> QED BY <2>1, <2>2, <2>3, <2>4, <2>6, <2>7, <2>8 DEF Inv
<1> QED BY <1>1, <1>2


LEMMA StartUpInv == Inv /\ StartUp => Inv'
<1> SUFFICES ASSUME Inv, StartUp PROVE Inv' OBVIOUS
<1> USE DEF StartUp, fileVars, draftVars, history
<1>1. phase' \in Phases BY DEF Phases
<1>2. timers' \in BOOLEAN /\ cronStarted' \in BOOLEAN /\ (timers' <=> phase' = "up")
      /\ (cronStarted' => phase' = "up")
  OBVIOUS
<1>3. Typed' BY <1>1, <1>2 DEF Inv, Typed, Flags
<1>4. AtMostOne' BY DEF Inv, AtMostOne
<1>5. SavedOrOnItsWay' BY DEF Inv, SavedOrOnItsWay, Readable
<1>6. NothingAmiss' BY DEF Inv, NothingAmiss, Readable, Acceptable, Known
<1>7. RunsOnSaved' BY DEF Inv, RunsOnSaved, RunsOn, Readable
<1>8. StrategyStays'
  <2>1. doing = {} BY DEF Inv, StrategyStays
  <2> QED BY <2>1 DEF StrategyStays, ActiveIsKnown, Known
<1>9. StartedMeansRunning' BY <1>2 DEF StartedMeansRunning, TimersRun
<1> QED BY <1>3, <1>4, <1>5, <1>6, <1>7, <1>8, <1>9 DEF Inv

(* A crash of whoever writes leaves the file as it is, or a fragment.      *)
LEMMA FragmentInv ==
  ASSUME Inv, opened # {}, opened' = {}, strayed' = TRUE, UNCHANGED <<meant, overtaken>>,
         file' \in {file} \cup {Torn(s) : s \in {"empty", "cut"}}
  PROVE  file' \in Files /\ SavedOrOnItsWay' /\ NothingAmiss'
<1>1. file' \in Files /\ (file' = file \/ file'.state # "good") BY TornType DEF Inv, Typed
<1>2. SavedOrOnItsWay' BY <1>1 DEF Inv, SavedOrOnItsWay, Readable
<1> QED BY <1>1, <1>2 DEF NothingAmiss

LEMMA DiesInv == Inv /\ Dies => Inv'
<1> SUFFICES ASSUME Inv, Dies PROVE Inv' OBVIOUS
<1> USE DEF Dies, fileVars, draftVars
<1>1. file' \in Files /\ opened' \subseteq opened /\ strayed' \in BOOLEAN
      /\ SavedOrOnItsWay' /\ NothingAmiss' /\ Cardinality(opened') <= 1
  <2>1. CASE phase = "writing" /\ \E c \in opened : c.agent = live.agent
    BY <2>1, FragmentInv, NoneOrOne
  <2>2. CASE ~(phase = "writing" /\ \E c \in opened : c.agent = live.agent)
    <3>1. UNCHANGED <<fileVars, strayed>> BY <2>2
    <3>2. SavedOrOnItsWay' BY <3>1 DEF Inv, SavedOrOnItsWay, Readable
    <3>3. NothingAmiss' BY <3>1 DEF Inv, NothingAmiss, Readable, Acceptable, Known
    <3> QED BY <3>1, <3>2, <3>3 DEF Inv, Typed, Flags, AtMostOne
  <2> QED BY <2>1, <2>2
<1>2. Typed' BY <1>1 DEF Inv, Typed, Phases, Flags
<1>3. AtMostOne' BY <1>1, NoneOrOne DEF Inv, AtMostOne
<1>4. RunsOnSaved' BY DEF RunsOnSaved
<1>5. StrategyStays' BY DEF StrategyStays, ActiveIsKnown
<1>6. StartedMeansRunning' BY DEF StartedMeansRunning, TimersRun
<1> QED BY <1>1, <1>2, <1>3, <1>4, <1>5, <1>6 DEF Inv

-----------------------------------------------------------------------------
(* The agent at work.                                                      *)

LEMMA StartCronJobsFacts ==
  ASSUME Inv, phase = "up", StartCronJobs
  PROVE  timers' \in BOOLEAN /\ stranded' \in BOOLEAN /\ (timers' \/ stranded')
<1>1. ~bereft => live.active \in Known BY DEF Inv, StrategyStays, ActiveIsKnown
<1>2. timers' \in BOOLEAN /\ (timers' <=> live.active \in Known)
  <2>1. timers' = (live.active \in Known) BY DEF StartCronJobs
  <2>2. (live.active \in Known) \in BOOLEAN OBVIOUS
  <2> QED BY <2>1, <2>2
<1>3. stranded' \in BOOLEAN /\ (stranded' <=> stranded \/ (bereft /\ ~timers')) BY DEF StartCronJobs
<1> QED BY <1>1, <1>2, <1>3

LEMMA UpdateThrowsInv ==
  ASSUME Inv, NEW call, UpdateThrows(call) PROVE Inv'
<1> USE DEF UpdateThrows, Free, cronVars, fileVars, draftVars
<1>1. edits' \in 0..MaxEdits BY SettingsAssumption DEF Inv, Typed
<1>2. live' \in Running /\ live'.active = live.active BY <1>1, LiveAfterFacts DEF Inv, Typed
<1>3. Typed' BY <1>1, <1>2 DEF Inv, Typed, Phases, Flags
<1>4. AtMostOne' BY DEF Inv, AtMostOne
<1>5. SavedOrOnItsWay' BY DEF Inv, SavedOrOnItsWay, Readable
<1>6. NothingAmiss' BY DEF Inv, NothingAmiss, Readable, Acceptable, Known
<1>7. RunsOnSaved' BY DEF Inv, RunsOnSaved, RunsOn, Readable
<1>8. StrategyStays' BY <1>2 DEF Inv, StrategyStays, ActiveIsKnown, Known
<1>9. StartedMeansRunning' BY DEF Inv, StartedMeansRunning, TimersRun
<1> QED BY <1>3, <1>4, <1>5, <1>6, <1>7, <1>8, <1>9 DEF Inv

LEMMA UpdateConfigInv ==
  ASSUME Inv, NEW call, UpdateConfig(call) PROVE Inv'
<1> USE DEF UpdateConfig, Free, draftVars
<1> DEFINE keys == ToSet(call)
           c == Persisted(call, edits')
<1>1. edits' \in 0..MaxEdits BY SettingsAssumption DEF Inv, Typed
<1>2. /\ c \in Contents /\ c.active = file.c.active
      /\ (c.valid <=> file.c.valid /\ ~Rejected(call))
      /\ ValuesOf(c) = Sets(keys, ValuesOf(file.c), edits')
  <2>1. file.c \in Contents BY DEF Inv, Typed, Files
  <2> DEFINE d == Sets(keys, file.c, edits')
  <2>2. d \in Contents /\ d.valid = file.c.valid /\ d.active = file.c.active
        /\ ValuesOf(d) = Sets(keys, ValuesOf(file.c), edits')
    BY <1>1, <2>1, SetsType
  <2>3. c = [d EXCEPT !.valid = @ /\ ~Rejected(call)] BY DEF Persisted
  <2> HIDE DEF c, d
  <2> QED BY <2>2, <2>3 DEF Contents, ValuesOf
<1> HIDE DEF c
<1>3. SaveJson(c) /\ Readable BY DEF c, Refused
<1>4. file' \in Files /\ file'.state = "good" /\ file'.c = c /\ opened' = {}
  BY <1>2, <1>3, SaveJsonFacts
<1>5. /\ live' \in Running /\ live'.active = live.active /\ meant' \in Values
      /\ ValuesOf(live') = Sets(keys, ValuesOf(live), edits')
      /\ "elsewhere" \in live'.unsaved => "elsewhere" \in live.unsaved \/ Rejected(call)
  BY <1>1, SetsType, LiveAfterFacts DEF Inv, Typed, Rejected
<1>6. /\ timers' \in BOOLEAN /\ stranded' \in BOOLEAN
      /\ UNCHANGED <<timers, stranded>> \/ timers' \/ stranded'
  BY StartCronJobsFacts DEF Inv, Typed, Flags
<1>7. Typed' BY <1>1, <1>4, <1>5, <1>6 DEF Inv, Typed, Phases, Flags
<1>8. AtMostOne' BY <1>4, NoneOrOne DEF Inv, AtMostOne
<1>9. SavedOrOnItsWay' BY <1>2, <1>3, <1>4 DEF Inv, SavedOrOnItsWay, Readable
<1>10. NothingAmiss' BY <1>2, <1>3, <1>4 DEF Inv, NothingAmiss, Readable, Acceptable, Known
<1>11. RunsOnSaved' BY <1>2, <1>4, <1>5 DEF Inv, RunsOnSaved, RunsOn, Readable
<1>12. StrategyStays' BY <1>5 DEF Inv, StrategyStays, ActiveIsKnown, Known
<1>13. StartedMeansRunning' BY <1>6 DEF Inv, StartedMeansRunning, TimersRun
<1> QED BY <1>7, <1>8, <1>9, <1>10, <1>11, <1>12, <1>13 DEF Inv

LEMMA EvolveInv == Inv /\ Evolve => Inv'
<1> SUFFICES ASSUME Inv, Evolve PROVE Inv' OBVIOUS
<1> USE DEF Evolve, Free, cronVars, draftVars
<1> DEFINE c == [file.c EXCEPT !.organic = edits']
<1>1. edits' \in 0..MaxEdits BY SettingsAssumption DEF Inv, Typed
<1>2. c \in Contents /\ c.active = file.c.active /\ c.valid = file.c.valid /\ c.organic = edits'
  BY <1>1 DEF Inv, Typed, Files, Contents
<1>3. file' \in Files /\ file'.state = "good" /\ file'.c = c /\ opened' = {}
  BY <1>2, SaveJsonFacts
<1>4. PICK clamped \in {{}, {"bins"}} :
        live' = [live EXCEPT !.organic = edits', !.unsaved = @ \cup clamped]
  BY <1>2, <1>3 DEF Reloaded
<1>5. /\ live' \in Running /\ meant' \in Values /\ live'.active = live.active
      /\ "elsewhere" \in live'.unsaved => "elsewhere" \in live.unsaved
  BY <1>1, <1>4 DEF Inv, Typed, Values, Running
<1>6. /\ ValuesOf(file.c) = meant => ValuesOf(c) = meant'
      /\ ValuesOf(file.c) = ValuesOf(live) => ValuesOf(c) = ValuesOf(live')
  <2>1. /\ live'.plain = live.plain /\ live'.organic = edits'
        /\ live'.active = live.active /\ live'.agent = live.agent
    BY <1>4 DEF Inv, Typed, Running
  <2>2. ValuesOf(file.c) = ValuesOf(live) => ValuesOf(c) = ValuesOf(live')
    BY <2>1 DEF ValuesOf, Inv, Typed, Files, Contents
  <2>3. ValuesOf(file.c) = meant => ValuesOf(c) = meant'
    BY DEF ValuesOf, Inv, Typed, Files, Contents, Values
  <2> QED BY <2>2, <2>3
<1> HIDE DEF c
<1>7. Typed' BY <1>1, <1>3, <1>5 DEF Inv, Typed, Phases, Flags
<1>8. AtMostOne' BY <1>3, NoneOrOne DEF Inv, AtMostOne
<1>9. SavedOrOnItsWay' BY <1>3, <1>6 DEF Inv, SavedOrOnItsWay, Readable
<1>10. NothingAmiss' BY <1>2, <1>3 DEF Inv, NothingAmiss, Readable, Acceptable, Known
<1>11. RunsOnSaved' BY <1>2, <1>3, <1>5, <1>6 DEF Inv, RunsOnSaved, RunsOn, Readable
<1>12. StrategyStays' BY <1>5 DEF Inv, StrategyStays, ActiveIsKnown, Known
<1>13. StartedMeansRunning' BY DEF Inv, StartedMeansRunning, TimersRun
<1> QED BY <1>7, <1>8, <1>9, <1>10, <1>11, <1>12, <1>13 DEF Inv

LEMMA PauseInv == Inv /\ Pause => Inv'
<1> SUFFICES ASSUME Inv, Pause PROVE Inv' OBVIOUS
<1> USE DEF Pause, fileVars, draftVars, history
<1>1. Typed' /\ AtMostOne' BY DEF Inv, Typed, Phases, Flags, AtMostOne
<1>2. SavedOrOnItsWay' /\ RunsOnSaved' BY DEF Inv, SavedOrOnItsWay, RunsOnSaved, RunsOn, Readable
<1>3. NothingAmiss' BY DEF Inv, NothingAmiss, Readable, Acceptable, Known
<1>4. StrategyStays' BY DEF Inv, StrategyStays, ActiveIsKnown, Known
<1>5. StartedMeansRunning' BY DEF StartedMeansRunning, TimersRun
<1> QED BY <1>1, <1>2, <1>3, <1>4, <1>5 DEF Inv

LEMMA ResumeInv == Inv /\ Resume => Inv'
<1> SUFFICES ASSUME Inv, Resume PROVE Inv' OBVIOUS
<1> USE DEF Resume, Free, fileVars, draftVars, history
<1>1. timers' \in BOOLEAN /\ stranded' \in BOOLEAN /\ (timers' \/ stranded')
  BY StartCronJobsFacts DEF Inv, Typed, Flags, StartedMeansRunning
<1>2. Typed' /\ AtMostOne' BY <1>1 DEF Inv, Typed, Phases, Flags, AtMostOne
<1>3. SavedOrOnItsWay' /\ RunsOnSaved' BY DEF Inv, SavedOrOnItsWay, RunsOnSaved, RunsOn, Readable
<1>4. NothingAmiss' BY DEF Inv, NothingAmiss, Readable, Acceptable, Known
<1>5. StrategyStays' BY DEF Inv, StrategyStays, ActiveIsKnown, Known
<1>6. StartedMeansRunning' BY <1>1 DEF StartedMeansRunning, TimersRun
<1> QED BY <1>2, <1>3, <1>4, <1>5, <1>6 DEF Inv


-----------------------------------------------------------------------------
(* The library.                                                            *)

LEMMA ActivateInv ==
  ASSUME OneFile, Inv, phase = "up", NEW id \in Known, Activate(id),
         bereft' = FALSE \/ UNCHANGED bereft, UNCHANGED <<phase, strayed, library>>
  PROVE  /\ file' \in Files /\ live' \in Running /\ meant' \in Values /\ opened' = {}
         /\ overtaken' \in BOOLEAN /\ apart' \in BOOLEAN
         /\ SavedOrOnItsWay' /\ NothingAmiss' /\ RunsOnSaved' /\ live'.active = id
<1>1. id \in Strategies BY DEF Inv, Typed, Known, Strategies
<1>2. /\ file' \in Files /\ file'.state = "good" /\ opened' = {}
      /\ file'.c = [file.c EXCEPT !.active = id]
      /\ live' = [live EXCEPT !.active = id] /\ live' \in Running
      /\ meant' = [meant EXCEPT !.active = id] /\ meant' \in Values
      /\ overtaken' = (overtaken \/ ~Readable) /\ apart' = (apart \/ ~Readable)
      /\ overtaken' \in BOOLEAN /\ apart' \in BOOLEAN
  BY <1>1, ActivateFacts DEF Inv
<1>3. /\ ValuesOf(file.c) = meant => ValuesOf(file'.c) = meant'
      /\ ValuesOf(file.c) = ValuesOf(live) => ValuesOf(file'.c) = ValuesOf(live')
      /\ live'.unsaved = live.unsaved
      /\ file'.c.active = id /\ file'.c.valid = file.c.valid /\ live'.active = id
  BY <1>2 DEF ValuesOf, Inv, Typed, Files, Contents, Values, Running
<1>4. SavedOrOnItsWay' BY <1>2, <1>3 DEF Inv, SavedOrOnItsWay, Readable
<1>5. NothingAmiss' BY <1>2, <1>3 DEF Inv, NothingAmiss, Readable, Acceptable, Known
<1>6. RunsOnSaved' BY <1>2, <1>3 DEF Inv, RunsOnSaved, RunsOn, Readable
<1> QED BY <1>2, <1>3, <1>4, <1>5, <1>6

LEMMA SetActiveInv ==
  ASSUME OneFile, Inv, NEW id, SetActive(id) PROVE Inv'
<1> USE DEF SetActive, Free, cronVars, draftVars
<1>1. /\ file' \in Files /\ live' \in Running /\ meant' \in Values /\ opened' = {}
      /\ overtaken' \in BOOLEAN /\ apart' \in BOOLEAN
      /\ SavedOrOnItsWay' /\ NothingAmiss' /\ RunsOnSaved' /\ live'.active = id
  BY ActivateInv
<1>2. Typed' BY <1>1 DEF Inv, Typed, Phases, Flags
<1>3. AtMostOne' BY <1>1, NoneOrOne DEF Inv, AtMostOne
<1>4. StrategyStays' BY <1>1 DEF StrategyStays, ActiveIsKnown, Known
<1>5. StartedMeansRunning' BY DEF Inv, StartedMeansRunning, TimersRun
<1> QED BY <1>1, <1>2, <1>3, <1>4, <1>5 DEF Inv

LEMMA AddStrategyInv ==
  ASSUME Inv, NEW id \in Private, AddStrategy(id) PROVE Inv'
<1> USE DEF AddStrategy, Free, cronVars, fileVars, draftVars, history
<1>1. library \subseteq library' /\ library' \subseteq Private BY DEF Inv, Typed
<1>2. /\ doing' \subseteq Jobs /\ Cardinality(doing') <= 1
      /\ \A d \in doing' : d.op = "add"
  <2> DEFINE d == [op |-> "add", id |-> id, lib |-> library']
  <2>1. d \in Jobs /\ d.op = "add" BY <1>1 DEF Jobs, Strategies
  <2>2. doing' = {d} \/ doing' = {} OBVIOUS
  <2> HIDE DEF d
  <2> QED BY <2>1, <2>2, NoneOrOne
<1>3. Typed' BY <1>1, <1>2 DEF Inv, Typed, Phases, Flags
<1>4. AtMostOne' BY <1>2 DEF Inv, AtMostOne
<1>5. SavedOrOnItsWay' /\ RunsOnSaved' BY DEF Inv, SavedOrOnItsWay, RunsOnSaved, RunsOn, Readable
<1>6. NothingAmiss' BY <1>1 DEF Inv, NothingAmiss, Readable, Acceptable, Known
<1>7. StrategyStays' BY <1>1, <1>2 DEF Inv, StrategyStays, ActiveIsKnown, Known
<1>8. StartedMeansRunning' BY DEF Inv, StartedMeansRunning, TimersRun
<1> QED BY <1>3, <1>4, <1>5, <1>6, <1>7, <1>8 DEF Inv

LEMMA AddActivatesInv == ASSUME OneFile, Inv, AddActivates PROVE Inv'
<1> USE DEF AddActivates, cronVars, draftVars
<1>1. PICK d \in doing :
        /\ d.op = "add"
        /\ \/ d.id \in Known /\ Activate(d.id) /\ bereft' = FALSE
           \/ d.id \notin Known /\ UNCHANGED <<fileVars, live, meant, overtaken, apart, bereft>>
  OBVIOUS
<1>2. CASE d.id \in Known /\ Activate(d.id) /\ bereft' = FALSE
  <2>1. /\ file' \in Files /\ live' \in Running /\ meant' \in Values /\ opened' = {}
        /\ overtaken' \in BOOLEAN /\ apart' \in BOOLEAN
        /\ SavedOrOnItsWay' /\ NothingAmiss' /\ RunsOnSaved' /\ live'.active = d.id
    BY <1>2, ActivateInv
  <2>2. Typed' BY <1>2, <2>1 DEF Inv, Typed, Phases, Flags
  <2>3. AtMostOne' BY <2>1, NoneOrOne DEF Inv, AtMostOne
  <2>4. StrategyStays' BY <1>2, <2>1 DEF StrategyStays, ActiveIsKnown, Known
  <2>5. StartedMeansRunning' BY DEF Inv, StartedMeansRunning, TimersRun
  <2> QED BY <2>1, <2>2, <2>3, <2>4, <2>5 DEF Inv
<1>3. CASE d.id \notin Known /\ UNCHANGED <<fileVars, live, meant, overtaken, apart, bereft>>
  <2> USE <1>3 DEF fileVars
  <2>1. Typed' BY DEF Inv, Typed, Phases, Flags
  <2>2. AtMostOne' BY NoneOrOne DEF Inv, AtMostOne
  <2>3. SavedOrOnItsWay' /\ RunsOnSaved' BY DEF Inv, SavedOrOnItsWay, RunsOnSaved, RunsOn, Readable
  <2>4. NothingAmiss' BY DEF Inv, NothingAmiss, Readable, Acceptable, Known
  <2>5. StrategyStays' BY DEF Inv, StrategyStays, ActiveIsKnown, Known
  <2>6. StartedMeansRunning' BY DEF Inv, StartedMeansRunning, TimersRun
  <2> QED BY <2>1, <2>2, <2>3, <2>4, <2>5, <2>6 DEF Inv
<1> QED BY <1>1, <1>2, <1>3

LEMMA RemoveStrategyInv ==
  ASSUME OneFile, Inv, NEW id \in Private, RemoveStrategy(id) PROVE Inv'
<1> USE DEF RemoveStrategy, Free, cronVars, fileVars, draftVars
<1> DEFINE d == [op |-> "remove", id |-> id, lib |-> library \ {id}]
<1>1. d \in Jobs /\ d.lib = library \ {id} BY DEF Jobs, Strategies, Inv, Typed
<1>2. doing' = {d} OBVIOUS
<1> HIDE DEF d
<1>3. /\ file' \in Files /\ live' \in Running /\ meant' \in Values
      /\ opened' \in {{}, opened} /\ overtaken' \in BOOLEAN /\ apart' \in BOOLEAN
      /\ SavedOrOnItsWay' /\ NothingAmiss' /\ RunsOnSaved'
      /\ ~bereft => live'.active \in (library \ {id}) \cup Shared
  <2>1. CASE InUse(id)
    <3>1. PICK s \in Remaining(id) : Activate(s) BY <2>1
    <3>2. s \in Known /\ s \in (library \ {id}) \cup Shared BY DEF Remaining, Known
    <3>3. UNCHANGED <<phase, strayed, library, bereft>> OBVIOUS
    <3> QED BY <3>1, <3>2, <3>3, ActivateInv
  <2>2. CASE ~InUse(id)
    <3>1. UNCHANGED <<fileVars, live, meant, overtaken, apart>> BY <2>2
    <3>2. SavedOrOnItsWay' /\ RunsOnSaved' BY <3>1 DEF Inv, SavedOrOnItsWay, RunsOnSaved, RunsOn, Readable
    <3>3. NothingAmiss' BY <3>1 DEF Inv, NothingAmiss, Readable, Acceptable, Known
    <3>4. ~bereft => live'.active \in (library \ {id}) \cup Shared
      BY <2>2, <3>1 DEF InUse, Inv, StrategyStays, ActiveIsKnown, Known
    <3> QED BY <3>1, <3>2, <3>3, <3>4 DEF Inv, Typed, Flags
  <2> QED BY <2>1, <2>2
<1>4. Typed' BY <1>1, <1>2, <1>3 DEF Inv, Typed, Phases, Flags
<1>5. AtMostOne' BY <1>2, <1>3, NoneOrOne DEF Inv, AtMostOne
<1>6. StrategyStays' BY <1>1, <1>2, <1>3 DEF StrategyStays, ActiveIsKnown, Known
<1>7. StartedMeansRunning' BY DEF Inv, StartedMeansRunning, TimersRun
<1> QED BY <1>3, <1>4, <1>5, <1>6, <1>7 DEF Inv

LEMMA RemovedInv == Inv /\ Removed => Inv'
<1> SUFFICES ASSUME Inv, Removed PROVE Inv' OBVIOUS
<1> USE DEF Removed, cronVars, fileVars, draftVars
<1>1. PICK d \in doing :
        /\ d.op = "remove" /\ library' = d.lib
        /\ strayed' = (strayed \/ \E c \in {file.c} \cup opened :
                                    c.active \in library \ (d.lib \cup {live.active}))
  OBVIOUS
<1>2. d.lib \subseteq Private BY DEF Inv, Typed, Jobs
<1>3. ~bereft => live.active \in d.lib \cup Shared BY <1>1 DEF Inv, StrategyStays
<1>4. strayed' \in BOOLEAN /\ (strayed => strayed') BY <1>1
<1>5. Typed' BY <1>1, <1>2, <1>4 DEF Inv, Typed, Phases, Flags
<1>6. AtMostOne' BY NoneOrOne DEF Inv, AtMostOne
<1>7. SavedOrOnItsWay' /\ RunsOnSaved' BY DEF Inv, SavedOrOnItsWay, RunsOnSaved, RunsOn, Readable
<1>8. ASSUME NEW c \in {file.c} \cup opened, ~strayed', Acceptable(c) PROVE Acceptable(c)'
  <2>1. c.active \notin library \ (d.lib \cup {live.active}) BY <1>1, <1>8
  <2> QED BY <1>1, <1>3, <1>8, <2>1 DEF Acceptable, Known
<1>9. NothingAmiss' BY <1>4, <1>8 DEF Inv, NothingAmiss, Readable, Acceptable
<1>10. StrategyStays' BY <1>1, <1>3 DEF Inv, StrategyStays, ActiveIsKnown, Known
<1>11. StartedMeansRunning' BY DEF Inv, StartedMeansRunning, TimersRun
<1> QED BY <1>5, <1>6, <1>7, <1>9, <1>10, <1>11 DEF Inv


LEMMA MergePresetsInv ==
  ASSUME Inv, NEW id \in Private, MergePresets(id) PROVE Inv'
<1> USE DEF MergePresets, runVars, cronVars, fileVars, draftVars, history
<1>1. library \subseteq library' /\ library' \subseteq Private BY DEF Inv, Typed
<1>2. Typed' BY <1>1 DEF Inv, Typed, Phases, Flags
<1>3. AtMostOne' BY DEF Inv, AtMostOne
<1>4. SavedOrOnItsWay' /\ RunsOnSaved' BY DEF Inv, SavedOrOnItsWay, RunsOnSaved, RunsOn, Readable
<1>5. NothingAmiss' BY <1>1 DEF Inv, NothingAmiss, Readable, Acceptable, Known
<1>6. StrategyStays' BY <1>1 DEF Inv, StrategyStays, ActiveIsKnown, Known
<1>7. StartedMeansRunning' BY DEF Inv, StartedMeansRunning, TimersRun
<1> QED BY <1>2, <1>3, <1>4, <1>5, <1>6, <1>7 DEF Inv

LEMMA OtherRemovesInv ==
  ASSUME Inv, NEW id \in Private, OtherRemoves(id) PROVE Inv'
<1> USE DEF OtherRemoves, runVars, cronVars, fileVars, draftVars
<1> DEFINE inUse == {live.active, file.c.active} \cup {c.active : c \in opened \cup web \cup cli}
<1>1. library' = library \ {id} /\ bereft' = (bereft \/ id \in inUse) OBVIOUS
<1>2. bereft' \in BOOLEAN /\ (bereft => bereft') BY <1>1
<1>3. ~bereft' => live.active # id /\ file.c.active # id /\ \A c \in opened : c.active # id
  BY <1>1
<1> HIDE DEF inUse
<1>4. Typed' BY <1>1, <1>2 DEF Inv, Typed, Phases, Flags
<1>5. AtMostOne' BY DEF Inv, AtMostOne
<1>6. SavedOrOnItsWay' /\ RunsOnSaved' BY DEF Inv, SavedOrOnItsWay, RunsOnSaved, RunsOn, Readable
<1>7. NothingAmiss' BY <1>1, <1>2, <1>3 DEF Inv, NothingAmiss, Readable, Acceptable, Known
<1>8. StrategyStays' BY <1>1, <1>2, <1>3 DEF Inv, StrategyStays, ActiveIsKnown, Known
<1>9. StartedMeansRunning' BY DEF Inv, StartedMeansRunning, TimersRun
<1> QED BY <1>4, <1>5, <1>6, <1>7, <1>8, <1>9 DEF Inv

-----------------------------------------------------------------------------
(* The console and the command line.                                       *)

LEMMA WebLoadInv == Inv /\ WebLoad => Inv'
<1> SUFFICES ASSUME Inv, WebLoad PROVE Inv' OBVIOUS
<1> USE DEF WebLoad, runVars, cronVars, fileVars, history
<1>1. Typed' BY DEF Inv, Typed, Files, Phases, Flags
<1>2. AtMostOne' BY NoneOrOne DEF Inv, AtMostOne
<1>3. SavedOrOnItsWay' /\ RunsOnSaved' BY DEF Inv, SavedOrOnItsWay, RunsOnSaved, RunsOn, Readable
<1>4. NothingAmiss' BY DEF Inv, NothingAmiss, Readable, Acceptable, Known
<1>5. StrategyStays' BY DEF Inv, StrategyStays, ActiveIsKnown, Known
<1>6. StartedMeansRunning' BY DEF Inv, StartedMeansRunning, TimersRun
<1> QED BY <1>1, <1>2, <1>3, <1>4, <1>5, <1>6 DEF Inv

(* Others excuse themselves when they break the file or an agent is up.    *)
LEMMA OthersFacts ==
  ASSUME Inv, NEW c \in Contents, Others(c)
  PROVE  /\ apart' \in BOOLEAN /\ (~apart' => ~apart /\ phase = "down")
         /\ strayed' \in BOOLEAN /\ (~strayed' => ~strayed /\ c.active \in Known /\ c.valid)
<1>1. apart' \in BOOLEAN /\ (~apart' => ~apart /\ phase = "down") BY DEF Others
<1>2. strayed' \in BOOLEAN /\ (~strayed' => ~strayed /\ c.active \in Known /\ c.valid)
  BY DEF Others
<1> QED BY <1>1, <1>2

LEMMA WebPutInv == Inv /\ WebPut => Inv'
<1> SUFFICES ASSUME Inv, WebPut PROVE Inv' OBVIOUS
<1> USE DEF WebPut, runVars, cronVars
<1>1. PICK old \in web :
        \E c \in {[old EXCEPT !.plain = edits'], [old EXCEPT !.valid = FALSE]} :
          /\ OpenToWrite(c) /\ web' = {c} /\ Others(c)
          /\ meant' = [meant EXCEPT !.plain = c.plain]
          /\ overtaken' = (overtaken \/ file # Good(old))
  OBVIOUS
<1>2. PICK c \in {[old EXCEPT !.plain = edits'], [old EXCEPT !.valid = FALSE]} :
          /\ OpenToWrite(c) /\ web' = {c} /\ Others(c)
          /\ meant' = [meant EXCEPT !.plain = c.plain]
          /\ overtaken' = (overtaken \/ file # Good(old))
  BY <1>1
<1>3. edits' \in 0..MaxEdits /\ old \in Contents BY SettingsAssumption DEF Inv, Typed
<1>4. /\ c \in Contents
      /\ ValuesOf(c) = [ValuesOf(old) EXCEPT !.plain = c.plain]
  <2>1. CASE c = [old EXCEPT !.plain = edits'] BY <1>3, <2>1 DEF Contents, ValuesOf
  <2>2. CASE c = [old EXCEPT !.valid = FALSE]
    <3>1. c \in Contents BY <1>3, <2>2 DEF Contents
    <3>2. /\ c.plain = old.plain /\ c.organic = old.organic
          /\ c.active = old.active /\ c.agent = old.agent
      BY <1>3, <2>2 DEF Contents
    <3> QED BY <3>1, <3>2 DEF ValuesOf
  <2> QED BY <1>2, <2>1, <2>2
<1>5. file' \in Files /\ file'.state # "good" /\ opened' = {c} BY <1>2, <1>4, OpenToWriteFacts
<1>6. /\ apart' \in BOOLEAN /\ (~apart' => ~apart /\ phase = "down")
      /\ strayed' \in BOOLEAN /\ (~strayed' => ~strayed /\ c.active \in Known /\ c.valid)
  BY <1>2, <1>4, OthersFacts
<1>7. meant' \in Values BY <1>2, <1>4 DEF Inv, Typed, Contents, Values
<1>8. overtaken' \in BOOLEAN /\ (~overtaken' => ~overtaken /\ ValuesOf(old) = meant)
  <2>1. overtaken' \in BOOLEAN /\ (~overtaken' => ~overtaken /\ file = Good(old)) BY <1>2
  <2>2. file = Good(old) => Readable /\ file.c = old BY <1>3, GoodType DEF Readable
  <2> QED BY <2>1, <2>2 DEF Inv, SavedOrOnItsWay
<1>9. Typed' BY <1>2, <1>3, <1>4, <1>5, <1>6, <1>7, <1>8 DEF Inv, Typed, Phases, Flags
<1>10. AtMostOne' BY <1>2, <1>5, NoneOrOne DEF Inv, AtMostOne
<1>11. SavedOrOnItsWay' BY <1>2, <1>4, <1>5, <1>8 DEF SavedOrOnItsWay, Readable
<1>12. NothingAmiss' BY <1>5, <1>6 DEF NothingAmiss, Readable, Acceptable, Known
<1>13. RunsOnSaved' BY <1>6 DEF RunsOnSaved
<1>14. StrategyStays' BY DEF Inv, StrategyStays, ActiveIsKnown, Known
<1>15. StartedMeansRunning' BY DEF Inv, StartedMeansRunning, TimersRun
<1> QED BY <1>9, <1>10, <1>11, <1>12, <1>13, <1>14, <1>15 DEF Inv

LEMMA ConsoleSetsStrategyInv ==
  ASSUME Inv, NEW id \in Strategies, ConsoleSetsStrategy(id) PROVE Inv'
<1> USE DEF ConsoleSetsStrategy, runVars, cronVars, draftVars
<1> DEFINE c == [file.c EXCEPT !.active = id]
<1>1. edits' \in 0..MaxEdits BY SettingsAssumption DEF Inv, Typed
<1>2. c \in Contents /\ ValuesOf(c) = [ValuesOf(file.c) EXCEPT !.active = id]
  BY DEF Inv, Typed, Files, Contents, ValuesOf
<1>3. OpenToWrite(c) /\ Others(c) OBVIOUS
<1> HIDE DEF c
<1>4. file' \in Files /\ file'.state # "good" /\ opened' = {c} BY <1>2, <1>3, OpenToWriteFacts
<1>5. /\ apart' \in BOOLEAN /\ (~apart' => ~apart /\ phase = "down")
      /\ strayed' \in BOOLEAN /\ (~strayed' => ~strayed /\ c.active \in Known /\ c.valid)
  BY <1>2, <1>3, OthersFacts
<1>6. meant' \in Values BY DEF Inv, Typed, Values
<1>7. Typed' BY <1>1, <1>2, <1>4, <1>5, <1>6 DEF Inv, Typed, Phases, Flags
<1>8. AtMostOne' BY <1>4, NoneOrOne DEF Inv, AtMostOne
<1>9. SavedOrOnItsWay' BY <1>2, <1>4 DEF Inv, SavedOrOnItsWay, Readable
<1>10. NothingAmiss' BY <1>4, <1>5 DEF NothingAmiss, Readable, Acceptable, Known
<1>11. RunsOnSaved' BY <1>5 DEF RunsOnSaved
<1>12. StrategyStays' BY DEF Inv, StrategyStays, ActiveIsKnown, Known
<1>13. StartedMeansRunning' BY DEF Inv, StartedMeansRunning, TimersRun
<1> QED BY <1>7, <1>8, <1>9, <1>10, <1>11, <1>12, <1>13 DEF Inv

(* Of two who write, the agent is the one with its identity: while it is   *)
(* writing nobody else is, unless the file was made to differ.             *)
LEMMA OnlyTheAgentWrites ==
  ASSUME Inv, phase # "down", opened # {}, ~apart
  PROVE  phase = "writing" /\ \A c \in opened : c.agent = live.agent
<1>1. phase = "writing" /\ \A c \in opened : ValuesOf(c) = ValuesOf(live)
  BY DEF Inv, RunsOnSaved, RunsOn, Typed, Phases
<1> QED BY <1>1 DEF ValuesOf

LEMMA ConsoleWritesInv == Inv /\ ConsoleWrites => Inv'
<1> SUFFICES ASSUME Inv, ConsoleWrites PROVE Inv' OBVIOUS
<1> USE DEF ConsoleWrites, runVars, cronVars, draftVars
<1>1. PICK c \in opened : (phase = "writing" => c.agent # live.agent) /\ Written(c)
  OBVIOUS
<1>2. /\ file' \in Files /\ opened' = {} /\ overtaken' \in BOOLEAN
      /\ SavedOrOnItsWay' /\ NothingAmiss'
  BY <1>1, WrittenInv
<1>3. Typed' BY <1>2 DEF Inv, Typed, Phases, Flags
<1>4. AtMostOne' BY <1>2, NoneOrOne DEF Inv, AtMostOne
<1>5. RunsOnSaved' BY <1>1, OnlyTheAgentWrites DEF RunsOnSaved
<1>6. StrategyStays' BY DEF Inv, StrategyStays, ActiveIsKnown, Known
<1>7. StartedMeansRunning' BY DEF Inv, StartedMeansRunning, TimersRun
<1> QED BY <1>2, <1>3, <1>4, <1>5, <1>6, <1>7 DEF Inv

LEMMA ConsoleCrashesInv == Inv /\ ConsoleCrashes => Inv'
<1> SUFFICES ASSUME Inv, ConsoleCrashes PROVE Inv' OBVIOUS
<1> USE DEF ConsoleCrashes, runVars, cronVars, draftVars
<1>1. PICK c \in opened : phase = "writing" => c.agent # live.agent OBVIOUS
<1>2. opened # {} BY <1>1
<1>3. file' \in Files /\ SavedOrOnItsWay' /\ NothingAmiss' BY <1>2, FragmentInv
<1>4. Typed' BY <1>3 DEF Inv, Typed, Phases, Flags
<1>5. AtMostOne' BY NoneOrOne DEF Inv, AtMostOne
<1>6. RunsOnSaved' BY <1>1, OnlyTheAgentWrites DEF RunsOnSaved
<1>7. StrategyStays' BY DEF Inv, StrategyStays, ActiveIsKnown, Known
<1>8. StartedMeansRunning' BY DEF Inv, StartedMeansRunning, TimersRun
<1> QED BY <1>3, <1>4, <1>5, <1>6, <1>7, <1>8 DEF Inv

LEMMA CliReadsInv == Inv /\ CliReads => Inv'
<1> SUFFICES ASSUME Inv, CliReads PROVE Inv' OBVIOUS
<1> USE DEF CliReads, runVars, cronVars, fileVars, history
<1>1. edits' \in 0..MaxEdits BY SettingsAssumption DEF Inv, Typed
<1>2. cli' \subseteq Contents /\ Cardinality(cli') <= 1
  <2>1. PICK k \in {"plain", "flat", "unfit"} : cli' = {Persisted(<<k>>, edits')} OBVIOUS
  <2>2. Sets(ToSet(<<k>>), file.c, edits') \in Contents BY <1>1, SetsType DEF Inv, Typed, Files
  <2>3. Persisted(<<k>>, edits') \in Contents BY <2>2 DEF Persisted, Contents
  <2> QED BY <2>1, <2>3, NoneOrOne
<1>3. Typed' BY <1>1, <1>2 DEF Inv, Typed, Phases, Flags
<1>4. AtMostOne' BY <1>2 DEF Inv, AtMostOne
<1>5. SavedOrOnItsWay' /\ RunsOnSaved' BY DEF Inv, SavedOrOnItsWay, RunsOnSaved, RunsOn, Readable
<1>6. NothingAmiss' BY DEF Inv, NothingAmiss, Readable, Acceptable, Known
<1>7. StrategyStays' BY DEF Inv, StrategyStays, ActiveIsKnown, Known
<1>8. StartedMeansRunning' BY DEF Inv, StartedMeansRunning, TimersRun
<1> QED BY <1>3, <1>4, <1>5, <1>6, <1>7, <1>8 DEF Inv

LEMMA CliSavesInv == Inv /\ CliSaves => Inv'
<1> SUFFICES ASSUME Inv, CliSaves PROVE Inv' OBVIOUS
<1> USE DEF CliSaves, runVars, cronVars
<1>1. PICK c \in cli :
        /\ SaveJson(c) /\ Others(c) /\ meant' = [meant EXCEPT !.plain = c.plain]
        /\ overtaken' = (overtaken \/ ~Readable
                        \/ [ValuesOf(file.c) EXCEPT !.plain = 0] # [ValuesOf(c) EXCEPT !.plain = 0]
                        \/ file.c.plain > c.plain)
  OBVIOUS
<1>2. c \in Contents BY DEF Inv, Typed
<1>3. file' \in Files /\ file'.state = "good" /\ file'.c = c /\ opened' = {}
  BY <1>1, <1>2, SaveJsonFacts
<1>4. /\ apart' \in BOOLEAN /\ (~apart' => ~apart /\ phase = "down")
      /\ strayed' \in BOOLEAN /\ (~strayed' => ~strayed /\ c.active \in Known /\ c.valid)
  BY <1>1, <1>2, OthersFacts
<1>5. meant' \in Values BY <1>1, <1>2 DEF Inv, Typed, Contents, Values
<1>6. /\ overtaken' \in BOOLEAN
      /\ ~overtaken' => /\ ~overtaken /\ Readable
                        /\ [ValuesOf(file.c) EXCEPT !.plain = 0] = [ValuesOf(c) EXCEPT !.plain = 0]
  BY <1>1
<1>7. ~overtaken' => ValuesOf(c) = meant'
  <2>1. file.c \in Contents BY DEF Inv, Typed, Files
  <2>2. [ValuesOf(file.c) EXCEPT !.plain = 0] = [ValuesOf(c) EXCEPT !.plain = 0]
          => ValuesOf(c) = [ValuesOf(file.c) EXCEPT !.plain = c.plain]
    BY <1>2, <2>1 DEF Contents, ValuesOf
  <2> QED BY <1>1, <1>6, <2>2 DEF Inv, SavedOrOnItsWay
<1>8. Typed' BY <1>3, <1>4, <1>5, <1>6 DEF Inv, Typed, Phases, Flags
<1>9. AtMostOne' BY <1>3, NoneOrOne DEF Inv, AtMostOne
<1>10. SavedOrOnItsWay' BY <1>3, <1>7 DEF SavedOrOnItsWay
<1>11. NothingAmiss' BY <1>3, <1>4 DEF NothingAmiss, Readable, Acceptable, Known
<1>12. RunsOnSaved' BY <1>4 DEF RunsOnSaved
<1>13. StrategyStays' BY DEF Inv, StrategyStays, ActiveIsKnown, Known
<1>14. StartedMeansRunning' BY DEF Inv, StartedMeansRunning, TimersRun
<1> QED BY <1>8, <1>9, <1>10, <1>11, <1>12, <1>13, <1>14 DEF Inv


-----------------------------------------------------------------------------
LEMMA StutterInv == Inv /\ UNCHANGED vars => Inv'
<1> SUFFICES ASSUME Inv, UNCHANGED vars PROVE Inv' OBVIOUS
<1> USE DEF vars, runVars, cronVars, fileVars, draftVars, history
<1>1. Typed' /\ AtMostOne' BY DEF Inv, Typed, Flags, AtMostOne
<1>2. SavedOrOnItsWay' /\ RunsOnSaved' BY DEF Inv, SavedOrOnItsWay, RunsOnSaved, RunsOn, Readable
<1>3. NothingAmiss' BY DEF Inv, NothingAmiss, Readable, Acceptable, Known
<1>4. StrategyStays' BY DEF Inv, StrategyStays, ActiveIsKnown, Known
<1>5. StartedMeansRunning' BY DEF Inv, StartedMeansRunning, TimersRun
<1> QED BY <1>1, <1>2, <1>3, <1>4, <1>5 DEF Inv

LEMMA InvNext == ASSUME OneFile PROVE Inv /\ [Next]_vars => Inv'
<1>1. Inv /\ Boot => Inv'
  BY LoadInv, IdentifyInv, IdentifiedInv, StartUpInv, DiesInv DEF Boot
<1>2. Inv /\ Agent => Inv'
  BY UpdateConfigInv, UpdateThrowsInv, EvolveInv, PauseInv, ResumeInv, SetActiveInv,
     AddStrategyInv, AddActivatesInv, RemoveStrategyInv, RemovedInv DEF Agent
<1>3. Inv /\ Outside => Inv'
  BY MergePresetsInv, OtherRemovesInv, WebLoadInv, WebPutInv, ConsoleSetsStrategyInv,
     ConsoleWritesInv, ConsoleCrashesInv, CliReadsInv, CliSavesInv
  DEF Outside, PullPresets, OtherAdds
<1> QED BY <1>1, <1>2, <1>3, StutterInv DEF Next

LEMMA InvHolds == ASSUME OneFile PROVE Spec => []Inv
BY InvInit, InvNext, PTL DEF Spec

(* What the last writer of a setting meant is in the file, unless a copy   *)
(* out of date was written over it; and what the agent runs with is what   *)
(* the file says, unless others wrote it, a call was applied in part, bin  *)
(* counts were clamped or a key went to a path the schema does not know,   *)
(* which leaves a file that no start accepts.  All of it where the pointer *)
(* to the strategy is written to the file that the agent loads.            *)
THEOREM SettingsKept == ASSUME OneFile PROVE Spec => []SettingsAreKept
<1>1. Inv => SettingsAreKept
  <2> SUFFICES ASSUME Inv PROVE SettingsAreKept OBVIOUS
  <2>1. {timers, cronStarted, paused, stranded, overtaken, strayed, bereft, apart} \subseteq BOOLEAN
    BY DEF Inv, Typed, Flags
  <2>2. TypeOK BY <2>1 DEF Inv, Typed, AtMostOne, Phases, Files, Jobs, TypeOK
  <2>3. MeantIsSaved BY DEF Inv, SavedOrOnItsWay, MeantIsSaved
  <2>4. RestartChangesNothing BY DEF Inv, RunsOnSaved, RunsOn, RestartChangesNothing
  <2> QED BY <2>2, <2>3, <2>4 DEF SettingsAreKept
<1> QED BY <1>1, InvHolds, PTL

(* The agent can start again, its strategy is in a library and its cycles  *)
(* are scheduled, but for the cases that the history variables name: an    *)
(* update_config whose key or value the schema does not know is one.       *)
THEOREM AgentStays == ASSUME OneFile PROVE Spec => []AgentGoesOn
<1>1. Inv => AgentGoesOn
  BY DEF Inv, NothingAmiss, Acceptable, StrategyStays, StartedMeansRunning, BootsAgain, AgentGoesOn
<1> QED BY <1>1, InvHolds, PTL

(* An agent makes itself an identity only if the file has none, and then   *)
(* none was given before, unless a fragment was read for the file.         *)
LEMMA IdentityStep ==
  ASSUME Inv, [Next]_vars, meant.agent # 0, ~overtaken'
  PROVE  meant'.agent = meant.agent
<1> USE DEF runVars, cronVars, fileVars, draftVars, history
<1>1. CASE UNCHANGED vars BY <1>1 DEF vars
<1>2. CASE Boot
  <2>1. CASE Identify
    <3>1. CASE Identity # 0 BY <2>1, <3>1 DEF Identify
    <3>2. CASE Identity = 0
      <4>1. Readable /\ ~overtaken BY <2>1, <3>2 DEF Identify
      <4>2. file.c.agent = meant.agent BY <4>1 DEF Inv, SavedOrOnItsWay, ValuesOf
      <4> QED BY <3>2, <4>2 DEF Identity
    <3> QED BY <3>1, <3>2
  <2> QED BY <1>2, <2>1 DEF Boot, Load, Identified, StartUp, Dies
<1>3. CASE Agent
  <2>1. ASSUME NEW call, UpdateConfig(call) PROVE meant'.agent = meant.agent
    <3>1. edits' \in 0..MaxEdits BY <2>1, SettingsAssumption DEF UpdateConfig, Inv, Typed
    <3> QED BY <2>1, <3>1, SetsType DEF UpdateConfig, Inv, Typed
  <2>2. ASSUME NEW id, Activate(id) PROVE meant'.agent = meant.agent
    BY <2>2 DEF Activate, Inv, Typed, Values
  <2>3. Evolve => meant'.agent = meant.agent BY DEF Evolve, Inv, Typed, Values
  <2>4. Pause \/ Resume \/ Removed => meant'.agent = meant.agent BY DEF Pause, Resume, Removed
  <2>5. AddActivates => meant'.agent = meant.agent BY <2>2 DEF AddActivates
  <2>6. ASSUME NEW id, SetActive(id) \/ AddStrategy(id) \/ RemoveStrategy(id)
        PROVE  meant'.agent = meant.agent
    BY <2>2, <2>6 DEF SetActive, AddStrategy, RemoveStrategy
  <2>7. ASSUME NEW call, UpdateThrows(call) PROVE meant'.agent = meant.agent
    BY <2>7 DEF UpdateThrows
  <2> QED BY <1>3, <2>1, <2>3, <2>4, <2>5, <2>6, <2>7 DEF Agent
<1>4. CASE Outside
  <2>1. ASSUME NEW id, PullPresets(id) \/ OtherAdds(id) \/ OtherRemoves(id)
        PROVE  meant'.agent = meant.agent
    BY <2>1 DEF PullPresets, OtherAdds, MergePresets, OtherRemoves
  <2>2. ASSUME NEW id, ConsoleSetsStrategy(id) PROVE meant'.agent = meant.agent
    BY <2>2 DEF ConsoleSetsStrategy, Inv, Typed, Values
  <2>3. WebPut \/ CliSaves => meant'.agent = meant.agent BY DEF WebPut, CliSaves, Inv, Typed, Values
  <2>4. WebLoad \/ ConsoleWrites \/ ConsoleCrashes \/ CliReads => meant'.agent = meant.agent
    BY DEF WebLoad, ConsoleWrites, ConsoleCrashes, CliReads
  <2> QED BY <1>4, <2>1, <2>2, <2>3, <2>4 DEF Outside
<1> QED BY <1>1, <1>2, <1>3, <1>4 DEF Next

(* An agent keeps the identity it was given.                               *)
THEOREM IdentityKept == ASSUME OneFile PROVE Spec => IdentityStays
<1>1. Inv /\ [Next]_vars => [meant.agent # 0 => meant'.agent = meant.agent \/ overtaken']_vars
  BY IdentityStep
<1> QED BY <1>1, InvHolds, PTL DEF Spec, IdentityStays
===============================================================================
