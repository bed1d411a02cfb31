------------------------------ MODULE Settings ------------------------------
(***************************************************************************)
(* The configuration file of one agent, the values the agent runs with,    *)
(* and everybody who writes the file: the agent itself (update_config from *)
(* Telegram, its menu, the model and IPC; evolveThresholds; the pointer to *)
(* the active strategy; the identity of its HiveMind client), the console  *)
(* that manages the agent (a page that loads, edits and puts back the      *)
(* whole file; a choice of strategy) and the command line.  The library of *)
(* private strategies is a file that all agents share.                     *)
(*                                                                         *)
(* A content of the file is abstracted to                                  *)
(*   plain    the edit that gave all keys with a path of their own a value *)
(*   organic  the edit that set screening.common (the evolved thresholds)  *)
(*   active   strategy.activeStrategyId                                    *)
(*   agent    api.hiveMind.agentId, 0 before there is one                  *)
(*   valid    the strict schema accepts it: nothing missing or unknown     *)
(* The agent saves by renaming a finished copy over the file; the console, *)
(* and the agent when it writes its identity, truncate and then write it.  *)
(* What the agent runs with has, besides the values of a content,          *)
(*   unsaved  the kinds of values that are not where a start looks for     *)
(*            them: of keys saved at another path, and bin counts that     *)
(*            were clamped after the file was written                      *)
(* Left out: resetting the identity (hiveMindAgentId of update_config).    *)
(***************************************************************************)
EXTENDS Naturals, Sequences, SequencesExt, FiniteSets

CONSTANTS Private, Shared, \* strategies of the private and of the bundled library
          Default,         \* the active one of the default configuration
          Calls,           \* sequences of keys that one update_config of the model or /setcfg changes
          Market,          \* screening.market is enabled
          Explicit,        \* the agent was started with AGENT_CONFIG_PATH
          TwoFiles,        \* config/agent-config.json stands beside instances/agent-default.json
          MaxEdits, MaxBoots \* bounds on edits and on process starts

Strategies == Private \cup Shared
(* Kinds of keys.  Those whose value is saved where a start looks for it:  *)
(* plain ones, intervals (they restart the timers), bin counts, and unfit  *)
(* ones, whose normalised value the schema does not accept there: booleans *)
(* that normalizeConfigValue makes 1 or 0, and null.  Those that change a  *)
(* live value and are saved at a path the schema does not know: flat keys  *)
(* (binsBelow, pnlSource, gmgnApiKey ..., strategy) and the poller's       *)
(* interval.  Screening keys, some of the market block only; bad values;   *)
(* unknown keys.                                                           *)
Placed == {"plain", "interval", "bins", "unfit"}
Elsewhere == {"flat", "poll"}
Screening == {"screening", "market"}
Keys == Placed \cup Elsewhere \cup Screening \cup {"bad", "unknown"}

ASSUME SettingsAssumption ==
  /\ Private \cap Shared = {} /\ Default \in Shared
  /\ Calls \subseteq Seq(Keys)
  /\ Market \in BOOLEAN /\ Explicit \in BOOLEAN /\ TwoFiles \in BOOLEAN
  /\ MaxEdits \in Nat /\ MaxBoots \in Nat

VARIABLES
  phase,      \* of the agent: down, loaded, writing (its identity), identified, up
  file,       \* state (good, empty, cut) and content
  live,       \* the values the agent runs with
  library,    \* ids in the private library
  doing,      \* the rest of an addStrategy or removeStrategy of the agent, if any
  timers, cronStarted,
  web,        \* the page's copy of the file, if it is open
  cli,        \* what a `config set' has read and changed, if one runs
  opened,     \* what the console, or the agent, is writing into the truncated file
  (* history *)
  edits, boots,
  meant,      \* what the last writer of each field meant it to be
  paused,     \* the operator has paused the cycles
  overtaken,  \* a copy of the file that was out of date, or a fragment, was written
  strayed,    \* a writer was let to make the file unacceptable
  bereft,     \* another agent removed the strategy in use
  stranded,   \* ... and the timers were to be started meanwhile
  apart       \* since this start others wrote the file, or an update half applied

cronVars == <<timers, cronStarted, paused, stranded>>
runVars == <<phase, live, doing, cronVars>>
fileVars == <<file, opened>>
draftVars == <<web, cli>>
history == <<meant, overtaken, strayed, bereft, apart>>
vars == <<runVars, fileVars, draftVars, library, edits, boots, history>>

Contents == [plain : 0..MaxEdits, organic : 0..MaxEdits, active : Strategies,
             agent : 0..MaxBoots, valid : BOOLEAN]
Values == [plain : 0..MaxEdits, organic : 0..MaxEdits, active : Strategies, agent : 0..MaxBoots]
Running == [plain : 0..MaxEdits, organic : 0..MaxEdits, active : Strategies, agent : 0..MaxBoots,
            unsaved : SUBSET {"elsewhere", "bins"}]

DefaultConfig == [plain |-> 0, organic |-> 0, active |-> Default, agent |-> 0, valid |-> TRUE]
(* What a reader that falls back on {} finds in an unreadable file. *)
Fragment == [DefaultConfig EXCEPT !.valid = FALSE]

Good(c) == [state |-> "good", c |-> c]
Torn(s) == [state |-> s, c |-> Fragment]
Readable == file.state = "good"
Known == library \cup Shared

ValuesOf(c) == [plain |-> c.plain, organic |-> c.organic, active |-> c.active, agent |-> c.agent]

(* buildConfig. *)
Loaded(c) == [plain |-> c.plain, organic |-> c.organic, active |-> c.active, agent |-> c.agent,
              unsaved |-> {}]

(* Rename over the file: who has the old one open writes into nothing. *)
SaveJson(c) == file' = Good(c) /\ opened' = {}

(* Truncate it. *)
OpenToWrite(c) == file' = Torn("empty") /\ opened' = {c}

(* The content reaches the file; one written in the meantime may show behind it. *)
Written(c) ==
  /\ opened' = {}
  /\ \/ file' = Good(c)
     \/ Readable /\ file' = Torn("cut")

-----------------------------------------------------------------------------
(* Start of the agent. *)

(* loadAndValidateConfig: a file that is empty becomes the default one,    *)
(* unless its path was given; any other that is not valid ends the start.  *)
Load ==
  /\ phase = "down" /\ boots < MaxBoots
  /\ boots' = boots + 1
  /\ \/ /\ Readable /\ file.c.valid
        /\ live' = Loaded(file.c)
        /\ UNCHANGED <<fileVars, overtaken>>
     \/ /\ file.state = "empty" /\ ~Explicit
        /\ file' = Good(DefaultConfig) /\ live' = Loaded(DefaultConfig)
        /\ overtaken' = TRUE /\ UNCHANGED opened
  /\ phase' = "loaded" /\ apart' = (opened # {})
  /\ UNCHANGED <<doing, cronVars, draftVars, library, edits, meant, strayed, bereft>>

\* Mutant: the identity in the file is not looked up.
IdentityNone == 0

(* The id that ensureAgentId reads. *)
Identity == file.c.agent

(* ensureAgentId: takes the id in the file or makes one and writes it back *)
(* with all it has read, which is nothing when the file is unreadable.     *)
Identify ==
  /\ phase = "loaded"
  /\ \/ /\ Identity # 0
        /\ phase' = "identified" /\ live' = [live EXCEPT !.agent = Identity]
        /\ UNCHANGED <<fileVars, meant, overtaken, apart>>
     \/ /\ Identity = 0
        /\ phase' = "writing" /\ live' = [live EXCEPT !.agent = boots]
        /\ OpenToWrite([file.c EXCEPT !.agent = boots])
        /\ meant' = [meant EXCEPT !.agent = boots]
        /\ overtaken' = (overtaken \/ ~Readable) /\ apart' = (apart \/ ~Readable)
  /\ UNCHANGED <<doing, cronVars, draftVars, library, edits, boots, strayed, bereft>>

Identified ==
  /\ phase = "writing" /\ phase' = "identified"
  /\ \/ \E c \in opened : c.agent = live.agent /\ Written(c) /\ overtaken' = (overtaken \/ Readable)
     \/ ~(\E c \in opened : c.agent = live.agent) /\ UNCHANGED <<fileVars, overtaken>>
  /\ UNCHANGED <<live, doing, cronVars, draftVars, library, edits, boots, meant,
                 strayed, bereft, apart>>

(* validateActiveStrategy ends a start whose strategy is in no library;    *)
(* else the timers start.  Only the REPL notes that they have.             *)
StartUp ==
  /\ phase = "identified"
  /\ phase' = IF live.active \in Known THEN "up" ELSE "down"
  /\ timers' = (phase' = "up") /\ paused' = FALSE /\ stranded' = FALSE
  /\ cronStarted' \in {FALSE, phase' = "up"}
  /\ UNCHANGED <<live, doing, fileVars, draftVars, library, edits, boots, history>>

(* The agent stops or crashes; what it was writing is empty, or cut off.    *)
Dies ==
  /\ phase # "down" /\ phase' = "down"
  /\ doing' = {} /\ timers' = FALSE /\ cronStarted' = FALSE /\ paused' = FALSE /\ stranded' = FALSE
  /\ IF phase = "writing" /\ \E c \in opened : c.agent = live.agent
     THEN opened' = {} /\ strayed' = TRUE /\ file' \in {file} \cup {Torn(s) : s \in {"empty", "cut"}}
     ELSE UNCHANGED <<fileVars, strayed>>
  /\ UNCHANGED <<live, draftVars, library, edits, boots, meant, overtaken, bereft, apart>>

-----------------------------------------------------------------------------
(* update_config in the running agent. *)

Free == phase = "up" /\ doing = {}
(* The settings menu of Telegram changes one key at a time, from its live  *)
(* value.  It lets toggle three of the unfit ones, set strategy, and send  *)
(* presets and timeframes of indicators, which are not numbers.            *)
MenuKeys == {"plain", "interval", "bins", "market", "flat", "unfit", "bad"}
MenuCalls == {<<k>> : k \in MenuKeys}

(* normalizeConfigValue: a value of the wrong type is an error.  What is    *)
(* not on its lists of booleans, strings and arrays becomes a number, and   *)
(* null stays null: keys of kind unfit.                                     *)
Normal(call) == "bad" \notin ToSet(call)

(* One value that cannot be normalised, or an unreadable file, refuses the *)
(* call; unknown keys are passed over; market keys need the market block.  *)
Refused(call) ==
  \/ ~Normal(call)
  \/ "market" \in ToSet(call) /\ ~Market
  \/ ToSet(call) \subseteq {"unknown"}
  \/ ~Readable

(* The part of a call that is applied to the live values: up to the first   *)
(* screening key, whose path they do not have.                              *)
AppliedPart(call) ==
  {call[i] : i \in {i \in DOMAIN call : \A j \in 1..i : call[j] \notin Screening}}

Sets(keys, values, e) == IF keys \cap Placed = {} THEN values ELSE [values EXCEPT !.plain = e]

(* The live values after keys were applied to them.  Bin counts are clamped *)
(* to each other, which may change what was saved.                          *)
LiveAfter(keys, e) ==
  {[Sets(keys, live, e) EXCEPT !.unsaved =
      @ \cup (IF keys \cap Elsewhere = {} THEN {} ELSE {"elsewhere"}) \cup clamped] :
     clamped \in IF "bins" \in keys THEN {{}, {"bins"}} ELSE {{}}}

\* Mutant: the values are applied before the file is read and the blocks are checked.
UpdateThrowsLate(call) ==
  /\ Free /\ edits < MaxEdits
  /\ Normal(call)
  /\ Refused(call) \/ ToSet(call) \cap Screening # {}
  /\ edits' = edits + 1
  /\ live' \in LiveAfter(AppliedPart(call), edits')
  /\ apart' = (apart \/ (live' # live /\ ~Refused(call)))
  /\ UNCHANGED <<phase, doing, cronVars, fileVars, draftVars, library, boots, meant,
                 overtaken, strayed, bereft>>

(* A screening key throws: what precedes it is live, and nothing is saved. *)
UpdateThrows(call) ==
  /\ Free /\ edits < MaxEdits /\ ~Refused(call)
  /\ ToSet(call) \cap Screening # {}
  /\ edits' = edits + 1
  /\ live' \in LiveAfter(AppliedPart(call), edits')
  /\ apart' = (apart \/ live' # live)
  /\ UNCHANGED <<phase, doing, cronVars, fileVars, draftVars, library, boots, meant,
                 overtaken, strayed, bereft>>

(* What the schema, strict as it is, does not accept: neither a path it     *)
(* does not know nor a value that envBoolean or envNumber rejects.          *)
Rejected(call) == ToSet(call) \cap (Elsewhere \cup {"unfit"}) # {}

\* Mutant: the file is written from the live values.
PersistedFromLive(call, e) == [Sets(ToSet(call), ValuesOf(live) @@ [valid |-> TRUE], e)
                                 EXCEPT !.valid = ~Rejected(call)]

(* The file as read, with the changes at their paths. *)
Persisted(call, e) == [Sets(ToSet(call), file.c, e) EXCEPT !.valid = @ /\ ~Rejected(call)]

(* startCronJobs stops the timers, and starts them if the strategy is known. *)
StartCronJobs ==
  /\ timers' = (live.active \in Known)
  /\ stranded' = (stranded \/ (bereft /\ ~timers'))

UpdateConfig(call) ==
  /\ Free /\ edits < MaxEdits /\ ~Refused(call)
  /\ ToSet(call) \cap Screening = {}
  /\ edits' = edits + 1
  /\ live' \in LiveAfter(ToSet(call), edits')
  /\ SaveJson(Persisted(call, edits'))
  /\ meant' = Sets(ToSet(call), meant, edits')
  /\ strayed' = (strayed \/ Rejected(call))
  /\ IF ToSet(call) \cap {"interval", "poll"} # {} /\ cronStarted THEN StartCronJobs ELSE UNCHANGED <<timers, stranded>>
  /\ UNCHANGED <<phase, doing, cronStarted, paused, draftVars, library, boots, overtaken, bereft, apart>>

(* reloadScreeningThresholds, which only evolution calls. *)
Reloaded(c) == c.organic

(* evolveThresholds changes the screening floors of what it can read of    *)
(* the file, and reloads them; bin counts are read again, and clamped.     *)
Evolve ==
  /\ Free /\ edits < MaxEdits /\ edits' = edits + 1
  /\ SaveJson([file.c EXCEPT !.organic = edits'])
  /\ \E clamped \in {{}, {"bins"}} :
       live' = [live EXCEPT !.organic = Reloaded(file'.c), !.unsaved = @ \cup clamped]
  /\ meant' = [meant EXCEPT !.organic = edits']
  /\ overtaken' = (overtaken \/ ~Readable) /\ apart' = (apart \/ ~Readable)
  /\ UNCHANGED <<phase, doing, cronVars, draftVars, library, boots, strayed, bereft>>

\* Mutant: the jobs stay noted as started.
PauseForgets ==
  /\ Free /\ timers' = FALSE /\ paused' = TRUE
  /\ UNCHANGED <<phase, live, doing, cronStarted, stranded, fileVars, draftVars, library, edits, boots, history>>

(* /pause and /resume.  A resume that finds the strategy gone throws after *)
(* it has noted that the jobs are started.                                 *)
Pause ==
  /\ Free /\ timers' = FALSE /\ cronStarted' = FALSE /\ paused' = TRUE
  /\ UNCHANGED <<phase, live, doing, stranded, fileVars, draftVars, library, edits, boots, history>>

Resume ==
  /\ Free /\ paused' = FALSE /\ cronStarted' = TRUE
  /\ IF cronStarted THEN UNCHANGED <<timers, stranded>> ELSE StartCronJobs
  /\ UNCHANGED <<phase, live, doing, fileVars, draftVars, library, edits, boots, history>>

-----------------------------------------------------------------------------
(* The strategy library. *)

(* Where setActiveStrategy writes (configPath of agent-config.json) is the *)
(* file that the agent loads (AGENT_CONFIG_PATH).                          *)
OneFile == Explicit \/ ~TwoFiles

(* setActiveStrategy of a known id: the pointer in the file, then the live one. *)
Activate(id) ==
  /\ IF OneFile
     THEN /\ SaveJson([file.c EXCEPT !.active = id])
          /\ overtaken' = (overtaken \/ ~Readable) /\ apart' = (apart \/ ~Readable)
     ELSE UNCHANGED <<fileVars, overtaken, apart>>
  /\ live' = [live EXCEPT !.active = id]
  /\ meant' = [meant EXCEPT !.active = id]

SetActive(id) ==
  /\ Free /\ id \in Known
  /\ Activate(id) /\ bereft' = FALSE
  /\ UNCHANGED <<phase, doing, cronVars, draftVars, library, edits, boots, strayed>>

(* addStrategy: the library is saved; the only private strategy becomes active. *)
AddStrategy(id) ==
  /\ Free /\ library' = library \cup {id}
  /\ doing' = IF library' = {id} THEN {[op |-> "add", id |-> id, lib |-> library']} ELSE {}
  /\ UNCHANGED <<phase, live, cronVars, fileVars, draftVars, edits, boots, history>>

AddActivates ==
  /\ phase = "up" /\ doing' = {}
  /\ \E d \in doing :
       /\ d.op = "add"
       /\ \/ d.id \in Known /\ Activate(d.id) /\ bereft' = FALSE
          \/ d.id \notin Known /\ UNCHANGED <<fileVars, live, meant, overtaken, apart, bereft>>
  /\ UNCHANGED <<phase, cronVars, draftVars, library, edits, boots, strayed>>

\* Mutant: the bundled strategies are not considered.
RemainingPrivate(id) == IF library = {id} THEN {"none"} ELSE library \ {id}

(* The strategies one of which becomes active when id is removed: a private *)
(* one if there is one.                                                     *)
Remaining(id) == IF library = {id} THEN Shared ELSE library \ {id}

\* Mutant: the pointer in the file is looked at instead of the live one.
InUseBySaved(id) == file.c.active = id

InUse(id) == live.active = id

\* Mutant: the library is saved first.
RemoveStrategyFirst(id) ==
  /\ Free /\ id \in library
  /\ library' = library \ {id}
  /\ doing' = IF live.active = id THEN {[op |-> "add", id |-> CHOOSE s \in Remaining(id) : TRUE, lib |-> library']}
                                  ELSE {}
  /\ strayed' = (strayed \/ (file.c.active = id /\ live.active # id))
  /\ UNCHANGED <<phase, live, cronVars, fileVars, draftVars, edits, boots, meant,
                 overtaken, bereft, apart>>

(* removeStrategy: the pointer of a strategy in use is moved, then the      *)
(* library is saved as it was read, without what others added meanwhile.    *)
(* A pointer in the file that the agent does not run with is not looked at. *)
RemoveStrategy(id) ==
  /\ Free /\ id \in library
  /\ doing' = {[op |-> "remove", id |-> id, lib |-> library \ {id}]}
  /\ IF InUse(id) THEN \E s \in Remaining(id) : Activate(s)
                  ELSE UNCHANGED <<fileVars, live, meant, overtaken, apart>>
  /\ UNCHANGED <<phase, cronVars, draftVars, library, edits, boots, strayed, bereft>>

Removed ==
  /\ phase = "up" /\ doing' = {}
  /\ \E d \in doing :
       /\ d.op = "remove" /\ library' = d.lib
       /\ strayed' = (strayed \/ \E c \in {file.c} \cup opened :
                                   c.active \in library \ (d.lib \cup {live.active}))
  /\ UNCHANGED <<phase, live, cronVars, fileVars, draftVars, edits, boots, meant, overtaken, bereft, apart>>

(* mergePresets adds a preset the library lacks, and touches no pointer. *)
MergePresets(id) ==
  /\ id \notin library /\ library' = library \cup {id}
  /\ UNCHANGED <<runVars, fileVars, draftVars, edits, boots, history>>

(* HiveMind answers a pull: bootstrapHiveMind asks, and then each heartbeat. *)
PullPresets(id) == phase \in {"identified", "up"} /\ doing = {} /\ MergePresets(id)

(* Another agent pulls, or is told to add one. *)
OtherAdds(id) == MergePresets(id)

(* Another agent removes a strategy, and moves no pointer but its own. *)
OtherRemoves(id) ==
  /\ id \in library /\ library' = library \ {id}
  /\ bereft' = (bereft \/ id \in {live.active, file.c.active} \cup {c.active : c \in opened \cup web \cup cli})
  /\ UNCHANGED <<runVars, fileVars, draftVars, edits, boots, meant, overtaken, strayed, apart>>

-----------------------------------------------------------------------------
(* The console and the command line. *)

Others(c) == apart' = (apart \/ phase # "down") /\ strayed' = (strayed \/ c.active \notin Known \/ ~c.valid)

(* GET /api/config. *)
WebLoad ==
  /\ Readable /\ web' = {file.c}
  /\ UNCHANGED <<runVars, fileVars, cli, library, edits, boots, history>>

(* PUT /api/config: one key of the copy is changed, and the copy written. *)
WebPut ==
  /\ edits < MaxEdits /\ edits' = edits + 1
  /\ \E old \in web :
       \E c \in {[old EXCEPT !.plain = edits'], [old EXCEPT !.valid = FALSE]} :
         /\ OpenToWrite(c) /\ web' = {c} /\ Others(c)
         /\ meant' = [meant EXCEPT !.plain = c.plain]
         /\ overtaken' = (overtaken \/ file # Good(old))
  /\ UNCHANGED <<runVars, cli, library, boots, bereft>>

(* setStrategy of the supervisor reads the file, and takes any id. *)
ConsoleSetsStrategy(id) ==
  /\ Readable /\ edits < MaxEdits /\ edits' = edits + 1
  /\ LET c == [file.c EXCEPT !.active = id] IN OpenToWrite(c) /\ Others(c)
  /\ meant' = [meant EXCEPT !.active = id]
  /\ UNCHANGED <<runVars, draftVars, library, boots, overtaken, bereft>>

(* The end of either; or the console crashes. *)
ConsoleWrites ==
  /\ \E c \in opened : (phase = "writing" => c.agent # live.agent) /\ Written(c)
  /\ overtaken' = (overtaken \/ Readable)
  /\ UNCHANGED <<runVars, draftVars, library, edits, boots, meant, strayed, bereft, apart>>

ConsoleCrashes ==
  /\ \E c \in opened : phase = "writing" => c.agent # live.agent
  /\ opened' = {} /\ file' \in {file} \cup {Torn(s) : s \in {"empty", "cut"}}
  /\ strayed' = TRUE
  /\ UNCHANGED <<runVars, draftVars, library, edits, boots, meant, overtaken, bereft, apart>>

(* `config set' runs update_config in a process of its own. *)
CliReads ==
  /\ cli = {} /\ Readable /\ file.c.valid /\ edits < MaxEdits
  /\ edits' = edits + 1
  /\ \E k \in {"plain", "flat", "unfit"} : cli' = {Persisted(<<k>>, edits')}
  /\ UNCHANGED <<runVars, fileVars, web, library, boots, history>>

CliSaves ==
  /\ cli' = {}
  /\ \E c \in cli :
       /\ SaveJson(c) /\ Others(c) /\ meant' = [meant EXCEPT !.plain = c.plain]
       /\ overtaken' = (overtaken \/ ~Readable
                       \/ [ValuesOf(file.c) EXCEPT !.plain = 0] # [ValuesOf(c) EXCEPT !.plain = 0]
                       \/ file.c.plain > c.plain)
  /\ UNCHANGED <<runVars, web, library, edits, boots, bereft>>

-----------------------------------------------------------------------------
Init ==
  /\ phase = "down" /\ file = Good(DefaultConfig) /\ live = Loaded(DefaultConfig)
  /\ library = {} /\ doing = {} /\ timers = FALSE /\ cronStarted = FALSE
  /\ web = {} /\ cli = {} /\ opened = {}
  /\ edits = 0 /\ boots = 0 /\ meant = ValuesOf(DefaultConfig)
  /\ paused = FALSE /\ stranded = FALSE /\ overtaken = FALSE /\ strayed = FALSE /\ bereft = FALSE /\ apart = FALSE

Boot == Load \/ Identify \/ Identified \/ StartUp \/ Dies
Agent == \/ \E call \in Calls \cup MenuCalls : UpdateConfig(call) \/ UpdateThrows(call)
         \/ Evolve \/ Pause \/ Resume \/ AddActivates \/ Removed
         \/ \E id \in Strategies : SetActive(id)
         \/ \E id \in Private : AddStrategy(id) \/ RemoveStrategy(id)
Outside == \/ \E id \in Private : PullPresets(id) \/ OtherAdds(id) \/ OtherRemoves(id)
           \/ WebLoad \/ WebPut \/ ConsoleWrites \/ ConsoleCrashes \/ CliReads \/ CliSaves
           \/ \E id \in Strategies : ConsoleSetsStrategy(id)

Next == Boot \/ Agent \/ Outside

Spec == Init /\ [][Next]_vars

-----------------------------------------------------------------------------
TypeOK ==
  /\ phase \in {"down", "loaded", "writing", "identified", "up"}
  /\ file \in [state : {"good", "empty", "cut"}, c : Contents]
  /\ live \in Running /\ meant \in Values
  /\ library \subseteq Private
  /\ doing \subseteq [op : {"add", "remove"}, id : Strategies, lib : SUBSET Private]
  /\ opened \subseteq Contents /\ web \subseteq Contents /\ cli \subseteq Contents
  /\ \A s \in {doing, opened, web, cli} : Cardinality(s) <= 1
  /\ edits \in 0..MaxEdits /\ boots \in 0..MaxBoots
  /\ {timers, cronStarted, paused, stranded, overtaken, strayed, bereft, apart} \subseteq BOOLEAN

(* Whoever wrote a setting last, agent, console or command line, finds it  *)
(* in the file, unless a copy that was out of date was written over it.    *)
MeantIsSaved == Readable /\ ~overtaken => ValuesOf(file.c) = meant

(* Unless others wrote the file, or a call was applied in part, a restart   *)
(* of the running agent changes none of the values it runs with, those it   *)
(* has not saved where a start looks excepted: bin counts that were         *)
(* clamped, and keys whose path the schema does not know - these leave a    *)
(* file that the agent cannot start with, so no start drops them unnoticed. *)
RestartChangesNothing ==
  phase = "up" /\ ~apart =>
    Readable /\ ValuesOf(file.c) = ValuesOf(live) /\ ("elsewhere" \in live.unsaved => ~file.c.valid)

(* The file stays one the agent can start with: its strategy is known and  *)
(* the schema accepts it, wherever a crash comes.  Excused are writers     *)
(* whose input the code lets through although it breaks the file: the page *)
(* of the console, an agent that removes a strategy of the shared library, *)
(* and update_config itself, from the menu too, with keys of the kinds     *)
(* flat, poll and unfit.                                                   *)
BootsAgain ==
  opened = {} /\ ~overtaken /\ ~strayed /\ ~bereft =>
    Readable /\ file.c.valid /\ file.c.active \in Known

(* The strategy of a running agent is in a library. *)
ActiveIsKnown == phase = "up" /\ ~bereft => live.active \in Known

(* The cycles of a running agent are scheduled unless they were paused, or *)
(* were to be started when another agent had removed the strategy.         *)
TimersRun == phase = "up" /\ ~timers => paused \/ stranded

(* An agent keeps the identity it was once given, unless it is reset.      *)
IdentityStays == [][meant.agent # 0 => meant'.agent = meant.agent \/ overtaken']_vars

(* What is saved is what was meant, and what the agent runs with is what   *)
(* is saved.                                                               *)
SettingsAreKept == TypeOK /\ MeantIsSaved /\ RestartChangesNothing

(* The agent can start, knows its strategy and goes on working.            *)
AgentGoesOn == BootsAgain /\ ActiveIsKnown /\ TimersRun
=============================================================================
