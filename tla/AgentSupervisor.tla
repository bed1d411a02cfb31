--------------------------- MODULE AgentSupervisor ---------------------------
(***************************************************************************)
(* The processes the browser console starts, one for each agent            *)
(* (packages/daemon/src/server/AgentSupervisor.ts): the map of children,   *)
(* the file of their pids (data/agents.runtime.json) and the reaping of    *)
(* those a previous console left.  A child runs the same daemon in the     *)
(* same directory: it too reaps at its start and clears the file when it   *)
(* shuts down.  Pids are not reused; configurations are not modelled.      *)
(***************************************************************************)
EXTENDS Naturals, FiniteSets

CONSTANTS Agents,   \* ids of the configured instances
          Spawns    \* bounds the processes all consoles spawn

ASSUME SupervisorAssumption == Spawns \in Nat /\ Agents # {}

VARIABLES
  proc,      \* state of each process: unborn, booting, live, ending, gone
  of,        \* the agent each process runs
  mine,      \* spawned by the present console, which has not heard their exit
  killed,    \* children whose ChildProcess.killed is set
  children,  \* agent -> pid, or NoPid
  registry,  \* pids in the file; {} also when there is none
  hidden,    \* history: unlisted by the exit event of a predecessor
  lost       \* history: unlisted by a child that cleared the file

kidVars == <<mine, killed, children>>
supVars == <<proc, of, kidVars, registry, hidden, lost>>

Pids == 1..Spawns
NoPid == 0

Alive(p) == proc[p] \in {"booting", "live"}
Tracked(kids) == {kids[a] : a \in Agents} \ {NoPid}

(* SIGTERM: a booting process has no handler yet and ends at once. *)
Signalled(set) ==
  [p \in Pids |-> IF p \notin set THEN proc[p]
                  ELSE CASE proc[p] = "booting" -> "gone"
                         [] proc[p] = "live" -> "ending"
                         [] OTHER -> proc[p]]

\* Mutant: an existing file is kept.
WriteRegistryOnce(kids) == /\ registry' = IF registry = {} THEN Tracked(kids) ELSE registry
                           /\ lost' = lost \ Tracked(kids)

WriteRegistry(kids) == /\ registry' = Tracked(kids)
                       /\ lost' = lost \ Tracked(kids)

\* Mutant: a child that still boots does not count as running.
IsRunningLive(a) == /\ children[a] # NoPid
                    /\ children[a] \notin killed
                    /\ proc[children[a]] = "live"

IsRunning(a) == /\ children[a] # NoPid
                /\ children[a] \notin killed

(* Start an agent; nothing happens when it already runs. *)
Start(a) ==
  /\ ~IsRunning(a)
  /\ \E p \in Pids :
       /\ proc[p] = "unborn" /\ \A q \in 1..(p - 1) : proc[q] # "unborn"
       /\ proc' = [proc EXCEPT ![p] = "booting"]
       /\ of' = [of EXCEPT ![p] = a]
       /\ mine' = mine \cup {p}
       /\ children' = [children EXCEPT ![a] = p]
  /\ WriteRegistry(children')
  /\ UNCHANGED <<killed, hidden>>

Stop(a) ==
  /\ IsRunning(a)
  /\ proc' = Signalled({children[a]})
  /\ killed' = killed \cup {children[a]}
  /\ UNCHANGED <<of, mine, children, registry, hidden, lost>>

\* Mutant: the entry is kept.
ExitHeardOnly(p) ==
  /\ p \in mine
  /\ proc[p] = "gone"
  /\ mine' = mine \ {p} /\ killed' = killed \ {p}
  /\ UNCHANGED <<proc, of, children, registry, hidden, lost>>

(* On exit: whatever child the agent has now is forgotten. *)
ExitHeard(p) ==
  /\ p \in mine
  /\ proc[p] = "gone"
  /\ mine' = mine \ {p} /\ killed' = killed \ {p}
  /\ children' = [children EXCEPT ![of[p]] = NoPid]
  /\ hidden' = hidden \cup ({children[of[p]]} \ {p, NoPid})
  /\ WriteRegistry(children')
  /\ UNCHANGED <<proc, of>>

(* The console shuts down: every child is terminated and forgotten. *)
StopAll ==
  /\ proc' = Signalled({p \in Tracked(children) : p \notin killed})
  /\ killed' = killed \cup Tracked(children)
  /\ children' = [a \in Agents |-> NoPid]
  /\ registry' = {}
  /\ UNCHANGED <<of, mine, hidden, lost>>

(* The console's process is gone: nobody hears of its children any more. *)
Abandon ==
  /\ mine' = {} /\ killed' = {}
  /\ children' = [a \in Agents |-> NoPid]
  /\ UNCHANGED <<proc, of, registry, hidden, lost>>

(* A daemon starts: what the file lists, but itself, is terminated. *)
ReapOrphans ==
  /\ proc' = Signalled(registry)
  /\ registry' = {}
  /\ UNCHANGED <<of, kidVars, hidden, lost>>

ChildBoots(p) ==
  /\ proc[p] = "booting"
  /\ proc' = [Signalled(registry \ {p}) EXCEPT ![p] = "live"]
  /\ registry' = {}
  /\ lost' = lost \cup registry
  /\ UNCHANGED <<of, kidVars, hidden>>

(* A process that is gone needs no history. *)
Ends(p) == /\ proc' = [proc EXCEPT ![p] = "gone"]
           /\ hidden' = hidden \ {p}

(* A terminated child shuts down in order, or a child just ends. *)
ChildShutsDown(p) ==
  /\ proc[p] = "ending"
  /\ Ends(p)
  /\ registry' = {}
  /\ lost' = (lost \cup registry) \ {p}
  /\ UNCHANGED <<of, kidVars>>

ChildDies(p) ==
  /\ Alive(p) \/ proc[p] = "ending"
  /\ Ends(p)
  /\ lost' = lost \ {p}
  /\ UNCHANGED <<of, kidVars, registry>>

ChildStep == \E p \in Pids : ChildBoots(p) \/ ChildShutsDown(p) \/ ChildDies(p)

SupInit ==
  /\ proc = [p \in Pids |-> "unborn"]
  /\ of = [p \in Pids |-> CHOOSE a \in Agents : TRUE]
  /\ mine = {} /\ killed = {}
  /\ children = [a \in Agents |-> NoPid]
  /\ registry = {} /\ hidden = {} /\ lost = {}

SupTypeOK ==
  /\ proc \in [Pids -> {"unborn", "booting", "live", "ending", "gone"}]
  /\ of \in [Pids -> Agents]
  /\ mine \subseteq Pids /\ killed \subseteq mine
  /\ children \in [Agents -> mine \cup {NoPid}]
  /\ registry \subseteq Pids /\ hidden \subseteq Pids /\ lost \subseteq Pids

(***************************************************************************)
(* A process of this console that was not told to end is the one its agent *)
(* is listed with: starting is refused while it runs, stopping reaches it  *)
(* and so does the shutdown.  The code breaks this for a child whose       *)
(* predecessor's exit event comes late (AgentSupervisor.ts:136).           *)
(***************************************************************************)
ChildrenAreTracked ==
  \A p \in mine : Alive(p) => children[of[p]] = p \/ p \in hidden

(***************************************************************************)
(* A process that no console owns any more is listed in the file, so that  *)
(* the next console ends it (AgentSupervisor.ts:185).  The code breaks     *)
(* this for the processes listed when a child starts or shuts down.        *)
(***************************************************************************)
OrphansAreListed ==
  \A p \in Pids \ mine : Alive(p) => p \in registry \cup hidden \cup lost
=============================================================================
