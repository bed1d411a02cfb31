---------------------------- MODULE ServersProofs ----------------------------
(***************************************************************************)
(* What the console promises, for any agents, clients, numbers of children *)
(* and lives of the console.                                               *)
(*                                                                         *)
(* The map of children, the file and the processes change in different     *)
(* steps.  The invariant says which of them is right about a process at    *)
(* which time: the map while its console lives, the file after that, and   *)
(* neither about those that history calls hidden or lost.                  *)
(***************************************************************************)
EXTENDS Servers, TLAPS

States == {"unborn", "booting", "live", "ending", "gone"}

(* What the map says of a process is so. *)
MapIsRight ==
  /\ \A a \in Agents : children[a] # NoPid => of[children[a]] = a
  /\ \A p \in mine : proc[p] # "unborn"
  /\ \A p \in killed : ~Alive(p)

(* The file lists the children that live, but those whose line a child cleared. *)
FileFollows ==
  \A p \in Tracked(children) : Alive(p) => p \in registry \cup lost

(* While a console lives, it owns what the file lists. *)
NoStrangers == server # "off" => \A p \in Pids \ mine : Alive(p) => p \in hidden \cup lost

OffIsEmpty == server = "off" => mine = {} /\ \A a \in Agents : children[a] = NoPid

SupInv ==
  /\ SupTypeOK /\ MapIsRight /\ FileFollows /\ NoStrangers /\ OffIsEmpty
  /\ ChildrenAreTracked /\ OrphansAreListed

(* A client has what it subscribed to since it did. *)
SocketsRest ==
  /\ \A c \in Clients : conn[c] = "none" => ~authenticated[c] /\ ~subscribed[c]
  /\ \A c \in Clients : subscribed[c] => authenticated[c]
  /\ server = "off" => \A c \in Clients : conn[c] = "none"
  /\ server # "off" => latest # "none"

IpcInv == IpcTypeOK /\ SocketsRest /\ SubscribersSeeLatest

Inv == SupInv /\ IpcInv /\ starts \in 0..Restarts

-----------------------------------------------------------------------------
(* The supervisor. *)
LEMMA NoPidIsNone == NoPid \notin Pids
BY SupervisorAssumption DEF NoPid, Pids

LEMMA SignalledFacts ==
  ASSUME proc \in [Pids -> States], NEW S
  PROVE  /\ Signalled(S) \in [Pids -> States]
         /\ \A p \in Pids : Signalled(S)[p] = "unborn" <=> proc[p] = "unborn"
         /\ \A p \in Pids : Signalled(S)[p] \in {"booting", "live"} => Alive(p) /\ p \notin S
BY DEF Signalled, States, Alive

(* The map, the file and the history as a step leaves them. *)
SupKept ==
  /\ SupTypeOK /\ MapIsRight /\ FileFollows
  /\ ChildrenAreTracked

LEMMA TrackedFacts ==
  ASSUME SupTypeOK
  PROVE  /\ Tracked(children) \subseteq mine
         /\ \A a \in Agents : children[a] = NoPid \/ children[a] \in Tracked(children)
         /\ \A p \in Tracked(children) : \E a \in Agents : children[a] = p /\ p # NoPid
BY DEF Tracked, SupTypeOK

LEMMA StartKeeps ==
  ASSUME SupKept, NEW a \in Agents, Start(a)
  PROVE  /\ SupKept'
         /\ mine \subseteq mine'
         /\ \A p \in Pids \ mine' : Alive(p)' => Alive(p) /\ p \notin Tracked(children')
         /\ hidden' = hidden /\ \A p \in Pids \ mine' : p \in lost => p \in lost'
<1>1. PICK p \in Pids : /\ proc[p] = "unborn" /\ proc' = [proc EXCEPT ![p] = "booting"]
                        /\ of' = [of EXCEPT ![p] = a] /\ mine' = mine \cup {p}
                        /\ children' = [children EXCEPT ![a] = p]
                        /\ registry' = Tracked(children') /\ lost' = lost \ Tracked(children')
                        /\ killed' = killed /\ hidden' = hidden
  BY DEF Start, WriteRegistry
<1> USE DEF SupKept
<1>2. p \notin mine /\ p # NoPid BY <1>1, NoPidIsNone DEF MapIsRight
<1>3. SupTypeOK'
  <2>1. /\ proc' \in [Pids -> States] /\ of' \in [Pids -> Agents]
        /\ mine' \subseteq Pids /\ killed' \subseteq mine' /\ hidden' \subseteq Pids
    BY <1>1 DEF SupTypeOK, States
  <2>2. children' \in [Agents -> mine' \cup {NoPid}] BY <1>1 DEF SupTypeOK
  <2>3. Tracked(children') \subseteq mine' BY <2>2 DEF Tracked
  <2> QED BY <1>1, <2>1, <2>2, <2>3 DEF SupTypeOK, States
<1>4. MapIsRight'
  <2>1. ASSUME NEW b \in Agents, children'[b] # NoPid PROVE of'[children'[b]] = b
    <3>1. CASE b = a BY <1>1, <3>1 DEF SupTypeOK
    <3>2. CASE b # a BY <1>1, <1>2, <2>1, <3>2 DEF SupTypeOK, MapIsRight
    <3> QED BY <3>1, <3>2
  <2>2. \A q \in mine' : proc'[q] # "unborn" BY <1>1 DEF MapIsRight, SupTypeOK
  <2>3. \A q \in killed' : ~Alive(q)' BY <1>1, <1>2 DEF MapIsRight, SupTypeOK, Alive
  <2> QED BY <2>1, <2>2, <2>3 DEF MapIsRight
<1>5. FileFollows' BY <1>1 DEF FileFollows
<1>6. ChildrenAreTracked'
  <2>1. SUFFICES ASSUME NEW q \in mine', Alive(q)' PROVE children'[of'[q]] = q \/ q \in hidden'
    BY DEF ChildrenAreTracked
  <2>2. CASE q = p BY <1>1, <2>2 DEF SupTypeOK
  <2>3. CASE q # p
    <3>1. q \in mine /\ Alive(q) /\ of'[q] = of[q] /\ of[q] \in Agents
      BY <1>1, <2>1, <2>3 DEF SupTypeOK, Alive
    <3>2. children[of[q]] = q \/ q \in hidden BY <3>1 DEF ChildrenAreTracked
    <3>3. of[q] = a /\ children[a] = q => FALSE
      BY <3>1, <1>2, NoPidIsNone DEF Start, IsRunning, MapIsRight, SupTypeOK
    <3> QED BY <1>1, <3>1, <3>2, <3>3 DEF SupTypeOK
  <2> QED BY <2>2, <2>3
<1>7. Tracked(children') \subseteq mine' BY <1>3 DEF SupTypeOK, Tracked
<1>8. SupKept' BY <1>3, <1>4, <1>5, <1>6
<1>9. \A q \in Pids \ mine' : Alive(q)' => Alive(q) /\ q \notin Tracked(children')
  <2>1. SUFFICES ASSUME NEW q \in Pids \ mine', Alive(q)'
                 PROVE  Alive(q) /\ q \notin Tracked(children')
    OBVIOUS
  <2>2. q # p BY <1>1, <2>1
  <2> QED BY <1>1, <1>7, <2>1, <2>2 DEF Alive, SupTypeOK
<1>10. \A q \in Pids \ mine' : q \in lost => q \in lost' BY <1>1, <1>7
<1>11. mine \subseteq mine' /\ hidden' = hidden BY <1>1
<1> QED BY <1>8, <1>9, <1>10, <1>11

LEMMA StopKeeps ==
  ASSUME SupKept, NEW a \in Agents, Stop(a)
  PROVE  /\ SupKept' /\ mine' = mine /\ UNCHANGED <<children, registry, hidden, lost>>
         /\ \A p \in Pids : Alive(p)' => Alive(p)
<1> USE DEF SupKept
<1>1. /\ proc' = Signalled({children[a]}) /\ killed' = killed \cup {children[a]}
      /\ UNCHANGED <<of, mine, children, registry, hidden, lost>>
      /\ children[a] # NoPid
  BY DEF Stop, IsRunning
<1>2. children[a] \in mine BY <1>1 DEF SupTypeOK
<1>3. /\ proc' \in [Pids -> States] /\ \A p \in Pids : proc'[p] = "unborn" <=> proc[p] = "unborn"
      /\ \A p \in Pids : Alive(p)' => Alive(p) /\ p # children[a]
  BY <1>1, SignalledFacts DEF SupTypeOK, States, Alive
<1>4. SupTypeOK' BY <1>1, <1>2, <1>3 DEF SupTypeOK, States
<1>5. MapIsRight'
  <2>1. /\ \A b \in Agents : children'[b] # NoPid => of'[children'[b]] = b
        /\ \A p \in mine' : proc'[p] # "unborn"
    BY <1>1, <1>3 DEF MapIsRight, SupTypeOK
  <2>2. \A p \in killed' : ~Alive(p)'
    <3>1. \A p \in killed' : p \in Pids /\ (p \in killed \/ p = children[a])
      BY <1>1, <1>2 DEF SupTypeOK
    <3>2. \A p \in killed : ~Alive(p) BY DEF MapIsRight
    <3> QED BY <1>3, <3>1, <3>2
  <2> QED BY <2>1, <2>2 DEF MapIsRight
<1>6. FileFollows' /\ ChildrenAreTracked'
  <2>1. Tracked(children) \subseteq Pids BY TrackedFacts DEF SupTypeOK
  <2> QED BY <1>1, <1>3, <2>1 DEF FileFollows, ChildrenAreTracked, SupTypeOK
<1> QED BY <1>1, <1>3, <1>4, <1>5, <1>6

LEMMA ExitKeeps ==
  ASSUME SupKept, NEW p \in Pids, ExitHeard(p)
  PROVE  /\ SupKept' /\ proc' = proc /\ mine' = mine \ {p} /\ ~Alive(p)
         /\ hidden \subseteq hidden' /\ \A q \in Pids \ mine : q \in lost => q \in lost'
<1> USE DEF SupKept
<1>1. /\ p \in mine /\ proc[p] = "gone" /\ mine' = mine \ {p} /\ killed' = killed \ {p}
      /\ children' = [children EXCEPT ![of[p]] = NoPid]
      /\ hidden' = hidden \cup ({children[of[p]]} \ {p, NoPid})
      /\ registry' = Tracked(children') /\ lost' = lost \ Tracked(children')
      /\ proc' = proc /\ of' = of /\ of[p] \in Agents
  BY DEF ExitHeard, WriteRegistry, SupTypeOK
<1>2. children' \in [Agents -> mine' \cup {NoPid}]
  <2>1. SUFFICES ASSUME NEW a \in Agents PROVE children'[a] \in mine' \cup {NoPid}
    BY <1>1 DEF SupTypeOK
  <2>2. CASE a = of[p] BY <1>1, <2>2 DEF SupTypeOK
  <2>3. CASE a # of[p]
    <3>1. children'[a] = children[a] BY <1>1, <2>3 DEF SupTypeOK
    <3>2. children[a] # p BY <2>3, <1>1, NoPidIsNone DEF MapIsRight
    <3> QED BY <1>1, <3>1, <3>2 DEF SupTypeOK
  <2> QED BY <2>2, <2>3
<1>3. Tracked(children') \subseteq mine' BY <1>2 DEF Tracked
<1>4. SupTypeOK'
  <2>1. /\ proc' = proc /\ proc \in [Pids -> States] /\ of' = of /\ of \in [Pids -> Agents]
    BY <1>1 DEF SupTypeOK, States
  <2>2. mine' \subseteq Pids /\ killed' \subseteq mine' BY <1>1 DEF SupTypeOK
  <2>3. registry' \subseteq Pids /\ lost' \subseteq Pids BY <1>1, <1>3, <2>2 DEF SupTypeOK
  <2>4. hidden' \subseteq Pids BY <1>1 DEF SupTypeOK
  <2> QED BY <1>2, <2>1, <2>2, <2>3, <2>4 DEF SupTypeOK, States
<1>5. MapIsRight' BY <1>1, <1>2 DEF MapIsRight, SupTypeOK, Alive
<1>6. FileFollows' BY <1>1 DEF FileFollows
<1>7. ChildrenAreTracked' BY <1>1, NoPidIsNone DEF ChildrenAreTracked, SupTypeOK, Alive
<1> QED BY <1>1, <1>3, <1>4, <1>5, <1>6, <1>7 DEF Alive

LEMMA StopAllKeeps ==
  ASSUME SupKept, StopAll
  PROVE  /\ SupKept' /\ mine' = mine /\ UNCHANGED <<hidden, lost>>
         /\ \A p \in Pids : Alive(p)' => Alive(p)
<1> USE DEF SupKept
<1> DEFINE S == {p \in Tracked(children) : p \notin killed}
<1>1. /\ proc' = Signalled(S) /\ killed' = killed \cup Tracked(children)
      /\ children' = [a \in Agents |-> NoPid] /\ registry' = {}
      /\ UNCHANGED <<of, mine, hidden, lost>>
  BY DEF StopAll
<1> HIDE DEF S
<1>2. /\ proc' \in [Pids -> States] /\ \A p \in Pids : proc'[p] = "unborn" <=> proc[p] = "unborn"
      /\ \A p \in Pids : Alive(p)' => Alive(p) /\ p \notin S
  BY <1>1, SignalledFacts DEF SupTypeOK, States, Alive
<1>3. \A p \in Pids : Alive(p)' => p \notin Tracked(children) BY <1>2 DEF S, MapIsRight
<1>4. SupTypeOK' BY <1>1, <1>2, TrackedFacts DEF SupTypeOK, States
<1>5. MapIsRight'
  <2>1. \A p \in killed' : ~Alive(p)'
    BY <1>1, <1>2, <1>3, TrackedFacts DEF MapIsRight, SupTypeOK
  <2> QED BY <1>1, <1>2, <2>1 DEF MapIsRight, SupTypeOK
<1>6. FileFollows' BY <1>1 DEF FileFollows, Tracked
<1>7. ChildrenAreTracked'
  <2>1. SUFFICES ASSUME NEW p \in mine, Alive(p)' PROVE p \in hidden
    BY <1>1 DEF ChildrenAreTracked
  <2>2. Alive(p) /\ p \notin Tracked(children) BY <1>2, <1>3, <2>1 DEF SupTypeOK
  <2>3. children[of[p]] # p BY <2>2, TrackedFacts, NoPidIsNone DEF SupTypeOK
  <2> QED BY <2>2, <2>3 DEF ChildrenAreTracked
<1> QED BY <1>1, <1>2, <1>4, <1>5, <1>6, <1>7

LEMMA AbandonKeeps ==
  ASSUME SupKept, Abandon
  PROVE  /\ SupKept' /\ mine' = {} /\ \A a \in Agents : children'[a] = NoPid
         /\ UNCHANGED <<proc, registry, hidden, lost>>
         /\ \A p \in mine : Alive(p) => p \in registry \cup lost \cup hidden
<1> USE DEF SupKept
<1>1. /\ mine' = {} /\ killed' = {} /\ children' = [a \in Agents |-> NoPid]
      /\ UNCHANGED <<proc, of, registry, hidden, lost>>
  BY DEF Abandon
<1>2. SupTypeOK' BY <1>1 DEF SupTypeOK
<1>3. MapIsRight' /\ FileFollows' /\ ChildrenAreTracked'
  BY <1>1 DEF MapIsRight, FileFollows, ChildrenAreTracked, Tracked
<1>4. \A p \in mine : Alive(p) => p \in registry \cup lost \cup hidden
  <2>1. SUFFICES ASSUME NEW p \in mine, Alive(p), p \notin hidden PROVE p \in registry \cup lost
    OBVIOUS
  <2>2. children[of[p]] = p /\ of[p] \in Agents BY <2>1 DEF ChildrenAreTracked, SupTypeOK
  <2>3. p \in Tracked(children) BY <2>2, NoPidIsNone DEF Tracked, SupTypeOK
  <2> QED BY <2>1, <2>3 DEF FileFollows
<1> QED BY <1>1, <1>2, <1>3, <1>4

(* A start of a daemon, here with nothing of its own yet. *)
LEMMA ReapKeeps ==
  ASSUME SupKept, mine = {}, ReapOrphans
  PROVE  /\ SupKept' /\ mine' = {} /\ UNCHANGED <<children, hidden, lost>>
         /\ \A p \in Pids : Alive(p)' => Alive(p) /\ p \notin registry
<1> USE DEF SupKept
<1>1. proc' = Signalled(registry) /\ registry' = {} /\ UNCHANGED <<of, kidVars, hidden, lost>>
  BY DEF ReapOrphans
<1>2. /\ proc' \in [Pids -> States]
      /\ \A p \in Pids : Alive(p)' => Alive(p) /\ p \notin registry
  BY <1>1, SignalledFacts DEF SupTypeOK, States, Alive
<1>3. SupTypeOK' BY <1>1, <1>2 DEF SupTypeOK, States, kidVars
<1>4. Tracked(children) = {} BY TrackedFacts
<1>5. MapIsRight' /\ FileFollows' /\ ChildrenAreTracked'
  BY <1>1, <1>4 DEF MapIsRight, FileFollows, ChildrenAreTracked, kidVars, SupTypeOK
<1> QED BY <1>1, <1>2, <1>3, <1>5 DEF kidVars

(* A step of a child: what dies is forgotten, the rest is kept or lost. *)
LEMMA ChildKeeps ==
  ASSUME SupKept, ChildStep
  PROVE  /\ SupKept' /\ UNCHANGED <<mine, children>>
         /\ \A p \in Pids : Alive(p)' =>
              /\ Alive(p) /\ (p \in hidden => p \in hidden') /\ (p \in lost => p \in lost')
              /\ p \in registry => p \in registry' \cup lost'
<1> USE DEF SupKept
<1>1. UNCHANGED <<of, kidVars>> /\ hidden' \subseteq hidden
  BY DEF ChildStep, ChildBoots, ChildShutsDown, ChildDies, Ends
<1>2. /\ proc' \in [Pids -> States]
      /\ \A p \in Pids : proc'[p] = "unborn" => proc[p] = "unborn"
      /\ registry' \subseteq Pids /\ lost' \subseteq Pids
      /\ \A p \in Pids : Alive(p)' =>
           /\ Alive(p) /\ (p \in hidden => p \in hidden') /\ (p \in lost => p \in lost')
           /\ p \in registry => p \in registry' \cup lost'
  <2>1. PICK p \in Pids : ChildBoots(p) \/ ChildShutsDown(p) \/ ChildDies(p) BY DEF ChildStep
  <2>2. CASE ChildBoots(p)
    <3>1. /\ proc[p] = "booting" /\ proc' = [Signalled(registry \ {p}) EXCEPT ![p] = "live"]
          /\ registry' = {} /\ lost' = lost \cup registry /\ hidden' = hidden
      BY <2>2 DEF ChildBoots
    <3>2. /\ Signalled(registry \ {p}) \in [Pids -> States]
          /\ \A q \in Pids : Signalled(registry \ {p})[q] = "unborn" <=> proc[q] = "unborn"
          /\ \A q \in Pids : Signalled(registry \ {p})[q] \in {"booting", "live"} => Alive(q)
      BY SignalledFacts DEF SupTypeOK, States
    <3>3. /\ proc' \in [Pids -> States] /\ \A q \in Pids : proc'[q] = "unborn" => proc[q] = "unborn"
          /\ \A q \in Pids : Alive(q)' => Alive(q)
      BY <3>1, <3>2 DEF States, Alive
    <3> QED BY <3>1, <3>3 DEF SupTypeOK
  <2>3. CASE ChildShutsDown(p)
    BY <2>3 DEF ChildShutsDown, Ends, SupTypeOK, States, Alive
  <2>4. CASE ChildDies(p) BY <2>4 DEF ChildDies, Ends, SupTypeOK, States, Alive
  <2> QED BY <2>1, <2>2, <2>3, <2>4
<1>3. SupTypeOK' BY <1>1, <1>2 DEF SupTypeOK, States, kidVars
<1>4. MapIsRight' BY <1>1, <1>2 DEF MapIsRight, SupTypeOK, kidVars
<1>5. FileFollows'
  <2>1. Tracked(children) \subseteq Pids BY TrackedFacts DEF SupTypeOK
  <2> QED BY <1>1, <1>2, <2>1 DEF FileFollows, kidVars
<1>6. ChildrenAreTracked' BY <1>1, <1>2 DEF ChildrenAreTracked, SupTypeOK, kidVars
<1> QED BY <1>1, <1>2, <1>3, <1>4, <1>5, <1>6 DEF kidVars

-----------------------------------------------------------------------------
(* The clients. *)
LEMMA BroadcastKeeps ==
  ASSUME IpcInv, NEW busy \in BOOLEAN, Broadcast(busy), UNCHANGED <<server, clientVars>>
  PROVE  /\ shown' \in [Clients -> {"none", "idle", "busy"}] /\ latest' \in {"idle", "busy"}
         /\ SocketsRest' /\ SubscribersSeeLatest'
<1>1. Label(busy) \in {"idle", "busy"} BY DEF Label
<1>2. /\ latest' = Label(busy) /\ UNCHANGED <<server, conn, authenticated, authTimer, subscribed>>
      /\ shown' = [c \in Clients |-> IF Hears(c) /\ subscribed[c] THEN Label(busy) ELSE shown[c]]
  BY DEF Broadcast, clientVars
<1>3. shown' \in [Clients -> {"none", "idle", "busy"}] BY <1>1, <1>2 DEF IpcInv, IpcTypeOK
<1>4. SocketsRest' BY <1>1, <1>2 DEF IpcInv, SocketsRest
<1>5. SubscribersSeeLatest' BY <1>2 DEF SubscribersSeeLatest, Hears
<1> QED BY <1>1, <1>2, <1>3, <1>4, <1>5

LEMMA BusyIsFlag == ASSUME IpcTypeOK PROVE Busy \in BOOLEAN
BY DEF Busy, IpcTypeOK

LEMMA DaemonKeeps ==
  ASSUME IpcInv, DaemonStep PROVE IpcInv' /\ server' = server
<1>1. IpcTypeOK BY DEF IpcInv
<1>2. UNCHANGED <<server, clientVars>>
  BY DEF DaemonStep, Pause, Resume, CommandEnds, AskChat, OtherChat, ChatEnds, CycleStarts,
         CycleReports, CycleEnds, PollTick
<1>3. cycle' \in BOOLEAN /\ chat' \in {"nobody", "cli", "other"} /\ timers' \in BOOLEAN
  BY <1>1 DEF DaemonStep, Pause, Resume, CommandEnds, AskChat, OtherChat, ChatEnds, CycleStarts,
         CycleReports, CycleEnds, PollTick, IpcTypeOK, daemonVars
<1>4. (\E busy \in BOOLEAN : Broadcast(busy)) \/ UNCHANGED <<shown, latest>>
  <2>1. cycle \in BOOLEAN BY <1>1 DEF IpcTypeOK
  <2> QED BY <1>1, <2>1, BusyIsFlag
    DEF DaemonStep, Pause, Resume, CommandEnds, AskChat, OtherChat, ChatEnds, CycleStarts,
        CycleReports, CycleEnds, PollTick
<1>5. /\ shown' \in [Clients -> {"none", "idle", "busy"}] /\ latest' \in {"none", "idle", "busy"}
      /\ SocketsRest' /\ SubscribersSeeLatest'
  <2>1. CASE \E busy \in BOOLEAN : Broadcast(busy) BY <1>2, <2>1, BroadcastKeeps
  <2>2. CASE UNCHANGED <<shown, latest>>
    BY <1>2, <2>2 DEF IpcInv, IpcTypeOK, SocketsRest, SubscribersSeeLatest, Hears, clientVars
  <2> QED BY <1>4, <2>1, <2>2
<1>6. IpcTypeOK' BY <1>1, <1>2, <1>3, <1>5 DEF IpcTypeOK, clientVars
<1> QED BY <1>2, <1>5, <1>6 DEF IpcInv

LEMMA ClientKeeps ==
  ASSUME IpcInv, ClientStep PROVE IpcInv' /\ server' = server
<1>1. PICK c \in Clients : \/ Connect(c) \/ Authenticate(c) \/ AuthFails(c) \/ AuthTimeout(c)
                           \/ Subscribe(c) \/ Leave(c)
  BY DEF ClientStep
<1>2. UNCHANGED <<server, latest, daemonVars>>
  BY <1>1 DEF Connect, Authenticate, AuthFails, AuthTimeout, Subscribe, Leave
<1>3. IpcTypeOK'
  BY <1>1, <1>2, TokenAssumption DEF Connect, Authenticate, AuthFails, AuthTimeout, Subscribe, Leave,
        IpcInv, IpcTypeOK, daemonVars
<1>4. SocketsRest'
  BY <1>1, <1>2 DEF Connect, Authenticate, AuthFails, AuthTimeout, Subscribe, Leave,
        IpcInv, IpcTypeOK, SocketsRest
<1>5. SubscribersSeeLatest'
  BY <1>1, <1>2 DEF Connect, Authenticate, AuthFails, AuthTimeout, Subscribe, Leave,
        IpcInv, IpcTypeOK, SocketsRest, SubscribersSeeLatest, Hears
<1> QED BY <1>2, <1>3, <1>4, <1>5 DEF IpcInv

LEMMA ListenKeeps ==
  ASSUME IpcInv, Listen PROVE IpcInv' /\ server' = "open" /\ server = "off"
BY DEF Listen, IpcInv, IpcTypeOK, SocketsRest, SubscribersSeeLatest, Hears, clientVars

LEMMA CloseKeeps ==
  ASSUME IpcInv, CloseClients PROVE IpcInv' /\ server' = "closing" /\ server = "open"
<1>1. /\ server = "open" /\ server' = "closing"
      /\ conn' = [c \in Clients |-> IF conn[c] = "open" THEN "closing" ELSE conn[c]]
      /\ UNCHANGED <<authenticated, authTimer, subscribed, shown, latest, daemonVars>>
  BY DEF CloseClients
<1>2. IpcTypeOK' BY <1>1 DEF IpcInv, IpcTypeOK, daemonVars
<1>3. SocketsRest' /\ SubscribersSeeLatest'
  BY <1>1 DEF IpcInv, IpcTypeOK, SocketsRest, SubscribersSeeLatest, Hears
<1> QED BY <1>1, <1>2, <1>3 DEF IpcInv

LEMMA ResetKeeps ==
  ASSUME Reset PROVE IpcInv' /\ server' = "off"
BY DEF Reset, IpcInv, IpcTypeOK, SocketsRest, SubscribersSeeLatest, Hears

-----------------------------------------------------------------------------
(* The console. *)
LEMMA InvInit == Init => Inv
<1> SUFFICES ASSUME Init PROVE Inv OBVIOUS
<1>1. SupTypeOK
  <2>1. (CHOOSE a \in Agents : TRUE) \in Agents BY SupervisorAssumption
  <2> QED BY <2>1 DEF Init, SupInit, SupTypeOK
<1>2. SupInv
  BY <1>1 DEF SupInv, Init, SupInit, IpcInit, MapIsRight, FileFollows, NoStrangers, OffIsEmpty,
        ChildrenAreTracked, OrphansAreListed, Alive, Tracked
<1>3. IpcInv
  BY DEF Init, IpcInit, IpcInv, IpcTypeOK, SocketsRest, SubscribersSeeLatest, Hears
<1> QED BY <1>2, <1>3, RestartsAssumption DEF Inv, Init

LEMMA IpcAlone ==
  ASSUME SupInv, server' = server, UNCHANGED supVars PROVE SupInv'
BY DEF SupInv, supVars, kidVars, SupTypeOK, MapIsRight, FileFollows, NoStrangers, OffIsEmpty,
       ChildrenAreTracked, OrphansAreListed, Alive, Tracked

LEMMA IpcStays == ASSUME IpcInv, UNCHANGED ipcVars PROVE IpcInv'
BY DEF IpcInv, ipcVars, clientVars, daemonVars, IpcTypeOK, SocketsRest, SubscribersSeeLatest, Hears

LEMMA SupOf == SupInv <=> SupKept /\ NoStrangers /\ OffIsEmpty /\ OrphansAreListed
BY DEF SupInv, SupKept

LEMMA SupNext == SupKept' /\ NoStrangers' /\ OffIsEmpty' /\ OrphansAreListed' => SupInv'
BY DEF SupInv, SupKept

LEMMA InvStep == Inv /\ [Next]_vars => Inv'
<1> SUFFICES ASSUME Inv, [Next]_vars PROVE Inv' OBVIOUS
<1>1. SupInv /\ SupKept /\ NoStrangers /\ OffIsEmpty /\ OrphansAreListed /\ IpcInv /\ starts \in 0..Restarts
  BY SupOf DEF Inv
<1>2. CASE ConsoleStarts
  <2>1. ReapOrphans /\ Listen /\ starts < Restarts /\ starts' = starts + 1 BY <1>2 DEF ConsoleStarts
  <2>2. mine = {} /\ server = "off" /\ server' = "open" /\ IpcInv'
    BY <1>1, <2>1, ListenKeeps DEF OffIsEmpty
  <2>3. /\ SupKept' /\ mine' = {} /\ UNCHANGED <<children, hidden, lost>>
        /\ \A p \in Pids : Alive(p)' => Alive(p) /\ p \notin registry
    BY <1>1, <2>1, <2>2, ReapKeeps
  <2>4. NoStrangers' /\ OrphansAreListed'
    BY <1>1, <2>2, <2>3 DEF NoStrangers, OrphansAreListed
  <2>5. OffIsEmpty' BY <2>2 DEF OffIsEmpty
  <2>6. starts' \in 0..Restarts BY <1>1, <2>1, RestartsAssumption
  <2> QED BY <2>2, <2>3, <2>4, <2>5, <2>6, SupNext DEF Inv
<1>3. CASE \E a \in Agents : StartAgent(a)
  <2>1. PICK a \in Agents : Start(a) /\ Serves /\ UNCHANGED <<ipcVars, starts>>
    BY <1>3 DEF StartAgent
  <2>2. server # "off" /\ server' = server BY <2>1 DEF Serves, ipcVars
  <2>3. /\ SupKept' /\ mine \subseteq mine'
        /\ \A p \in Pids \ mine' : Alive(p)' => Alive(p) /\ p \notin Tracked(children')
        /\ hidden' = hidden /\ \A p \in Pids \ mine' : p \in lost => p \in lost'
    BY <1>1, <2>1, StartKeeps
  <2>4. NoStrangers' /\ OrphansAreListed' BY <1>1, <2>2, <2>3 DEF NoStrangers, OrphansAreListed
  <2> QED BY <1>1, <2>1, <2>2, <2>3, <2>4, SupNext, IpcStays DEF Inv, OffIsEmpty
<1>4. CASE \E a \in Agents : StopAgent(a)
  <2>1. PICK a \in Agents : Stop(a) /\ Serves /\ UNCHANGED <<ipcVars, starts>>
    BY <1>4 DEF StopAgent
  <2>2. server' = server BY <2>1 DEF ipcVars
  <2>3. /\ SupKept' /\ mine' = mine /\ UNCHANGED <<children, registry, hidden, lost>>
        /\ \A p \in Pids : Alive(p)' => Alive(p)
    BY <1>1, <2>1, StopKeeps
  <2>4. NoStrangers' /\ OrphansAreListed' /\ OffIsEmpty'
    BY <1>1, <2>2, <2>3 DEF NoStrangers, OrphansAreListed, OffIsEmpty
  <2> QED BY <1>1, <2>1, <2>3, <2>4, SupNext, IpcStays DEF Inv
<1>5. CASE Shutdown
  <2>1. StopAll /\ CloseClients /\ starts' = starts BY <1>5 DEF Shutdown
  <2>2. server = "open" /\ server' = "closing" /\ IpcInv' BY <1>1, <2>1, CloseKeeps
  <2>3. /\ SupKept' /\ mine' = mine /\ UNCHANGED <<hidden, lost>>
        /\ \A p \in Pids : Alive(p)' => Alive(p)
    BY <1>1, <2>1, StopAllKeeps
  <2>4. NoStrangers' /\ OrphansAreListed' /\ OffIsEmpty'
    BY <1>1, <2>2, <2>3 DEF NoStrangers, OrphansAreListed, OffIsEmpty
  <2> QED BY <1>1, <2>1, <2>2, <2>3, <2>4, SupNext DEF Inv
<1>6. CASE Hear
  <2>1. PICK p \in Pids : server # "off" /\ ExitHeard(p) /\ UNCHANGED <<ipcVars, starts>>
    BY <1>6 DEF Hear
  <2>2. server' = server BY <2>1 DEF ipcVars
  <2>3. /\ SupKept' /\ proc' = proc /\ mine' = mine \ {p} /\ ~Alive(p)
        /\ hidden \subseteq hidden' /\ \A q \in Pids \ mine : q \in lost => q \in lost'
    BY <1>1, <2>1, ExitKeeps
  <2>4. NoStrangers' /\ OrphansAreListed' /\ OffIsEmpty'
    BY <1>1, <2>1, <2>2, <2>3 DEF NoStrangers, OrphansAreListed, OffIsEmpty, Alive
  <2> QED BY <1>1, <2>1, <2>3, <2>4, SupNext, IpcStays DEF Inv
<1>7. CASE Exit \/ Crash
  <2>1. server # "off" /\ Reset /\ Abandon /\ starts' = starts BY <1>7 DEF Exit, Crash
  <2>2. server' = "off" /\ IpcInv' BY <2>1, ResetKeeps
  <2>3. /\ SupKept' /\ mine' = {} /\ \A a \in Agents : children'[a] = NoPid
        /\ UNCHANGED <<proc, registry, hidden, lost>>
        /\ \A p \in mine : Alive(p) => p \in registry \cup lost \cup hidden
    BY <1>1, <2>1, AbandonKeeps
  <2>4. NoStrangers' /\ OrphansAreListed' /\ OffIsEmpty'
    BY <1>1, <2>2, <2>3 DEF NoStrangers, OrphansAreListed, OffIsEmpty, Alive
  <2> QED BY <1>1, <2>1, <2>2, <2>3, <2>4, SupNext DEF Inv
<1>8. CASE ChildStep /\ UNCHANGED <<ipcVars, starts>>
  <2>1. server' = server BY <1>8 DEF ipcVars
  <2>2. /\ SupKept' /\ UNCHANGED <<mine, children>>
        /\ \A p \in Pids : Alive(p)' =>
             /\ Alive(p) /\ (p \in hidden => p \in hidden') /\ (p \in lost => p \in lost')
             /\ p \in registry => p \in registry' \cup lost'
    BY <1>1, <1>8, ChildKeeps
  <2>3. NoStrangers' /\ OrphansAreListed' /\ OffIsEmpty'
    BY <1>1, <2>1, <2>2 DEF NoStrangers, OrphansAreListed, OffIsEmpty
  <2> QED BY <1>1, <1>8, <2>2, <2>3, SupNext, IpcStays DEF Inv
<1>9. CASE (ClientStep \/ DaemonStep) /\ UNCHANGED <<supVars, starts>>
  BY <1>1, <1>9, IpcAlone, ClientKeeps, DaemonKeeps DEF Inv
<1>10. CASE UNCHANGED vars
  <2>1. UNCHANGED supVars /\ UNCHANGED ipcVars /\ starts' = starts /\ server' = server
    BY <1>10 DEF vars, ipcVars
  <2> QED BY <1>1, <2>1, IpcAlone, IpcStays DEF Inv
<1> QED BY <1>2, <1>3, <1>4, <1>5, <1>6, <1>7, <1>8, <1>9, <1>10 DEF Next

(* However late exit events come, whatever children and consoles start,    *)
(* stop or crash: no process of a console goes astray, but for those that  *)
(* history names; and a subscriber has been sent the latest snapshot       *)
(* (AgentSupervisor.ts: start, exit, reapOrphans; IpcServer.ts).           *)
THEOREM NoProcessGoesAstray == Spec => []NoneGoesAstray
<1>1. Inv => NoneGoesAstray BY DEF Inv, SupInv, IpcInv, NoneGoesAstray, TypeOK
<1> QED BY <1>1, InvInit, InvStep, PTL DEF Spec
=============================================================================
