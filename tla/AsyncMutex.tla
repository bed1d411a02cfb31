----------------------------- MODULE AsyncMutex -----------------------------
(***************************************************************************)
(* The in-process Mutex (packages/core/src/shared/mutex.ts) that serialises *)
(* the write tools (ToolExecutor.writeToolsMutex, withWriteToolsLock) and   *)
(* the state.json transactions (withStateLock).                            *)
(*                                                                         *)
(* There is no owner field: a call chains its own waiter promise after the *)
(* promise it found in `queue' and awaits what it found.  A promise is     *)
(* named by the call that created it; NoCall is the resolved promise the   *)
(* mutex is born with.  waiter is the set of calls whose waiter promise is *)
(* resolved, settled the set of calls whose link                           *)
(* previous.then(() => waiter, () => waiter) is.  The event loop runs the  *)
(* continuations in any order.  ticket and asked only record the order of  *)
(* the acquire calls; nothing reads them.                                  *)
(***************************************************************************)
EXTENDS Naturals

CONSTANTS Calls,   \* the runExclusive calls made in a run
          NoCall

ASSUME NoCallAssumption == NoCall \notin Calls

VARIABLES
  pc,        \* idle, waiting (await previous), critical (runs fn), done
  queue,     \* tail of the chain
  previous,  \* what a call awaits
  waiter, settled,
  locked,    \* _locked
  ticket, asked

chainVars == <<queue, previous>>
mutexVars == <<pc, chainVars, waiter, settled, locked, ticket, asked>>

\* Mutant: a link settles when its callback starts.
ResolvedOnEntry(p) ==
  p \in {NoCall} \cup {c \in Calls : pc[c] \in {"critical", "done"}}

Resolved(p) == p = NoCall \/ p \in settled

\* Mutant: the tail of the chain is not advanced.
AcquireKeepsTail(c) ==
  /\ pc[c] = "idle"
  /\ previous' = [previous EXCEPT ![c] = queue]
  /\ pc' = [pc EXCEPT ![c] = "waiting"]
  /\ asked' = asked + 1
  /\ ticket' = [ticket EXCEPT ![c] = asked']
  /\ UNCHANGED <<queue, waiter, settled, locked>>

(* acquire, up to its await. *)
Acquire(c) ==
  /\ pc[c] = "idle"
  /\ previous' = [previous EXCEPT ![c] = queue]
  /\ queue' = c
  /\ pc' = [pc EXCEPT ![c] = "waiting"]
  /\ asked' = asked + 1
  /\ ticket' = [ticket EXCEPT ![c] = asked']
  /\ UNCHANGED <<waiter, settled, locked>>

\* Mutant: the wrong promise is resolved.
LinkSettlesPrevious(c) ==
  /\ c \in waiter \ settled
  /\ Resolved(previous[c])
  /\ settled' = settled \cup {previous[c]}
  /\ UNCHANGED <<pc, chainVars, waiter, locked, ticket, asked>>

(* The link of c: its previous link has settled and its own waiter is     *)
(* resolved.                                                               *)
LinkSettles(c) ==
  /\ c \in waiter \ settled
  /\ Resolved(previous[c])
  /\ settled' = settled \cup {c}
  /\ UNCHANGED <<pc, chainVars, waiter, locked, ticket, asked>>

\* Mutant: previous is not awaited.
GrantedAtOnce(c) ==
  /\ pc[c] = "waiting"
  /\ locked' = TRUE
  /\ pc' = [pc EXCEPT ![c] = "critical"]
  /\ UNCHANGED <<chainVars, waiter, settled, ticket, asked>>

(* await previous resumes: acquire returns and runExclusive calls fn. *)
Granted(c) ==
  /\ pc[c] = "waiting"
  /\ Resolved(previous[c])
  /\ locked' = TRUE
  /\ pc' = [pc EXCEPT ![c] = "critical"]
  /\ UNCHANGED <<chainVars, waiter, settled, ticket, asked>>

\* Mutant: _locked is not reset.
ReleaseStaysLocked(c) ==
  /\ pc[c] = "critical"
  /\ waiter' = waiter \cup {c}
  /\ pc' = [pc EXCEPT ![c] = "done"]
  /\ UNCHANGED <<chainVars, settled, locked, ticket, asked>>

\* Mutant: a throwing callback may skip the release.
ReleaseNotOnThrow(c) ==
  /\ pc[c] = "critical"
  /\ locked' = FALSE
  /\ waiter' \in {waiter, waiter \cup {c}}
  /\ pc' = [pc EXCEPT ![c] = "done"]
  /\ UNCHANGED <<chainVars, settled, ticket, asked>>

(* fn returned or threw: the finally of runExclusive calls release. *)
Release(c) ==
  /\ pc[c] = "critical"
  /\ locked' = FALSE
  /\ waiter' = waiter \cup {c}
  /\ pc' = [pc EXCEPT ![c] = "done"]
  /\ UNCHANGED <<chainVars, settled, ticket, asked>>

MutexInit ==
  /\ pc = [c \in Calls |-> "idle"]
  /\ queue = NoCall
  /\ previous = [c \in Calls |-> NoCall]
  /\ waiter = {} /\ settled = {}
  /\ locked = FALSE
  /\ ticket = [c \in Calls |-> 0] /\ asked = 0

Step(c) == LinkSettles(c) \/ Granted(c) \/ Release(c)

MutexNext == \E c \in Calls : Acquire(c) \/ Step(c)

MutexSpec == MutexInit /\ [][MutexNext]_mutexVars

(* Continuations run and every exclusive callback ends. *)
MutexFairSpec == MutexSpec /\ \A c \in Calls : WF_mutexVars(Step(c))

-----------------------------------------------------------------------------
MutexTypeOK ==
  /\ pc \in [Calls -> {"idle", "waiting", "critical", "done"}]
  /\ queue \in Calls \cup {NoCall}
  /\ previous \in [Calls -> Calls \cup {NoCall}]
  /\ waiter \subseteq Calls /\ settled \subseteq Calls
  /\ locked \in BOOLEAN
  /\ ticket \in [Calls -> Nat] /\ asked \in Nat

Arrived(c) == pc[c] # "idle"
Entered(c) == pc[c] \in {"critical", "done"}

(* Callbacks run in the order of the runExclusive calls: whoever entered,  *)
(* all earlier calls are done.  (So two write tools never overlap.)        *)
FirstComeFirstServed ==
  \A c, d \in Calls :
    Arrived(c) /\ Entered(d) /\ ticket[c] < ticket[d] => pc[c] = "done"

(* Two callbacks are never in progress together: the write tools of two   *)
(* sessions do not interleave at their awaits.                             *)
MutualExclusion ==
  \A c, d \in Calls : pc[c] = "critical" /\ pc[d] = "critical" => c = d

(* isLocked tells the truth: between a release and the next grant it says  *)
(* free even though calls wait, and it never says free with one inside.    *)
LockedIffInside == locked <=> \E c \in Calls : pc[c] = "critical"

(* The implementation of the promise: pc and the tickets are the lock's    *)
(* whole abstract state.                                                   *)
Lock == INSTANCE FifoLock
ImplementsFifoLock == Lock!Spec

(* A call that waits runs, whatever earlier callbacks threw. *)
EveryCallRuns == \A c \in Calls : pc[c] = "waiting" ~> pc[c] = "done"
=============================================================================
