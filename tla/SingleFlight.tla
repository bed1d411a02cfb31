---------------------------- MODULE SingleFlight ----------------------------
(***************************************************************************)
(* What the daemon promises about its autonomous cycles, without flags:    *)
(* a cycle that fires while a cycle it must not overlap is in progress     *)
(* skips its tick, and nothing starts once a shutdown has begun.           *)
(* "Runs" are the invocations; doing[r] is the cycle invocation r executes.*)
(***************************************************************************)
CONSTANT Runs

VARIABLES doing, closed

vars == <<doing, closed>>

Cycles == {"management", "screening", "pnlPoll", "opportunityPoll", "sweeper"}

(* Blockers[c]: the cycles whose activity makes a start of c skip its tick. *)
Blockers ==
  [management      |-> {"management", "pnlPoll"},
   screening       |-> {"screening"},
   pnlPoll         |-> {"management", "screening", "pnlPoll"},
   opportunityPoll |-> {"management", "screening", "pnlPoll", "opportunityPoll"},
   sweeper         |-> {"management", "sweeper"}]

MayStart(c) == ~closed /\ \A s \in Runs : doing[s] \notin Blockers[c]

Init == /\ doing \in [Runs -> {"idle", "screening"}]
        /\ \A r, s \in Runs : doing[r] = "screening" /\ doing[s] = "screening" => r = s
        /\ closed = FALSE

Start(r, c) == /\ doing[r] = "idle"
               /\ MayStart(c)
               /\ doing' = [doing EXCEPT ![r] = c]
               /\ UNCHANGED closed

End(r) == /\ doing[r] # "idle"
          /\ doing' = [doing EXCEPT ![r] = "idle"]
          /\ UNCHANGED closed

(* A cycle's last act may be to start a screening cycle in its place. *)
HandOver(r) == /\ doing[r] \notin {"idle", "screening"}
               /\ MayStart("screening")
               /\ doing' = [doing EXCEPT ![r] = "screening"]
               /\ UNCHANGED closed

Close == closed' = TRUE /\ UNCHANGED doing

Next == \/ \E r \in Runs : \/ \E c \in Cycles : Start(r, c)
                           \/ End(r)
                           \/ HandOver(r)
        \/ Close

Spec == Init /\ [][Next]_vars

-----------------------------------------------------------------------------
TypeOK == doing \in [Runs -> Cycles \cup {"idle"}] /\ closed \in BOOLEAN

(* Two cycles that block one another (every cycle and itself; management   *)
(* and the PnL poll) are never both in progress.                           *)
MutuallyBlocking(c, d) == c \in Blockers[d] /\ d \in Blockers[c]

Exclusion ==
  \A r, s \in Runs :
    r # s /\ doing[r] # "idle" /\ doing[s] # "idle" =>
      ~MutuallyBlocking(doing[r], doing[s])
=============================================================================
