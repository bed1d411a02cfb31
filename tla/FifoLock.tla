------------------------------ MODULE FifoLock ------------------------------
(***************************************************************************)
(* What an asynchronous mutex promises, without promises: callers take a   *)
(* ticket when they ask, and the section is given to the waiting caller    *)
(* with the lowest ticket when nobody is inside.                           *)
(***************************************************************************)
EXTENDS Naturals

CONSTANT Calls

VARIABLES pc, ticket, asked

vars == <<pc, ticket, asked>>

Init == /\ pc = [c \in Calls |-> "idle"]
        /\ ticket = [c \in Calls |-> 0]
        /\ asked = 0

Ask(c) == /\ pc[c] = "idle"
          /\ asked' = asked + 1
          /\ ticket' = [ticket EXCEPT ![c] = asked']
          /\ pc' = [pc EXCEPT ![c] = "waiting"]

Serve(c) == /\ pc[c] = "waiting"
            /\ \A d \in Calls : /\ pc[d] # "critical"
                                /\ pc[d] = "waiting" => ticket[c] <= ticket[d]
            /\ pc' = [pc EXCEPT ![c] = "critical"]
            /\ UNCHANGED <<ticket, asked>>

Finish(c) == /\ pc[c] = "critical"
             /\ pc' = [pc EXCEPT ![c] = "done"]
             /\ UNCHANGED <<ticket, asked>>

Next == \E c \in Calls : Ask(c) \/ Serve(c) \/ Finish(c)

Spec == Init /\ [][Next]_vars
=============================================================================
