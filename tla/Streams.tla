-------------------------------- MODULE Streams --------------------------------
(***************************************************************************)
(* What POST /v1/chat promises its clients, without semaphore, threads or  *)
(* queues: at most MaxConcurrent requests are served at a time and one is  *)
(* refused only when that many are; a client hears how its run is getting  *)
(* on and then, once, how it ended; its stream closes after that, or after *)
(* it has left.  ChatService implements it.                                *)
(***************************************************************************)
EXTENDS Naturals, Sequences, FiniteSets

CONSTANTS Requests,
          MaxConcurrent  \* Settings.max_concurrent_requests

VARIABLES state,   \* request -> new, refused, served, left or closed
          heard,   \* request -> the events its client has received
          outcome  \* request -> how its run ended: none, returned or raised
vars == <<state, heard, outcome>>

Occupied == {r \in Requests : state[r] \in {"served", "left"}}

\* The event that says how the run ended, and whether the client has it.
News(r) == IF outcome[r] = "raised" THEN "error" ELSE "done"
Knows(r) == \E i \in DOMAIN heard[r] : heard[r][i] # "progress"

Init == /\ state = [r \in Requests |-> "new"]
        /\ heard = [r \in Requests |-> <<>>]
        /\ outcome = [r \in Requests |-> "none"]

Move(r, from, to) == state[r] = from /\ state' = [state EXCEPT ![r] = to]

Refuse(r) == /\ Cardinality(Occupied) = MaxConcurrent
             /\ Move(r, "new", "refused")
             /\ UNCHANGED <<heard, outcome>>

Admit(r) == /\ Cardinality(Occupied) < MaxConcurrent
            /\ Move(r, "new", "served")
            /\ UNCHANGED <<heard, outcome>>

\* A run ends once, whether somebody is still listening or not.
EndRun(r) == /\ state[r] \in {"served", "left", "closed"}
             /\ outcome[r] = "none"
             /\ \E how \in {"returned", "raised"} : outcome' = [outcome EXCEPT ![r] = how]
             /\ UNCHANGED <<state, heard>>

\* Progress is told until the outcome is, and the outcome when there is one.
Tell(r) == /\ state[r] = "served" /\ ~Knows(r)
           /\ \E event \in {"progress"} \cup (IF outcome[r] = "none" THEN {} ELSE {News(r)}) :
                 heard' = [heard EXCEPT ![r] = Append(@, event)]
           /\ UNCHANGED <<state, outcome>>

Leave(r) == /\ Move(r, "served", "left")
            /\ UNCHANGED <<heard, outcome>>

Close(r) == /\ \/ Move(r, "left", "closed")
               \/ Knows(r) /\ Move(r, "served", "closed")
            /\ UNCHANGED <<heard, outcome>>

Next == \E r \in Requests :
           Refuse(r) \/ Admit(r) \/ EndRun(r) \/ Tell(r) \/ Leave(r) \/ Close(r)

Spec == Init /\ [][Next]_vars
================================================================================
