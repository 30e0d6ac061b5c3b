------------------------------ MODULE AgentTurn ------------------------------
(***************************************************************************)
(* What one conversation promises its user, without saying how: questions  *)
(* are settled one at a time, evidence belongs to the question it was      *)
(* gathered for, and an answer states only numbers that are in evidence.   *)
(* AgentLoop implements it.                                                *)
(***************************************************************************)
EXTENDS Naturals

CONSTANTS Numbers,   \* the figures an answer may state
          Verdicts,  \* the ways a question can be settled
          MaxAsked   \* bound on the questions of one conversation

VARIABLES asked,     \* how many questions have been asked
          open,      \* whether the last one is still being worked on
          evidence,  \* what the tools have established for it
          verdict,   \* how it was settled ("none" while it is open)
          stated     \* the numbers the answer to it states

vars == <<asked, open, evidence, verdict, stated>>

Init == /\ asked = 0
        /\ open = FALSE
        /\ evidence = {}
        /\ verdict = "none"
        /\ stated = {}

\* A new question starts from no evidence at all.
Ask == /\ ~open
       /\ asked < MaxAsked
       /\ asked' = asked + 1
       /\ open' = TRUE
       /\ evidence' = {}
       /\ verdict' = "none"
       /\ stated' = {}

\* Evidence is only ever added to an open question.
Learn == /\ open
         /\ \E found \in SUBSET Numbers : evidence' = evidence \cup found
         /\ UNCHANGED <<asked, open, verdict, stated>>

Settle(v, s) == /\ open
                /\ v = "answered" => s \subseteq evidence
                /\ v # "answered" => s = {}
                /\ open' = FALSE
                /\ verdict' = v
                /\ stated' = s
                /\ UNCHANGED <<asked, evidence>>

Next == \/ Ask
        \/ Learn
        \/ \E v \in Verdicts, s \in SUBSET Numbers : Settle(v, s)

Spec == /\ Init
        /\ [][Next]_vars
        /\ WF_vars(\E v \in Verdicts, s \in SUBSET Numbers : Settle(v, s))

==============================================================================
