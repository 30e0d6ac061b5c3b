---------------------------- MODULE MCChatService ----------------------------
(* Two tabs of one session and a request of another. *)
EXTENDS ChatService

CONSTANTS tab1, tab2, other, a, b

MCRequests   == {tab1, tab2, other}
MCSessionIds == {a, b}
MCSessionOf  == [r \in MCRequests |-> IF r = other THEN b ELSE a]
==============================================================================
