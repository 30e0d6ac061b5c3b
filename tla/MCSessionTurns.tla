--------------------------- MODULE MCSessionTurns ---------------------------
(* Two tabs on one session and two requests on sessions of their own, with a *)
(* store that holds one session fewer than there are.                        *)
EXTENDS SessionTurns

CONSTANTS tab1, tab2, other, third, a, b, c

MCRequests   == {tab1, tab2, other, third}
MCSessionIds == {a, b, c}
MCSessionOf  == [r \in MCRequests |-> IF r \in {tab1, tab2} THEN a
                                      ELSE IF r = other THEN b ELSE c]
=============================================================================
