---------------------------- MODULE Conversations ----------------------------
(***************************************************************************)
(* What the session store promises the requests that carry a session_id,   *)
(* without memories, locks or workers: a session is one conversation in    *)
(* which requests take turns, each asking its question and getting at most *)
(* one reply, right behind it, until the store forgets the session.  After *)
(* that nothing is promised about it.  SessionTurns implements it.         *)
(***************************************************************************)
EXTENDS MemoryOps

CONSTANTS Requests, SessionIds,
          SessionOf,  \* the session each request belongs to
          Nothing     \* nobody's turn

VARIABLES turn,  \* session -> the request whose turn it is
          talk,  \* session -> what was said, as far as it was not folded away
          lost   \* the sessions that were forgotten
vars == <<turn, talk, lost>>

Says(r, kind) == Message(kind, r, {})
Newest(turns, message) == turns # <<>> /\ turns[Len(turns)] = message

Init == /\ turn = [s \in SessionIds |-> Nothing]
        /\ talk = [s \in SessionIds |-> <<>>]
        /\ lost = {}

\* A turn begins with a question, when no other turn of the session is running.
Ask(r) ==
    LET s == SessionOf[r]
    IN  /\ s \notin lost /\ turn[s] = Nothing
        /\ turn' = [turn EXCEPT ![s] = r]
        /\ talk' = [talk EXCEPT ![s] = Append(@, Says(r, "question"))]
        /\ UNCHANGED lost

\* Old messages may be folded away during a turn, its question never.
Fold(r) ==
    LET s == SessionOf[r]
    IN  /\ turn[s] = r /\ Newest(talk[s], Says(r, "question"))
        /\ \E first \in 1..Len(talk[s]) :
              talk' = [talk EXCEPT ![s] = SubSeq(@, first, Len(@))]
        /\ UNCHANGED <<turn, lost>>

Answer(r) ==
    LET s == SessionOf[r]
    IN  /\ turn[s] = r /\ Newest(talk[s], Says(r, "question"))
        /\ talk' = [talk EXCEPT ![s] = Append(@, Says(r, "answer"))]
        /\ UNCHANGED <<turn, lost>>

EndTurn(r) ==
    LET s == SessionOf[r]
    IN  /\ turn[s] = r
        /\ turn' = [turn EXCEPT ![s] = Nothing]
        /\ UNCHANGED <<talk, lost>>

Forget(gone) ==
    /\ turn' = [s \in SessionIds |-> IF s \in gone THEN Nothing ELSE turn[s]]
    /\ talk' = [s \in SessionIds |-> IF s \in gone THEN <<>> ELSE talk[s]]
    /\ lost' = lost \cup gone

Next == \/ \E r \in Requests : Ask(r) \/ Fold(r) \/ Answer(r) \/ EndTurn(r)
        \/ \E gone \in SUBSET SessionIds : Forget(gone)

Spec == Init /\ [][Next]_vars
=============================================================================
