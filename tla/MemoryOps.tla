------------------------------ MODULE MemoryOps ------------------------------
(***************************************************************************)
(* ConversationMemory's folding of old turns into the rolling summary, as  *)
(* operators on the turns and the summary.  A message is                   *)
(* [kind, asked, claims]: a question is a user turn, an answer and a        *)
(* clarification are assistant turns; asked numbers the question it is     *)
(* about, and claims are the figures it states.  A summary is the set of   *)
(* questions whose constraints it carries; the empty string carries none.  *)
(***************************************************************************)
EXTENDS Naturals, Sequences, FiniteSets

Message(kind, asked, claims) ==
    [kind |-> kind, asked |-> asked, claims |-> claims]

\* There is something older than the verbatim window.
CanFold(turns, window) == Len(turns) > window

Older(turns, window)  == SubSeq(turns, 1, Len(turns) - window)

\* Faulty variant: the window is taken from the wrong end.
RecentFromFront(turns, window) == SubSeq(turns, 1, window)

Recent(turns, window) == SubSeq(turns, Len(turns) - window + 1, Len(turns))

\* The questions a summariser is given: the previous summary and what the
\* user said in the folded turns.
Handed(summary, old) ==
    summary \cup {old[i].asked : i \in {j \in DOMAIN old : old[j].kind = "question"}}

\* _summarize's fallback keeps the last `quoted` texts with role "user".  The
\* previous summary is the oldest of them (summary_message() has that role),
\* so it survives only when fewer questions than that are folded with it.
Fallback(summary, old, quoted) ==
    LET said == {j \in DOMAIN old : old[j].kind = "question"}
        kept == {j \in said : Cardinality({i \in said : i >= j}) <= quoted}
    IN  {old[j].asked : j \in kept}
            \cup IF Cardinality(said) < quoted THEN summary ELSE {}

\* What summarize() may return: whatever the model chose to preserve (its
\* reply may be the empty string), or the fallback when the call raised.
Summaries(summary, old, quoted) ==
    (SUBSET Handed(summary, old)) \cup {Fallback(summary, old, quoted)}

==============================================================================
