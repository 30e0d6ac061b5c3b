---------------------------- MODULE ContextWindow ----------------------------
(***************************************************************************)
(* What reaches the model: the three tiers of ConversationMemory (pinned   *)
(* facts, rolling summary, turns), the remember tool that writes the first *)
(* of them, and the budget that render() fits them into before each step.  *)
(*                                                                         *)
(* Texts are their sizes in tokens, a message's framing included.  Two     *)
(* messages of equal text are two messages: a message is its place in the  *)
(* history.                                                                *)
(***************************************************************************)
EXTENDS Integers, Sequences, FiniteSets, SequencesExt

CONSTANTS Room,          \* the window less the output and the reserve
          SystemSize,    \* the system prompt
          HeaderSize,    \* the line above the pinned facts
          Keys,          \* keys of pinned facts
          TextSizes,     \* sizes of questions and answers
          PinSizes,      \* sizes of pinned values within the caps
          SummarySizes,  \* sizes of the summariser's replies, 0 if empty
          MaxPins,       \* MAX_PINNED_FACTS
          VerbatimTurns, FallbackTurns,
          MaxAsked       \* bound on the questions of one conversation

ASSUME SizesAssumption == /\ Room \in Nat /\ SystemSize \in Nat /\ HeaderSize \in Nat
                          /\ TextSizes \subseteq Nat \ {0}
                          /\ PinSizes \subseteq Nat \ {0}
                          /\ SummarySizes \subseteq Nat
ASSUME CountsAssumption == /\ MaxPins \in Nat /\ MaxAsked \in Nat
                           /\ VerbatimTurns \in Nat \ {0}
                           /\ FallbackTurns \in Nat \ {0}

VARIABLES
  \* ConversationMemory: the sizes of the pins (0 is absent) and of the
  \* summary (0 is none), and the turns
  pinned, summary, turns,
  \* the turn that is running, and the last render of it
  phase, asked, view,
  \* history: the facts that remember confirmed and nobody retracted
  standing

memoryVars == <<pinned, summary, turns>>
vars == <<pinned, summary, turns, phase, asked, view, standing>>

Text(role, size) == [role |-> role, size |-> size]

TotalSize(texts) ==
    LET total[n \in 0..Len(texts)] == IF n = 0 THEN 0 ELSE total[n - 1] + texts[n].size
    IN  total[Len(texts)]
-----------------------------------------------------------------------------
(* The budget. *)

Present(pins) == {k \in Keys : pins[k] # 0}

\* pinned_block: empty when nothing is pinned.
PinnedBlock(pins) ==
    IF Present(pins) = {} THEN 0
    ELSE LET keys == SetToSeq(Present(pins))
         IN  HeaderSize + TotalSize([i \in DOMAIN keys |-> Text("pin", pins[keys[i]])])

\* Faulty variant: the room is measured without the pinned block.
AvailableForBare(pins) == Room - SystemSize

\* available_for_history of render: what the system prompt and the pins leave.
Available(pins) == Room - SystemSize - PinnedBlock(pins)

\* The history that is fitted: the summary, if there is one, and the turns.
History == IF summary = 0 THEN turns ELSE <<Text("summary", summary)>> \o turns

\* Faulty variant: the oldest message of the user is protected.
FirstUser(history) == {i \in DOMAIN history :
    history[i].role = "user" /\ \A j \in 1..(i - 1) : history[j].role # "user"}

\* The newest message of the user.
LastUser(history) == {i \in DOMAIN history :
    history[i].role = "user" /\ \A j \in (i + 1)..Len(history) : history[j].role # "user"}

\* must_keep: the summary and the newest message of the user.
MustKeep(history) ==
    {i \in DOMAIN history : history[i].role = "summary"} \cup LastUser(history)

At(history, places) == [i \in 1..Len(history) |->
    IF i \in places THEN history[i] ELSE Text("none", 0)]

\* The tokens the messages at these places use.
Used(history, places) == TotalSize(At(history, places))

\* One message of the walk of fit(): one that fits is kept, one that does not is
\* passed over.
WithIfFits(history, room, kept, i) ==
    IF i \notin MustKeep(history) /\ Used(history, kept \cup {i}) <= room
    THEN kept \cup {i}
    ELSE kept

\* Faulty variant: the walk starts from the oldest message.
OldestFirst(history, room) ==
    LET kept[n \in 0..Len(history)] ==
            IF n = 0 THEN MustKeep(history)
            ELSE WithIfFits(history, room, kept[n - 1], n)
    IN  kept[Len(history)]

\* The walk of fit(), newest first: kept[n] is what is kept once the newest n
\* messages have been looked at.
NewestFirst(history, room) ==
    LET kept[n \in 0..Len(history)] ==
            IF n = 0 THEN MustKeep(history)
            ELSE WithIfFits(history, room, kept[n - 1], Len(history) + 1 - n)
    IN  kept[Len(history)]

\* must_keep alone exceeds the budget.
Overflows(history, room) == Used(history, MustKeep(history)) > room

\* needs_compression measures the turns against the budget without the system
\* prompt, the pins and the summary.
NeedsCompression(history) ==
    Len(history) > VerbatimTurns /\ TotalSize(history) > Room
-----------------------------------------------------------------------------
NoView == [kept |-> {}, history |-> <<>>, pins |-> [k \in Keys |-> 0]]

Init == /\ pinned = [k \in Keys |-> 0]
        /\ summary = 0
        /\ turns = <<>>
        /\ phase = "idle"
        /\ asked = 0
        /\ view = NoView
        /\ standing = {}

\* The fallback of _summarize: the last texts with role "user", of which the
\* previous summary is the oldest.
FallbackSize(old) ==
    LET said   == {j \in DOMAIN old : old[j].role = "user"}
        newest == {j \in said : Cardinality({i \in said : i >= j}) <= FallbackTurns}
    IN  Used(old, newest) + IF Cardinality(said) < FallbackTurns THEN summary ELSE 0

\* Faulty variant: folding starts a clean slate.
PinsCleared(pins) == [k \in Keys |-> 0]

\* compress() leaves the pins alone.
PinsAfterFold(pins) == pins

\* run() adds the question, and folds what is older than the verbatim window
\* into the summary when the turns have grown too large.
Ask(size) ==
    LET history == Append(turns, Text("user", size))
        cut     == Len(history) - VerbatimTurns
        old     == SubSeq(history, 1, cut)
    IN  /\ phase = "idle"
        /\ asked < MaxAsked
        /\ asked' = asked + 1
        /\ \/ /\ ~NeedsCompression(history)
              /\ turns' = history
              /\ UNCHANGED <<summary, pinned>>
           \/ /\ NeedsCompression(history)
              /\ turns' = SubSeq(history, cut + 1, Len(history))
              /\ summary' \in SummarySizes \cup {FallbackSize(old)}
              /\ pinned' = PinsAfterFold(pinned)
        /\ phase' = "step"
        /\ view' = NoView
        /\ UNCHANGED standing

\* render() at the start of a step.
Render ==
    /\ phase = "step"
    /\ ~Overflows(History, Available(pinned))
    /\ view' = [kept |-> NewestFirst(History, Available(pinned)),
                history |-> History, pins |-> pinned]
    /\ phase' = "plan"
    /\ UNCHANGED <<memoryVars, asked, standing>>

\* ContextOverflowError ends the turn.
Overflow ==
    /\ phase = "step"
    /\ Overflows(History, Available(pinned))
    /\ view' = NoView
    /\ phase' = "idle"
    /\ UNCHANGED <<memoryVars, asked, standing>>

\* Faulty variant: the limit is checked for the keys that are already there.
AnyRoomForPin(pins, key) == Cardinality(Present(pins)) <= MaxPins

\* remember accepts a value for a key that is pinned, or for one more key.
RoomForPin(pins, key) == key \in Present(pins) \/ Cardinality(Present(pins)) < MaxPins

Remember(key, size) ==
    /\ phase = "plan"
    /\ RoomForPin(pinned, key)
    /\ pinned' = [pinned EXCEPT ![key] = size]
    /\ standing' = standing \cup {key}
    /\ phase' = "step"
    /\ UNCHANGED <<summary, turns, asked, view>>

Forget(key) ==
    /\ phase = "plan"
    /\ pinned' = [pinned EXCEPT ![key] = 0]
    /\ standing' = standing \ {key}
    /\ phase' = "step"
    /\ UNCHANGED <<summary, turns, asked, view>>

\* A tool that leaves the memory alone, a remember that is refused, or an
\* answer that is blocked: on to the next step.
Continue ==
    /\ phase = "plan"
    /\ phase' = "step"
    /\ UNCHANGED <<memoryVars, asked, view, standing>>

\* The turn ends with a reply ...
Reply(size) ==
    /\ phase = "plan"
    /\ turns' = Append(turns, Text("assistant", size))
    /\ phase' = "idle"
    /\ UNCHANGED <<pinned, summary, asked, view, standing>>

\* ... or without one (cancelled, blocked, exhausted, escalated, raised).
End ==
    /\ phase = "plan"
    /\ phase' = "idle"
    /\ UNCHANGED <<memoryVars, asked, view, standing>>

Next == \/ \E size \in TextSizes : Ask(size) \/ Reply(size)
        \/ Render \/ Overflow \/ Continue \/ End
        \/ \E key \in Keys : Forget(key) \/ \E size \in PinSizes : Remember(key, size)

Spec == Init /\ [][Next]_vars
-----------------------------------------------------------------------------
(* Properties. *)

Sizes == [role : {"user", "assistant"}, size : TextSizes]

\* Every variable has the type the code gives it, and remember keeps the pins
\* within their number.
TypeOK ==
    /\ pinned \in [Keys -> PinSizes \cup {0}]
    /\ Cardinality(Present(pinned)) <= MaxPins
    /\ summary \in Nat
    /\ turns \in Seq(Sizes)
    /\ phase \in {"idle", "step", "plan"}
    /\ asked \in 0..MaxAsked
    /\ view.kept \subseteq DOMAIN view.history
    /\ standing \in SUBSET Keys

\* The history that is sent fits the window beside the system prompt and the
\* pins.  (What generate() puts behind it, the step's observations and the
\* schema instruction, is outside the budget in the code and in the model.)
ViewFits ==
    phase = "plan" =>
        SystemSize + PinnedBlock(view.pins) + Used(view.history, view.kept) <= Room

\* Whatever else is evicted, the model sees the question it is to answer, which
\* is the last turn, and the summary of what was folded.
QuestionAndSummaryInView ==
    phase = "plan" =>
        /\ Len(view.history) \in view.kept
        /\ view.history[Len(view.history)].role = "user"
        /\ summary # 0 => 1 \in view.kept /\ view.history[1] = Text("summary", summary)

\* "Pinned facts that never evict": a fact that remember confirmed stands in
\* the system prompt of every later step until it is retracted, through
\* folding, eviction and any number of turns.
PinsReachTheModel ==
    phase = "plan" => \A k \in standing : view.pins[k] # 0

\* Recency: a message is left out only when it does not fit beside the
\* protected messages and what is newer than it.
NewestAreKept ==
    phase = "plan" =>
        \A i \in DOMAIN view.history \ view.kept :
            LET newer == {j \in view.kept : j > i} \cup MustKeep(view.history)
            IN  Used(view.history, newer \cup {i}) > Available(view.pins)
==============================================================================
