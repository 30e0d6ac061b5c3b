--------------------------- MODULE AgentLoopProofs ---------------------------
(***************************************************************************)
(* Theorems about AgentLoop, for every registry, every set of figures and  *)
(* every limit.                                                            *)
(***************************************************************************)
EXTENDS AgentLoop, FiniteSetTheorems, TLAPS

\* What the program counter says about the locals of run().
Control ==
    /\ pc # "idle" => asked \in Questions /\ result = NoResult
    /\ pc \in {"render", "plan", "tool"} => index < MaxSteps
    /\ pc = "tool" => call \in Names

\* The facts the gate checks against are figures queried for this question.
FactsAreQueried == pc # "idle" => facts \subseteq queried[asked]

\* A tool's failure counter is below the limit, and it is zero only when each
\* failure of the tool was followed by a success of it.
CountersTellTheTrace ==
    pc # "idle" =>
        \A n \in Names :
            /\ failures[n] < 2
            /\ failures[n] = 0 =>
                 \A i \in DOMAIN trace :
                     FailedCall(i) /\ trace[i].tool = n => Recovered(n, i, Len(trace))

\* Model calls begun after the client had gone, by where the turn stands.
LateCallsByPhase ==
    /\ lateCalls <= MaxRepairs + 1
    /\ ~cancel => lateCalls = 0
    /\ pc = "render" => lateCalls = 0
    /\ pc = "plan" => lateCalls <= attempts + 1
-----------------------------------------------------------------------------
LEMMA SummariesCarryQuestions ==
    ASSUME NEW s \in SUBSET Questions, NEW old \in Seq(MessageType), NEW quoted,
           NEW text \in Summaries(s, old, quoted)
    PROVE  text \in SUBSET Questions
<1>1. \A j \in DOMAIN old : old[j] \in MessageType
  OBVIOUS
<1>2. \A j \in DOMAIN old : old[j].asked \in Questions
  BY <1>1 DEF MessageType
<1>3. Handed(s, old) \subseteq Questions
  BY <1>2 DEF Handed
<1>4. Fallback(s, old, quoted) \subseteq Questions
  BY <1>2 DEF Fallback
<1>5. CASE text \in SUBSET Handed(s, old)
  BY <1>3, <1>5
<1>6. CASE text = Fallback(s, old, quoted)
  BY <1>4, <1>6
<1>7. QED
  BY <1>5, <1>6 DEF Summaries

LEMMA FoldingKeepsMessages ==
    ASSUME NEW h \in Seq(MessageType), CanFold(h, VerbatimTurns)
    PROVE  /\ Older(h, VerbatimTurns) \in Seq(MessageType)
           /\ Recent(h, VerbatimTurns) \in Seq(MessageType)
BY WindowAssumption DEF CanFold, Older, Recent

\* Putting a question into the memory keeps the memory well formed.
LEMMA RememberType ==
    ASSUME NEW h \in Seq(MessageType), summary \in SUBSET Questions, Remember(h)
    PROVE  turns' \in Seq(MessageType) /\ summary' \in SUBSET Questions
<1>1. CASE turns' = h /\ summary' = summary
  BY <1>1
<1>2. CASE /\ CanFold(h, VerbatimTurns)
           /\ turns' = Recent(h, VerbatimTurns)
           /\ summary' \in Summaries(summary, Older(h, VerbatimTurns), FallbackTurns)
  BY <1>2, FoldingKeepsMessages, SummariesCarryQuestions
<1>3. QED
  BY <1>1, <1>2 DEF Remember

\* A result licenses figures only when its tool queries for them.
LEMMA ResultsAreTyped ==
    ASSUME NEW name, NEW r \in ToolResults(name), r.ok
    PROVE  /\ r.numbers \in SUBSET Numbers
           /\ NumericFacts(r) \subseteq IF name \in References THEN {} ELSE r.numbers
<1>1. CASE name \notin Tools
  BY <1>1 DEF ToolResults, Failure
<1>2. CASE name \in Tools
  <2>1. r = Failure \/ r \in [ok : {TRUE}, grounds : {name \notin References},
                               numbers : SUBSET Numbers]
    BY <1>2 DEF ToolResults
  <2>2. r # Failure
    BY DEF Failure
  <2>3. r.grounds = (name \notin References) /\ r.numbers \in SUBSET Numbers
    BY <2>1, <2>2
  <2>4. QED
    BY <2>3 DEF NumericFacts
<1>3. QED
  BY <1>1, <1>2
-----------------------------------------------------------------------------
(* Type correctness.  Control is what makes the types inductive: an index is *)
(* advanced only below MaxSteps, and a tool call belongs to a question.      *)

LEMMA TypeInit == Init => TypeOK /\ Control
<1> SUFFICES ASSUME Init PROVE TypeOK /\ Control
  OBVIOUS
<1>1. turns \in Seq(MessageType) /\ trace \in Seq(RecordType)
  BY DEF Init
<1>2. failures \in [Names -> Nat] /\ queried \in [Questions -> SUBSET Numbers]
  BY DEF Init
<1>3. /\ summary \in SUBSET Questions /\ pc \in Phases /\ index \in 0..MaxSteps
      /\ retries \in 0..MaxGroundingRetries /\ attempts \in 0..MaxRepairs
      /\ asked \in 0..MaxAsked
  BY LimitsAssumption DEF Init, Phases
<1>4. QED
  BY <1>1, <1>2, <1>3 DEF Init, TypeOK, Control, NoResult

LEMMA AskType ==
    ASSUME TypeOK, Control, Ask PROVE (TypeOK /\ Control)'
<1> USE DEF Ask
<1>1. asked + 1 \in Questions /\ asked' \in Questions
  BY LimitsAssumption DEF TypeOK, Questions
<1>2. Append(turns, Message("question", asked + 1, {})) \in Seq(MessageType)
  <2>1. Message("question", asked + 1, {}) \in MessageType
    BY <1>1 DEF Message, MessageType
  <2>2. QED
    BY <2>1 DEF TypeOK
<1>3. turns' \in Seq(MessageType) /\ summary' \in SUBSET Questions
  BY <1>2, RememberType DEF TypeOK
<1>4. lateCalls' \in Nat
  BY DEF Remember
<1>5. /\ pc' \in Phases /\ index' \in 0..MaxSteps /\ facts' \in SUBSET Numbers
      /\ failures' \in [Names -> Nat] /\ retries' \in 0..MaxGroundingRetries
      /\ trace' \in Seq(RecordType)
  BY LimitsAssumption DEF Phases, FactsAtStart
<1>6. /\ grounding' \in {"none", "ok", "blocked"}
      /\ result' \in [verdict : Verdicts \cup {"none"}, stated : SUBSET Numbers]
      /\ asked' \in 0..MaxAsked /\ cancel' \in BOOLEAN
  BY <1>1 DEF NoResult, Questions
<1>7. /\ attempts' \in 0..MaxRepairs /\ call' \in Names \cup {NoTool}
      /\ queried' \in [Questions -> SUBSET Numbers]
  BY DEF TypeOK
<1>8. TypeOK'
  BY <1>3, <1>4, <1>5, <1>6, <1>7 DEF TypeOK
<1>9. QED
  BY <1>1, <1>8 DEF Control

\* The branches that only move the program counter, or end the turn without a
\* reply in the memory.
LEMMA QuietStepsType ==
    ASSUME TypeOK, Control,
           \/ RequestCancel \/ StopWhenCancelled \/ BeginStep \/ ExhaustSteps
           \/ Render \/ Overflow \/ ModelRaises \/ Repair
           \/ ToolRaises \/ \E name \in Names : CallTool(name)
    PROVE  (TypeOK /\ Control)'
<1> USE DEF TypeOK, Control, memoryVars, traceVars, callerVars, historyVars,
            Phases, Verdicts
<1>1. CASE RequestCancel
  BY <1>1 DEF RequestCancel
<1>2. CASE StopWhenCancelled
  BY <1>2 DEF StopWhenCancelled, Finish
<1>3. CASE BeginStep
  BY <1>3 DEF BeginStep
<1>4. CASE ExhaustSteps
  BY <1>4 DEF ExhaustSteps, Finish
<1>5. CASE Render
  BY <1>5, LimitsAssumption DEF Render, BeginModelCall
<1>6. CASE Overflow
  BY <1>6 DEF Overflow, Finish
<1>7. CASE ModelRaises
  BY <1>7 DEF ModelRaises, Finish
<1>8. CASE Repair
  BY <1>8, LimitsAssumption DEF Repair, BeginModelCall
<1>9. CASE ToolRaises
  BY <1>9 DEF ToolRaises, Finish
<1>10. CASE \E name \in Names : CallTool(name)
  BY <1>10 DEF CallTool
<1>11. QED
  BY <1>1, <1>2, <1>3, <1>4, <1>5, <1>6, <1>7, <1>8, <1>9, <1>10

LEMMA DecisionsType ==
    ASSUME TypeOK, Control,
           \/ RejectPlan \/ Clarify
           \/ \E claims \in SUBSET Numbers : ShipAnswer(claims) \/ BlockAnswer(claims)
    PROVE  (TypeOK /\ Control)'
<1> USE DEF TypeOK, Control, memoryVars, traceVars, callerVars, historyVars,
            Phases, Verdicts, Record, RecordType, Message, MessageType
<1>1. CASE RejectPlan
  BY <1>1 DEF RejectPlan, Finish
<1>2. CASE Clarify
  BY <1>2 DEF Clarify, Finish
<1>3. ASSUME NEW claims \in SUBSET Numbers, ShipAnswer(claims)
      PROVE  (TypeOK /\ Control)'
  BY <1>3 DEF ShipAnswer, Finish
<1>4. ASSUME NEW claims \in SUBSET Numbers, BlockAnswer(claims)
      PROVE  (TypeOK /\ Control)'
  BY <1>4, LimitsAssumption DEF BlockAnswer, Finish, MayRetry, NextIndex
<1>5. QED
  BY <1>1, <1>2, <1>3, <1>4

LEMMA ToolStepsType ==
    ASSUME TypeOK, Control, ToolSucceeds \/ ToolFails
    PROVE  (TypeOK /\ Control)'
<1> USE DEF TypeOK, Control, memoryVars, traceVars, callerVars, historyVars,
            Phases, Verdicts, Record, RecordType
<1>1. CASE ToolSucceeds
  <2>1. PICK r \in ToolResults(call) :
            /\ r.ok
            /\ facts' = facts \cup NumericFacts(r)
            /\ queried' = [queried EXCEPT ![asked] =
                              @ \cup IF call \in References THEN {} ELSE r.numbers]
    BY <1>1 DEF ToolSucceeds
  <2>2. facts' \in SUBSET Numbers /\ queried' \in [Questions -> SUBSET Numbers]
    BY <2>1, ResultsAreTyped
  <2>3. failures' \in [Names -> Nat] /\ trace' \in Seq(RecordType)
    BY <1>1 DEF ToolSucceeds
  <2>4. QED
    BY <1>1, <2>2, <2>3, LimitsAssumption DEF ToolSucceeds, NextIndex
<1>2. CASE ToolFails
  <2>1. failures' \in [Names -> Nat] /\ trace' \in Seq(RecordType)
    BY <1>2 DEF ToolFails
  <2>2. QED
    BY <1>2, <2>1, LimitsAssumption DEF ToolFails, Finish, NextIndex
<1>3. QED
  BY <1>1, <1>2

LEMMA TypeStep == TypeOK /\ Control /\ [Next]_vars => (TypeOK /\ Control)'
<1> SUFFICES ASSUME TypeOK, Control, [Next]_vars
             PROVE  (TypeOK /\ Control)'
  OBVIOUS
<1>1. CASE UNCHANGED vars
  BY <1>1 DEF vars, TypeOK, Control
<1>2. CASE Next
  BY <1>2, AskType, QuietStepsType, DecisionsType, ToolStepsType
  DEF Next, Work, Decide
<1>3. QED
  BY <1>1, <1>2

\* Every variable keeps its type, and the counters their limits, whatever the
\* model, the tools and the client do.
THEOREM TypeCorrect == Spec => []TypeOK
<1>1. Spec => [](TypeOK /\ Control)
  BY TypeInit, TypeStep, PTL DEF Spec
<1>2. QED
  BY <1>1, PTL

LEMMA ControlCorrect == Spec => [](TypeOK /\ Control)
BY TypeInit, TypeStep, PTL DEF Spec
-----------------------------------------------------------------------------
(* The grounding promise.  The invariant that carries it relates the facts   *)
(* the gate reads to what was queried for the question in hand.              *)

Grounding == FactsAreQueried /\ AnswersRestOnQueries

LEMMA GroundingInit == Init => Grounding
BY DEF Init, Grounding, FactsAreQueried, AnswersRestOnQueries

LEMMA RecentComesFromHistory ==
    ASSUME NEW S, NEW h \in Seq(S), CanFold(h, VerbatimTurns)
    PROVE  \A i \in DOMAIN Recent(h, VerbatimTurns) :
              \E j \in DOMAIN h : Recent(h, VerbatimTurns)[i] = h[j]
<1> DEFINE before == Len(h) - VerbatimTurns
<1>1. before \in Nat /\ VerbatimTurns \in Nat /\ before + VerbatimTurns = Len(h)
  BY WindowAssumption DEF CanFold
<1>2. Recent(h, VerbatimTurns) = SubSeq(h, before + 1, Len(h))
  BY DEF Recent
<1> HIDE DEF before
<1>3. Len(SubSeq(h, before + 1, Len(h))) = VerbatimTurns
  BY <1>1
<1>4. \A i \in 1..VerbatimTurns : SubSeq(h, before + 1, Len(h))[i] = h[before + i]
  BY <1>1, <1>3
<1>5. \A i \in 1..VerbatimTurns : before + i \in DOMAIN h
  BY <1>1
<1>6. QED
  BY <1>1, <1>2, <1>3, <1>4, <1>5

\* Folding and appending a question bring no answer into the memory.
LEMMA RememberAnswers ==
    ASSUME TypeOK, NEW m \in MessageType, m.kind # "answer",
           Remember(Append(turns, m)), AnswersRestOnQueries, queried' = queried
    PROVE  AnswersRestOnQueries'
<1> DEFINE h == Append(turns, m)
<1>1. h \in Seq(MessageType) /\ Len(h) = Len(turns) + 1
  BY DEF TypeOK
<1>2. \A i \in DOMAIN h : h[i].kind = "answer" => h[i].claims \subseteq queried[h[i].asked]
  BY DEF TypeOK, AnswersRestOnQueries
<1>3. CASE turns' = h
  BY <1>2, <1>3 DEF AnswersRestOnQueries
<1>4. CASE CanFold(h, VerbatimTurns) /\ turns' = Recent(h, VerbatimTurns)
  <2>1. \A i \in DOMAIN turns' : \E j \in DOMAIN h : turns'[i] = h[j]
    BY <1>1, <1>4, RecentComesFromHistory
  <2>2. QED
    BY <1>2, <2>1 DEF AnswersRestOnQueries
<1>5. QED
  BY <1>3, <1>4 DEF Remember

LEMMA GroundingStep ==
    TypeOK /\ Control /\ Grounding /\ [Next]_vars => Grounding'
<1> SUFFICES ASSUME TypeOK, Control, Grounding, [Next]_vars
             PROVE  Grounding'
  OBVIOUS
<1> USE DEF Grounding
<1>1. CASE Ask
  <2>1. asked + 1 \in Questions
    BY <1>1, LimitsAssumption DEF Ask, TypeOK, Questions
  <2>2. /\ Message("question", asked + 1, {}) \in MessageType
        /\ Message("question", asked + 1, {}).kind # "answer"
    BY <2>1 DEF Message, MessageType
  <2>3. AnswersRestOnQueries'
    BY <1>1, <2>2, RememberAnswers DEF Ask
  <2>4. FactsAreQueried'
    BY <1>1 DEF Ask, FactsAreQueried, FactsAtStart
  <2>5. QED
    BY <2>3, <2>4
<1>2. CASE \E claims \in SUBSET Numbers : ShipAnswer(claims)
  <2>1. PICK claims \in SUBSET Numbers : ShipAnswer(claims)
    BY <1>2
  <2>2. claims \subseteq queried[asked]
    BY <2>1 DEF ShipAnswer, Grounded, FactsAreQueried
  <2>3. turns' = Append(turns, Message("answer", asked, claims)) /\ queried' = queried
    BY <2>1 DEF ShipAnswer, historyVars
  <2>4. AnswersRestOnQueries'
    BY <2>2, <2>3 DEF AnswersRestOnQueries, TypeOK, Message
  <2>5. FactsAreQueried'
    BY <2>1 DEF ShipAnswer, Finish, FactsAreQueried
  <2>6. QED
    BY <2>4, <2>5
<1>3. CASE Clarify
  <2>1. PICK claims \in SUBSET Numbers :
            turns' = Append(turns, Message("clarification", asked, claims))
    BY <1>3 DEF Clarify
  <2>2. AnswersRestOnQueries'
    BY <1>3, <2>1 DEF Clarify, AnswersRestOnQueries, TypeOK, Message, historyVars
  <2>3. QED
    BY <1>3, <2>2 DEF Clarify, Finish, FactsAreQueried
<1>4. CASE ToolSucceeds
  <2>1. PICK r \in ToolResults(call) :
            /\ r.ok
            /\ facts' = facts \cup NumericFacts(r)
            /\ queried' = [queried EXCEPT ![asked] =
                              @ \cup IF call \in References THEN {} ELSE r.numbers]
    BY <1>4 DEF ToolSucceeds
  <2>2. asked \in Questions /\ asked' = asked /\ pc # "idle" /\ turns' = turns
    BY <1>4 DEF ToolSucceeds, Control, callerVars, memoryVars
  <2>3. queried'[asked] = queried[asked] \cup IF call \in References THEN {} ELSE r.numbers
    BY <2>1, <2>2 DEF TypeOK
  <2>4. facts' \subseteq queried'[asked]
    BY <2>1, <2>2, <2>3, ResultsAreTyped DEF FactsAreQueried
  <2>5. \A q \in Questions : queried[q] \subseteq queried'[q]
    BY <2>1, <2>2 DEF TypeOK
  <2>6. \A i \in DOMAIN turns : turns[i] \in MessageType
    BY DEF TypeOK
  <2>7. \A i \in DOMAIN turns : turns[i].asked \in Questions
    BY <2>6 DEF MessageType
  <2>8. AnswersRestOnQueries'
    BY <2>2, <2>5, <2>7 DEF AnswersRestOnQueries
  <2>9. QED
    BY <2>2, <2>4, <2>8 DEF FactsAreQueried
<1>5. CASE \/ RequestCancel \/ StopWhenCancelled \/ BeginStep \/ ExhaustSteps
           \/ Render \/ Overflow \/ ModelRaises \/ Repair \/ RejectPlan
           \/ ToolFails \/ ToolRaises
  <2>1. /\ turns' = turns /\ facts' = facts /\ queried' = queried /\ asked' = asked
        /\ pc = "idle" => pc' = "idle"
    BY <1>5 DEF RequestCancel, StopWhenCancelled, BeginStep, ExhaustSteps, Render,
                Overflow, ModelRaises, Repair, RejectPlan, ToolFails, ToolRaises,
                memoryVars, callerVars, historyVars
  <2>2. QED
    BY <2>1 DEF FactsAreQueried, AnswersRestOnQueries
<1>6. CASE \/ \E claims \in SUBSET Numbers : BlockAnswer(claims)
           \/ \E name \in Names : CallTool(name)
  <2>1. /\ turns' = turns /\ facts' = facts /\ queried' = queried /\ asked' = asked
        /\ pc = "idle" => pc' = "idle"
    BY <1>6 DEF BlockAnswer, CallTool, memoryVars, callerVars, historyVars
  <2>2. QED
    BY <2>1 DEF FactsAreQueried, AnswersRestOnQueries
<1>7. CASE UNCHANGED vars
  BY <1>7 DEF vars, FactsAreQueried, AnswersRestOnQueries
<1>8. QED
  BY <1>1, <1>2, <1>3, <1>4, <1>5, <1>6, <1>7 DEF Next, Work, Decide

\* An answer in the conversation states only figures that queries run for its
\* own question returned.
THEOREM AnswersAreGrounded == Spec => []AnswersRestOnQueries
<1>1. Grounding => AnswersRestOnQueries
  BY DEF Grounding
<1>2. QED
  BY <1>1, ControlCorrect, GroundingInit, GroundingStep, PTL DEF Spec
-----------------------------------------------------------------------------
(* Escalation.  While the turn runs, no tool has two open failures on the    *)
(* trace; the counters are what the code has instead of the trace.           *)

Escalation == CountersTellTheTrace /\ TwoFailuresEndTheTurn

NoOpenPair ==
    \A i, j \in DOMAIN trace :
        i < j /\ FailedCall(i) /\ FailedCall(j) /\ trace[i].tool = trace[j].tool
            => Recovered(trace[i].tool, i, j)

LEMMA NoOpenPairWhileRunning ==
    ASSUME Control, TwoFailuresEndTheTurn, pc # "idle" PROVE NoOpenPair
<1>1. result.verdict # "escalated"
  BY DEF Control, NoResult
<1>2. QED
  BY <1>1 DEF TwoFailuresEndTheTurn, NoOpenPair

LEMMA NoOpenPairSuffices == NoOpenPair => TwoFailuresEndTheTurn
BY DEF NoOpenPair, TwoFailuresEndTheTurn

LEMMA TraceGrows ==
    ASSUME TypeOK, NEW r \in RecordType, trace' = Append(trace, r)
    PROVE  /\ Len(trace) \in Nat /\ DOMAIN trace = 1..Len(trace)
           /\ Len(trace') = Len(trace) + 1 /\ DOMAIN trace' = 1..(Len(trace) + 1)
           /\ \A i \in 1..Len(trace) : trace'[i] = trace[i]
           /\ trace'[Len(trace) + 1] = r
BY DEF TypeOK

\* A recovery on the trace stays one when the trace grows.
LEMMA RecoveryLasts ==
    ASSUME TypeOK, NEW r \in RecordType, trace' = Append(trace, r),
           NEW n, NEW i \in DOMAIN trace, NEW j \in DOMAIN trace, Recovered(n, i, j)
    PROVE  Recovered(n, i, j)' /\ Recovered(n, i, Len(trace))'
<1>1. PICK k \in i..j : trace[k].tool = n /\ trace[k].code = "ok"
  BY DEF Recovered
<1>2. k \in DOMAIN trace /\ k \in i..Len(trace')
  BY TraceGrows
<1>3. trace'[k] = trace[k]
  BY <1>2, TraceGrows
<1>4. trace'[k].tool = n /\ trace'[k].code = "ok"
  BY <1>1, <1>3
<1>5. QED
  BY <1>2, <1>4, TraceGrows DEF Recovered

\* The pairs of failures that end before the new record stay recovered.
LEMMA OldPairsStayRecovered ==
    ASSUME TypeOK, NoOpenPair, NEW r \in RecordType, trace' = Append(trace, r),
           NEW i \in DOMAIN trace, NEW j \in DOMAIN trace, i < j,
           FailedCall(i)', FailedCall(j)', trace'[i].tool = trace'[j].tool
    PROVE  Recovered(trace[i].tool, i, j)'
<1>1. trace'[i] = trace[i] /\ trace'[j] = trace[j]
  BY TraceGrows
<1>2. PICK n : n = trace[i].tool
  OBVIOUS
<1>3. Recovered(n, i, j)
  BY <1>1, <1>2 DEF NoOpenPair, FailedCall
<1>4. Recovered(n, i, j)'
  BY <1>3, RecoveryLasts
<1>5. QED
  BY <1>1, <1>2, <1>4

\* A record that is not a failure opens no pair.
LEMMA OtherRecordsOpenNoPair ==
    ASSUME TypeOK, NoOpenPair, NEW r \in RecordType, trace' = Append(trace, r),
           r.code # "FAILED"
    PROVE  NoOpenPair'
<1> SUFFICES ASSUME NEW i \in DOMAIN trace', NEW j \in DOMAIN trace', i < j,
                    FailedCall(i)', FailedCall(j)', trace'[i].tool = trace'[j].tool
             PROVE  Recovered(trace[i].tool, i, j)'
  BY DEF NoOpenPair
<1>1. i # Len(trace) + 1 /\ j # Len(trace) + 1
  BY TraceGrows DEF FailedCall
<1>2. i \in DOMAIN trace /\ j \in DOMAIN trace
  BY <1>1, TraceGrows
<1>3. QED
  BY <1>2, OldPairsStayRecovered

\* A record that is not a failure keeps what the unchanged counters say.
LEMMA OtherRecordsKeepCounters ==
    ASSUME TypeOK, CountersTellTheTrace, pc # "idle", NEW r \in RecordType,
           trace' = Append(trace, r), r.code # "FAILED",
           NEW n \in Names, failures'[n] = failures[n], failures'[n] = 0,
           NEW i \in DOMAIN trace', FailedCall(i)', trace'[i].tool = n
    PROVE  Recovered(n, i, Len(trace))'
<1>1. i \in DOMAIN trace /\ trace'[i] = trace[i]
  BY TraceGrows DEF FailedCall
<1>2. Recovered(n, i, Len(trace))
  BY <1>1 DEF CountersTellTheTrace, FailedCall
<1>3. Len(trace) \in DOMAIN trace
  BY <1>1, TraceGrows
<1>4. QED
  BY <1>1, <1>2, <1>3, RecoveryLasts

\* The gate and the plan add records that are no tool failures, and leave the
\* counters alone.
LEMMA EscalationDecisions ==
    ASSUME TypeOK, Control, Escalation,
           \/ RejectPlan \/ Clarify
           \/ \E claims \in SUBSET Numbers : ShipAnswer(claims) \/ BlockAnswer(claims)
    PROVE  Escalation'
<1>1. PICK r \in RecordType : trace' = Append(trace, r) /\ r.code # "FAILED"
  <2> USE DEF Record, RecordType
  <2>1. CASE RejectPlan
    BY <2>1 DEF RejectPlan
  <2>2. CASE Clarify
    BY <2>2 DEF Clarify
  <2>3. CASE \E claims \in SUBSET Numbers : ShipAnswer(claims)
    BY <2>3 DEF ShipAnswer
  <2>4. CASE \E claims \in SUBSET Numbers : BlockAnswer(claims)
    BY <2>4 DEF BlockAnswer
  <2>5. QED
    BY <2>1, <2>2, <2>3, <2>4
<1>2. failures' = failures /\ pc # "idle"
  BY DEF RejectPlan, Clarify, ShipAnswer, BlockAnswer
<1>3. NoOpenPair'
  BY <1>1, <1>2, NoOpenPairWhileRunning, OtherRecordsOpenNoPair DEF Escalation
<1>4. TwoFailuresEndTheTurn'
  BY <1>3 DEF NoOpenPair, TwoFailuresEndTheTurn
<1>5. ASSUME NEW n \in Names, failures'[n] = 0, NEW i \in DOMAIN trace',
             FailedCall(i)', trace'[i].tool = n
      PROVE  Recovered(n, i, Len(trace))'
  BY <1>1, <1>2, <1>5, OtherRecordsKeepCounters DEF Escalation
<1>6. CountersTellTheTrace'
  BY <1>2, <1>5 DEF CountersTellTheTrace, Escalation
<1>7. QED
  BY <1>4, <1>6 DEF Escalation

LEMMA EscalationSuccess ==
    ASSUME TypeOK, Control, Escalation, ToolSucceeds PROVE Escalation'
<1> DEFINE r == Record("tool", call, "ok")
<1>1. /\ trace' = Append(trace, r) /\ failures' = [failures EXCEPT ![call] = 0]
      /\ pc # "idle" /\ call \in Names
  BY DEF ToolSucceeds, Control
<1>2. r \in RecordType /\ r.code = "ok" /\ r.tool = call
  BY <1>1 DEF Record, RecordType
<1> HIDE DEF r
<1>3. NoOpenPair'
  BY <1>1, <1>2, NoOpenPairWhileRunning, OtherRecordsOpenNoPair DEF Escalation
<1>4. ASSUME NEW n \in Names, failures'[n] = 0, NEW i \in DOMAIN trace',
             FailedCall(i)', trace'[i].tool = n
      PROVE  Recovered(n, i, Len(trace))'
  <2>1. CASE n = call
    BY <1>1, <1>2, <1>4, <2>1, TraceGrows DEF Recovered
  <2>2. CASE n # call
    <3>1. failures'[n] = failures[n]
      BY <1>1, <2>2 DEF TypeOK
    <3>2. QED
      BY <1>1, <1>2, <1>4, <3>1, OtherRecordsKeepCounters DEF Escalation
  <2>3. QED
    BY <2>1, <2>2
<1>5. \A n \in Names : failures'[n] < 2
  BY <1>1 DEF Escalation, CountersTellTheTrace, TypeOK
<1>6. CountersTellTheTrace'
  BY <1>4, <1>5 DEF CountersTellTheTrace
<1>7. QED
  BY <1>3, <1>6 DEF Escalation, NoOpenPair, TwoFailuresEndTheTurn

LEMMA EscalationFailure ==
    ASSUME TypeOK, Control, Escalation, ToolFails PROVE Escalation'
<1> DEFINE r == Record("tool", call, "FAILED")
<1>1. /\ trace' = Append(trace, r) /\ failures' = [failures EXCEPT ![call] = @ + 1]
      /\ pc # "idle" /\ call \in Names
  BY DEF ToolFails, Control
<1>2. r \in RecordType /\ r.tool = call
  BY <1>1 DEF Record, RecordType
<1> HIDE DEF r
<1>3. NoOpenPair
  BY <1>1, NoOpenPairWhileRunning DEF Escalation
<1>4. failures[call] \in Nat
  BY <1>1 DEF TypeOK
\* The second failure in a row: the turn is over, and its record is the last.
<1>5. CASE Escalates(failures[call] + 1)
  <2>1. pc' = "idle" /\ result'.verdict = "escalated"
    BY <1>5 DEF ToolFails, Finish
  <2>2. ASSUME NEW i \in DOMAIN trace', NEW j \in DOMAIN trace', i < j, j # Len(trace'),
               FailedCall(i)', FailedCall(j)', trace'[i].tool = trace'[j].tool
        PROVE  Recovered(trace[i].tool, i, j)'
    <3>1. i \in DOMAIN trace /\ j \in DOMAIN trace
      BY <1>1, <1>2, <2>2, TraceGrows
    <3>2. QED
      BY <1>1, <1>2, <1>3, <2>2, <3>1, OldPairsStayRecovered
  <2>3. TwoFailuresEndTheTurn'
    BY <2>1, <2>2 DEF TwoFailuresEndTheTurn
  <2>4. QED
    BY <2>1, <2>3 DEF Escalation, CountersTellTheTrace
\* The first: every earlier failure of the tool was followed by a success.
<1>6. CASE ~Escalates(failures[call] + 1)
  <2>1. failures[call] = 0
    BY <1>4, <1>6 DEF Escalates
  <2>2. ASSUME NEW n \in Names, failures[n] = 0, NEW i \in DOMAIN trace,
               FailedCall(i)', trace'[i].tool = n
        PROVE  Recovered(n, i, Len(trace))'
    <3>1. trace'[i] = trace[i]
      BY <1>1, <1>2, TraceGrows
    <3>2. Recovered(n, i, Len(trace))
      BY <1>1, <2>2, <3>1 DEF Escalation, CountersTellTheTrace, FailedCall
    <3>3. Len(trace) \in DOMAIN trace
      BY <1>1, <1>2, TraceGrows
    <3>4. QED
      BY <1>1, <1>2, <3>2, <3>3, RecoveryLasts
  <2>3. ASSUME NEW i \in DOMAIN trace', NEW j \in DOMAIN trace', i < j,
               FailedCall(i)', FailedCall(j)', trace'[i].tool = trace'[j].tool
        PROVE  Recovered(trace[i].tool, i, j)'
    <3>1. i \in DOMAIN trace
      BY <1>1, <1>2, <2>3, TraceGrows
    <3>2. CASE j \in DOMAIN trace
      BY <1>1, <1>2, <1>3, <2>3, <3>1, <3>2, OldPairsStayRecovered
    <3>3. CASE j = Len(trace) + 1
      <4>1. trace'[i].tool = call /\ j = Len(trace')
        BY <1>1, <1>2, <2>3, <3>3, TraceGrows
      <4>2. PICK n \in Names : n = call
        BY <1>1
      <4>3. Recovered(n, i, Len(trace))'
        BY <2>1, <2>2, <2>3, <3>1, <4>1, <4>2
      <4>4. QED
        BY <4>1, <4>2, <4>3
    <3>4. QED
      BY <1>1, <1>2, <3>2, <3>3, TraceGrows
  <2>4. TwoFailuresEndTheTurn'
    BY <2>3 DEF TwoFailuresEndTheTurn
  <2>5. ASSUME NEW n \in Names, failures'[n] = 0, NEW i \in DOMAIN trace',
               FailedCall(i)', trace'[i].tool = n
        PROVE  Recovered(n, i, Len(trace))'
    <3>1. n # call /\ failures[n] = 0
      BY <1>1, <1>4, <2>1, <2>5 DEF TypeOK
    <3>2. i \in DOMAIN trace
      BY <1>1, <1>2, <2>5, <3>1, TraceGrows
    <3>3. QED
      BY <2>2, <2>5, <3>1, <3>2
  <2>6. \A n \in Names : failures'[n] < 2
    BY <1>1, <2>1 DEF Escalation, CountersTellTheTrace, TypeOK
  <2>7. QED
    BY <2>4, <2>5, <2>6 DEF Escalation, CountersTellTheTrace
<1>7. QED
  BY <1>5, <1>6

LEMMA EscalationStep ==
    TypeOK /\ Control /\ Escalation /\ [Next]_vars => Escalation'
<1> SUFFICES ASSUME TypeOK, Control, Escalation, [Next]_vars
             PROVE  Escalation'
  OBVIOUS
<1>1. CASE Ask
  <2>1. trace' = <<>> /\ failures' = [n \in Names |-> 0]
    BY <1>1 DEF Ask
  <2>2. QED
    BY <2>1 DEF Escalation, CountersTellTheTrace, TwoFailuresEndTheTurn
<1>2. CASE \/ RequestCancel \/ StopWhenCancelled \/ BeginStep \/ ExhaustSteps
           \/ Render \/ Overflow \/ ModelRaises \/ Repair \/ ToolRaises
           \/ \E name \in Names : CallTool(name)
  <2>1. trace' = trace /\ failures' = failures /\ pc # "idle"
    BY <1>2 DEF RequestCancel, StopWhenCancelled, BeginStep, ExhaustSteps, Render,
                Overflow, ModelRaises, Repair, ToolRaises, CallTool, traceVars
  <2>2. CountersTellTheTrace'
    BY <2>1 DEF Escalation, CountersTellTheTrace, FailedCall, Recovered
  <2>3. NoOpenPair'
    BY <2>1, NoOpenPairWhileRunning DEF Escalation, NoOpenPair, FailedCall, Recovered
  <2>4. QED
    BY <2>2, <2>3 DEF Escalation, NoOpenPair, TwoFailuresEndTheTurn
<1>3. CASE UNCHANGED vars
  BY <1>3 DEF vars, Escalation, CountersTellTheTrace, TwoFailuresEndTheTurn,
              FailedCall, Recovered
<1>4. QED
  BY <1>1, <1>2, <1>3, EscalationDecisions, EscalationSuccess, EscalationFailure
  DEF Next, Work, Decide

\* A tool that fails twice with no success in between ends the turn there.
THEOREM EscalationCorrect == Spec => []TwoFailuresEndTheTurn
<1>1. Init => Escalation
  BY DEF Init, Escalation, CountersTellTheTrace, TwoFailuresEndTheTurn
<1>2. Escalation => TwoFailuresEndTheTurn
  BY DEF Escalation
<1>3. QED
  BY <1>1, <1>2, ControlCorrect, EscalationStep, PTL DEF Spec
-----------------------------------------------------------------------------
(* Late model calls. *)

LEMMA LateCallsStep ==
    TypeOK /\ LateCallsByPhase /\ [Next]_vars => LateCallsByPhase'
<1> SUFFICES ASSUME TypeOK, LateCallsByPhase, [Next]_vars
             PROVE  LateCallsByPhase'
  OBVIOUS
<1> USE LimitsAssumption DEF LateCallsByPhase, TypeOK
<1>1. CASE Ask
  BY <1>1 DEF Ask, Remember
<1>2. CASE RequestCancel
  BY <1>2 DEF RequestCancel, historyVars
<1>3. CASE BeginStep
  BY <1>3 DEF BeginStep, GoesOn, historyVars, callerVars
<1>4. CASE Render
  BY <1>4 DEF Render, BeginModelCall, callerVars
<1>5. CASE Repair
  BY <1>5 DEF Repair, BeginModelCall, callerVars
<1>6. CASE \/ StopWhenCancelled \/ ExhaustSteps \/ Overflow \/ ModelRaises
           \/ RejectPlan \/ Clarify \/ ToolSucceeds \/ ToolFails \/ ToolRaises
           \/ \E claims \in SUBSET Numbers : ShipAnswer(claims) \/ BlockAnswer(claims)
           \/ \E name \in Names : CallTool(name)
  <2>1. lateCalls' = lateCalls /\ cancel' = cancel /\ pc' \in {"idle", "poll", "tool"}
    BY <1>6 DEF StopWhenCancelled, ExhaustSteps, Overflow, ModelRaises, RejectPlan,
                Clarify, ToolSucceeds, ToolFails, ToolRaises, ShipAnswer, BlockAnswer,
                CallTool, Finish, callerVars, historyVars
  <2>2. QED
    BY <2>1
<1>7. CASE UNCHANGED vars
  BY <1>7 DEF vars
<1>8. QED
  BY <1>1, <1>2, <1>3, <1>4, <1>5, <1>6, <1>7 DEF Next, Work, Decide

\* A client that has gone costs at most one structured-output exchange.
THEOREM LateCalls == Spec => []LateCallsAreBounded
<1>1. Init => LateCallsByPhase
  BY LimitsAssumption DEF Init, LateCallsByPhase
<1>2. LateCallsByPhase => LateCallsAreBounded
  BY DEF LateCallsByPhase, LateCallsAreBounded
<1>3. QED
  BY <1>1, <1>2, LateCallsStep, TypeCorrect, PTL DEF Spec
-----------------------------------------------------------------------------
(* The refinement, without its fairness: every step of the loop is a step   *)
(* AgentTurn allows, or leaves what AgentTurn sees alone.                    *)

LEMMA TurnStep ==
    TypeOK /\ Control /\ [Next]_vars => [Turn!Next]_Turn!vars
<1> SUFFICES ASSUME TypeOK, Control, [Next]_vars
             PROVE  [Turn!Next]_Turn!vars
  OBVIOUS
<1> USE DEF Turn!vars
\* The turn ends with a verdict other than an answer.
<1>1. ASSUME NEW v \in Verdicts \ {"answered"}, pc # "idle", Finish(v, {}),
             asked' = asked, facts' = facts
      PROVE  Turn!Next
  <2>1. Turn!Settle(v, {})
    BY <1>1 DEF Turn!Settle, Finish
  <2>2. QED
    BY <2>1 DEF Turn!Next
<1>2. CASE Ask
  BY <1>2 DEF Ask, FactsAtStart, NoResult, Turn!Next, Turn!Ask
<1>3. CASE RequestCancel \/ BeginStep \/ Render \/ Repair \/ \E name \in Names : CallTool(name)
  <2>1. /\ asked' = asked /\ facts' = facts /\ result' = result
        /\ pc # "idle" /\ pc' # "idle"
    BY <1>3 DEF RequestCancel, BeginStep, Render, Repair, CallTool, callerVars
  <2>2. QED
    BY <2>1
<1>4. CASE StopWhenCancelled
  BY <1>1, <1>4 DEF StopWhenCancelled, Verdicts, callerVars
<1>5. CASE ExhaustSteps
  BY <1>1, <1>5 DEF ExhaustSteps, Verdicts, callerVars
<1>6. CASE Overflow \/ ModelRaises \/ ToolRaises
  BY <1>1, <1>6 DEF Overflow, ModelRaises, ToolRaises, Verdicts, callerVars
<1>7. CASE RejectPlan
  BY <1>1, <1>7 DEF RejectPlan, Verdicts, callerVars
<1>8. CASE Clarify
  BY <1>1, <1>8 DEF Clarify, Verdicts, callerVars
<1>9. ASSUME NEW claims \in SUBSET Numbers, ShipAnswer(claims) PROVE Turn!Next
  <2>1. Turn!Settle("answered", claims)
    BY <1>9 DEF ShipAnswer, Grounded, Finish, callerVars, Turn!Settle
  <2>2. QED
    BY <2>1 DEF Turn!Next, Verdicts
<1>10. ASSUME NEW claims \in SUBSET Numbers, BlockAnswer(claims)
       PROVE  [Turn!Next]_Turn!vars
  <2>1. CASE MayRetry(retries)
    BY <1>10, <2>1 DEF BlockAnswer, callerVars
  <2>2. CASE ~MayRetry(retries)
    BY <1>1, <1>10, <2>2 DEF BlockAnswer, Verdicts, callerVars
  <2>3. QED
    BY <2>1, <2>2
<1>11. CASE ToolSucceeds
  <2>1. PICK r \in ToolResults(call) : r.ok /\ facts' = facts \cup NumericFacts(r)
    BY <1>11 DEF ToolSucceeds
  <2>2. NumericFacts(r) \in SUBSET Numbers
    BY <2>1, ResultsAreTyped
  <2>3. Turn!Learn
    BY <1>11, <2>1, <2>2 DEF ToolSucceeds, callerVars, Turn!Learn
  <2>4. QED
    BY <2>3 DEF Turn!Next
<1>12. CASE ToolFails
  <2>1. CASE Escalates(failures[call] + 1)
    BY <1>1, <1>12, <2>1 DEF ToolFails, Verdicts, callerVars
  <2>2. CASE ~Escalates(failures[call] + 1)
    BY <1>12, <2>2 DEF ToolFails, callerVars
  <2>3. QED
    BY <2>1, <2>2
<1>13. CASE UNCHANGED vars
  BY <1>13 DEF vars
<1>14. QED
  BY <1>2, <1>3, <1>4, <1>5, <1>6, <1>7, <1>8, <1>9, <1>10, <1>11, <1>12, <1>13
  DEF Next, Work, Decide

\* The loop implements AgentTurn's safety: one question at a time, evidence
\* that starts empty and only grows, and answers within the evidence.
THEOREM LoopIsATurn == Spec => Turn!Init /\ [][Turn!Next]_Turn!vars
<1>1. Init => Turn!Init
  BY DEF Init, NoResult, Turn!Init
<1>2. QED
  BY <1>1, ControlCorrect, TurnStep, PTL DEF Spec
-----------------------------------------------------------------------------
(* The trace tells the outcome, blocked answers are bounded, and the question *)
(* stays in view.                                                            *)

\* The steps of a turn, by what they do to the trace.
Continues == BeginStep \/ Render \/ Repair \/ RequestCancel \/ \E name \in Names : CallTool(name)
GivesUp   == StopWhenCancelled \/ ExhaustSteps \/ Overflow \/ ModelRaises \/ ToolRaises
Recording == \/ RejectPlan \/ Clarify \/ ToolSucceeds \/ ToolFails
             \/ \E claims \in SUBSET Numbers : ShipAnswer(claims) \/ BlockAnswer(claims)

LEMMA StepsByTrace ==
    ASSUME [Next]_vars
    PROVE  Ask \/ Continues \/ GivesUp \/ Recording \/ UNCHANGED vars
BY DEF Next, Work, Decide, Continues, GivesUp, Recording

LEMMA ContinuesTurn ==
    ASSUME Continues
    PROVE  /\ pc # "idle" /\ pc' # "idle"
           /\ UNCHANGED <<turns, trace, retries, index, result, asked>>
BY DEF Continues, BeginStep, Render, Repair, RequestCancel, CallTool,
       memoryVars, traceVars, callerVars

LEMMA GivesUpTurn ==
    ASSUME GivesUp
    PROVE  /\ pc # "idle" /\ pc' = "idle"
           /\ UNCHANGED <<turns, trace, asked>>
           /\ result'.verdict \in {"cancelled", "exhausted", "raised"}
BY DEF GivesUp, StopWhenCancelled, ExhaustSteps, Overflow, ModelRaises, ToolRaises,
       Finish, memoryVars, traceVars, callerVars
-----------------------------------------------------------------------------
(* What a step that adds a record adds, and where it leaves the turn. *)

Adds(action, code) ==
    \E n \in Names \cup {NoTool} : trace' = Append(trace, Record(action, n, code))

Stays  == pc' = "poll" /\ index' = index + 1 /\ UNCHANGED result
Ends(verdict) == pc' = "idle" /\ result'.verdict = verdict

LEMMA RecordingKinds ==
    ASSUME TypeOK, Control, Recording
    PROVE  /\ pc \in {"plan", "tool"} /\ asked' = asked
           /\ \/ Adds("answer", "INVALID_PLAN") /\ Ends("invalid_plan")  /\ retries' = retries
              \/ Adds("clarify", "ok")          /\ Ends("clarified")     /\ retries' = retries
              \/ Adds("answer", "ok")           /\ Ends("answered")      /\ retries' = retries
              \/ Adds("answer", "UNGROUNDED")   /\ Ends("ungrounded")    /\ ~MayRetry(retries)
              \/ Adds("answer", "UNGROUNDED")   /\ Stays /\ MayRetry(retries) /\ retries' = retries - 1
              \/ Adds("tool", "ok")             /\ Stays                 /\ retries' = retries
              \/ Adds("tool", "FAILED")         /\ Stays                 /\ retries' = retries
              \/ Adds("tool", "FAILED")         /\ Ends("escalated")     /\ retries' = retries
<1> USE DEF Adds, Ends, Finish, callerVars
<1>1. CASE RejectPlan
  BY <1>1 DEF RejectPlan
<1>2. CASE Clarify
  BY <1>2 DEF Clarify
<1>3. CASE \E claims \in SUBSET Numbers : ShipAnswer(claims)
  BY <1>3 DEF ShipAnswer
<1>4. CASE \E claims \in SUBSET Numbers : BlockAnswer(claims)
  BY <1>4 DEF BlockAnswer, Stays, NextIndex
<1>5. CASE ToolSucceeds
  BY <1>5 DEF ToolSucceeds, Stays, NextIndex, Control
<1>6. CASE ToolFails
  BY <1>6 DEF ToolFails, Stays, NextIndex, Control
<1>7. QED
  BY <1>1, <1>2, <1>3, <1>4, <1>5, <1>6 DEF Recording

LEMMA RecordsTyped ==
    ASSUME NEW action \in {"tool", "clarify", "answer"},
           NEW code \in {"ok", "INVALID_PLAN", "UNGROUNDED", "FAILED"},
           NEW n \in Names \cup {NoTool}
    PROVE  /\ Record(action, n, code) \in RecordType
           /\ Record(action, n, code).code = code
           /\ Record(action, n, code).action = action
BY DEF Record, RecordType
-----------------------------------------------------------------------------
(* Blocked answers and retries add up. *)

BlocksCounted == pc # "idle" => Cardinality(Blocked) + retries = MaxGroundingRetries
BlockInv == BlocksCounted /\ BlockedAnswersAreBounded

LEMMA BlockedFinite ==
    ASSUME TypeOK PROVE IsFiniteSet(Blocked) /\ Cardinality(Blocked) \in Nat
<1>1. Blocked \subseteq 1..Len(trace) /\ Len(trace) \in Nat
  BY DEF Blocked, TypeOK
<1>2. IsFiniteSet(1..Len(trace))
  BY <1>1, FS_Interval
<1>3. QED
  BY <1>1, <1>2, FS_Subset, FS_CardinalityType

LEMMA BlockedGrows ==
    ASSUME TypeOK, NEW r \in RecordType, trace' = Append(trace, r)
    PROVE  Cardinality(Blocked') = Cardinality(Blocked) + (IF r.code = "UNGROUNDED" THEN 1 ELSE 0)
<1>1. CASE r.code = "UNGROUNDED"
  <2>1. Blocked' = Blocked \cup {Len(trace) + 1}
    BY <1>1, TraceGrows DEF Blocked
  <2>2. Len(trace) + 1 \notin Blocked
    BY TraceGrows DEF Blocked
  <2>3. QED
    BY <1>1, <2>1, <2>2, BlockedFinite, FS_AddElement
<1>2. CASE r.code # "UNGROUNDED"
  <2>1. Blocked' = Blocked
    BY <1>2, TraceGrows DEF Blocked
  <2>2. QED
    BY <1>2, <2>1, BlockedFinite
<1>3. QED
  BY <1>1, <1>2

LEMMA BlockStep == TypeOK /\ Control /\ BlockInv /\ [Next]_vars => BlockInv'
<1> SUFFICES ASSUME TypeOK, Control, BlockInv, [Next]_vars
             PROVE  BlockInv'
  OBVIOUS
<1> USE LimitsAssumption DEF BlockInv, BlocksCounted, BlockedAnswersAreBounded
<1>0. retries \in Nat /\ Cardinality(Blocked) \in Nat
  BY BlockedFinite DEF TypeOK
<1>1. CASE Ask
  <2>1. trace' = <<>> /\ retries' = MaxGroundingRetries
    BY <1>1 DEF Ask
  <2>2. Blocked' = {}
    BY <2>1 DEF Blocked
  <2>3. QED
    BY <2>1, <2>2, FS_EmptySet
<1>2. CASE Continues
  <2>1. Blocked' = Blocked
    BY <1>2, ContinuesTurn DEF Blocked
  <2>2. QED
    BY <1>0, <1>2, <2>1, ContinuesTurn
<1>3. CASE GivesUp
  <2>1. Blocked' = Blocked
    BY <1>3, GivesUpTurn DEF Blocked
  <2>2. QED
    BY <1>0, <1>3, <2>1, GivesUpTurn
<1>4. CASE Recording
  <2>1. Cardinality(Blocked) + retries = MaxGroundingRetries
    BY <1>4, RecordingKinds
  <2>2. CASE \E action \in {"tool", "clarify", "answer"}, code \in {"ok", "INVALID_PLAN", "FAILED"} :
                Adds(action, code) /\ retries' = retries
    <3>1. Cardinality(Blocked') = Cardinality(Blocked)
      BY <1>0, <2>2, BlockedGrows, RecordsTyped DEF Adds
    <3>2. QED
      BY <1>0, <2>1, <2>2, <3>1
  <2>3. CASE Adds("answer", "UNGROUNDED")
    <3>1. Cardinality(Blocked') = Cardinality(Blocked) + 1
      BY <1>0, <2>3, BlockedGrows, RecordsTyped DEF Adds
    <3>2. CASE Stays /\ MayRetry(retries) /\ retries' = retries - 1
      BY <1>0, <2>1, <3>1, <3>2 DEF Stays, MayRetry
    <3>3. CASE Ends("ungrounded") /\ ~MayRetry(retries)
      BY <1>0, <2>1, <3>1, <3>3 DEF Ends, MayRetry
    <3>4. CASE \E action \in {"tool", "clarify", "answer"}, code \in {"ok", "INVALID_PLAN", "FAILED"} :
                  Adds(action, code)
      <4>1. Cardinality(Blocked') = Cardinality(Blocked)
        BY <1>0, <3>4, BlockedGrows, RecordsTyped DEF Adds
      <4>2. QED
        BY <1>0, <3>1, <4>1
    <3>5. QED
      BY <1>4, <3>2, <3>3, <3>4, RecordingKinds
  <2>4. QED
    BY <1>4, <2>2, <2>3, RecordingKinds
<1>5. CASE UNCHANGED vars
  BY <1>5 DEF vars, Blocked
<1>6. QED
  BY <1>1, <1>2, <1>3, <1>4, <1>5, StepsByTrace

\* The gate sends an answer back at most MaxGroundingRetries times in a turn, and
\* the next blocked answer ends it.
THEOREM GateHolds == Spec => []BlockedAnswersAreBounded
<1>1. Init => BlockInv
  <2> SUFFICES ASSUME Init PROVE BlockInv
    OBVIOUS
  <2>1. Blocked = {}
    BY DEF Init, Blocked
  <2>2. QED
    BY <2>1, FS_EmptySet, LimitsAssumption DEF Init, BlockInv, BlocksCounted, BlockedAnswersAreBounded
<1>2. BlockInv => BlockedAnswersAreBounded
  BY DEF BlockInv
<1>3. QED
  BY <1>1, <1>2, ControlCorrect, BlockStep, PTL DEF Spec
-----------------------------------------------------------------------------
(* The trace and the outcome agree.  While the turn runs no record closes it,  *)
(* so the one that the ending step adds, if any, is the only one.             *)

NothingClosed == \A i \in DOMAIN trace : ~Closing(trace[i])

LEMMA RunningIsOpen ==
    ASSUME TraceTellsTheOutcome, pc # "idle"
    PROVE  NothingClosed /\ Len(trace) = index
BY DEF TraceTellsTheOutcome, NothingClosed

\* The record of a step that goes on closes nothing, and it is counted.
LEMMA StayingKeepsOpen ==
    ASSUME TypeOK, NothingClosed, Len(trace) = index, index < MaxSteps, Stays,
           NEW action \in {"tool", "answer"}, NEW code \in {"ok", "UNGROUNDED", "FAILED"},
           action = "tool" \/ code = "UNGROUNDED", Adds(action, code)
    PROVE  TraceTellsTheOutcome'
<1>1. PICK n \in Names \cup {NoTool} : trace' = Append(trace, Record(action, n, code))
  BY DEF Adds
<1>2. ~Closing(Record(action, n, code))
  BY DEF Closing, Record
<1>3. Record(action, n, code) \in RecordType
  BY RecordsTyped
<1>4. Len(trace') = Len(trace) + 1 /\ \A i \in DOMAIN trace' : ~Closing(trace'[i])
  BY <1>1, <1>2, <1>3, TraceGrows DEF NothingClosed
<1>5. index \in Nat /\ MaxSteps \in Nat
  BY LimitsAssumption DEF TypeOK
<1>6. pc' = "poll" /\ index' = index + 1
  BY DEF Stays
<1>7. QED
  BY <1>4, <1>5, <1>6 DEF TraceTellsTheOutcome

\* A step that ends the turn adds the record of its verdict, and no other.
LEMMA EndingTells ==
    ASSUME TypeOK, NothingClosed, Len(trace) = index, index < MaxSteps,
           NEW action \in {"tool", "clarify", "answer"},
           NEW code \in {"ok", "INVALID_PLAN", "UNGROUNDED", "FAILED"},
           NEW verdict, Adds(action, code), Ends(verdict),
           \/ action = "answer"  /\ code = "INVALID_PLAN" /\ verdict = "invalid_plan"
           \/ action = "clarify" /\ code = "ok"           /\ verdict = "clarified"
           \/ action = "answer"  /\ code = "ok"           /\ verdict = "answered"
           \/ action = "answer"  /\ code = "UNGROUNDED"   /\ verdict = "ungrounded"
           \/ action = "tool"    /\ code = "FAILED"       /\ verdict = "escalated"
    PROVE  TraceTellsTheOutcome'
<1>1. PICK n \in Names \cup {NoTool} : trace' = Append(trace, Record(action, n, code))
  BY DEF Adds
<1> DEFINE r == Record(action, n, code)
<1>2. r \in RecordType /\ r.code = code /\ r.action = action
  BY RecordsTyped
<1>3. Closing(r) <=> code = "INVALID_PLAN" \/ (action # "tool" /\ code = "ok")
  BY <1>2 DEF Closing
<1> HIDE DEF r
<1>4. /\ Len(trace') = Len(trace) + 1 /\ DOMAIN trace' = 1..(Len(trace) + 1)
      /\ trace'[Len(trace')] = r
      /\ \A i \in DOMAIN trace' : Closing(trace'[i]) => i = Len(trace') /\ pc' = "idle"
  BY <1>1, <1>2, TraceGrows DEF NothingClosed, r, Ends
<1>5. Len(trace') <= MaxSteps /\ trace' # <<>>
  BY <1>4, LimitsAssumption DEF TypeOK
<1>6. pc' = "idle" /\ result'.verdict = verdict
  BY DEF Ends
<1>7. /\ result'.verdict = "answered" <=> Closing(r) /\ r.action = "answer" /\ r.code = "ok"
      /\ result'.verdict = "clarified" <=> Closing(r) /\ r.action = "clarify"
      /\ result'.verdict = "invalid_plan" <=> Closing(r) /\ r.code = "INVALID_PLAN"
  BY <1>2, <1>3, <1>6
<1>8. QED
  BY <1>4, <1>5, <1>6, <1>7 DEF TraceTellsTheOutcome

LEMMA TraceStep ==
    TypeOK /\ Control /\ TraceTellsTheOutcome /\ [Next]_vars => TraceTellsTheOutcome'
<1> SUFFICES ASSUME TypeOK, Control, TraceTellsTheOutcome, [Next]_vars
             PROVE  TraceTellsTheOutcome'
  OBVIOUS
<1>1. CASE Ask
  <2>1. trace' = <<>> /\ index' = 0 /\ pc' = "poll"
    BY <1>1 DEF Ask
  <2>2. QED
    BY <2>1, LimitsAssumption DEF TraceTellsTheOutcome
<1>2. CASE Continues
  BY <1>2, ContinuesTurn DEF TraceTellsTheOutcome
<1>3. CASE GivesUp
  <2>1. NothingClosed
    BY <1>3, GivesUpTurn, RunningIsOpen
  <2>2. DOMAIN trace = 1..Len(trace) /\ Len(trace) \in Nat
    BY DEF TypeOK
  <2>3. trace # <<>> => ~Closing(trace[Len(trace)])
    BY <2>1, <2>2 DEF NothingClosed, TypeOK
  <2>4. QED
    BY <1>3, <2>1, <2>3, GivesUpTurn DEF TraceTellsTheOutcome, NothingClosed
<1>4. CASE Recording
  <2>1. NothingClosed /\ Len(trace) = index /\ index < MaxSteps
    BY <1>4, RecordingKinds, RunningIsOpen DEF Control
  <2>2. CASE \E action \in {"tool", "answer"}, code \in {"ok", "UNGROUNDED", "FAILED"} :
                (action = "tool" \/ code = "UNGROUNDED") /\ Adds(action, code) /\ Stays
    BY <2>1, <2>2, StayingKeepsOpen
  <2>3. CASE Adds("answer", "INVALID_PLAN") /\ Ends("invalid_plan")
    BY <2>1, <2>3, EndingTells
  <2>4. CASE Adds("clarify", "ok") /\ Ends("clarified")
    BY <2>1, <2>4, EndingTells
  <2>5. CASE Adds("answer", "ok") /\ Ends("answered")
    BY <2>1, <2>5, EndingTells
  <2>6. CASE Adds("answer", "UNGROUNDED") /\ Ends("ungrounded")
    BY <2>1, <2>6, EndingTells
  <2>7. CASE Adds("tool", "FAILED") /\ Ends("escalated")
    BY <2>1, <2>7, EndingTells
  <2>8. QED
    BY <1>4, <2>2, <2>3, <2>4, <2>5, <2>6, <2>7, RecordingKinds
<1>5. CASE UNCHANGED vars
  BY <1>5 DEF vars, TraceTellsTheOutcome
<1>6. QED
  BY <1>1, <1>2, <1>3, <1>4, <1>5, StepsByTrace

\* The trace has one record per completed step, and it is closed by exactly the
\* record of the outcome that was returned.
THEOREM TraceCorrect == Spec => []TraceTellsTheOutcome
<1>1. Init => TraceTellsTheOutcome
  BY LimitsAssumption DEF Init, TraceTellsTheOutcome
<1>2. QED
  BY <1>1, ControlCorrect, TraceStep, PTL DEF Spec
-----------------------------------------------------------------------------
(* The question stays the newest message: Ask puts it last, folding keeps the  *)
(* end of the turns, and only a step that ends the turn writes behind it.     *)

EndsWith(history, m) == Len(history) > 0 /\ history[Len(history)] = m

LEMMA RecentKeepsTheEnd ==
    ASSUME NEW h \in Seq(MessageType), NEW m, EndsWith(h, m), CanFold(h, VerbatimTurns)
    PROVE  EndsWith(Recent(h, VerbatimTurns), m)
<1> DEFINE before == Len(h) - VerbatimTurns
<1>1. before \in Nat /\ VerbatimTurns \in Nat \ {0} /\ before + VerbatimTurns = Len(h)
  BY WindowAssumption DEF CanFold
<1>2. Recent(h, VerbatimTurns) = SubSeq(h, before + 1, Len(h))
  BY DEF Recent
<1> HIDE DEF before
<1>3. Len(SubSeq(h, before + 1, Len(h))) = VerbatimTurns
  BY <1>1
<1>4. SubSeq(h, before + 1, Len(h))[VerbatimTurns] = h[before + VerbatimTurns]
  BY <1>1, <1>3
<1>5. h[before + VerbatimTurns] = m
  BY <1>1 DEF EndsWith
<1>6. QED
  BY <1>1, <1>2, <1>3, <1>4, <1>5 DEF EndsWith

LEMMA AskPutsTheQuestionLast ==
    ASSUME TypeOK, Ask
    PROVE  EndsWith(turns', Message("question", asked', {}))
<1> DEFINE m == Message("question", asked + 1, {})
           h == Append(turns, m)
<1>1. m \in MessageType
  BY LimitsAssumption DEF Ask, TypeOK, Message, MessageType, Questions
<1>2. Remember(h) /\ asked' = asked + 1
  BY DEF Ask
<1> HIDE DEF m
<1>3. h \in Seq(MessageType) /\ EndsWith(h, m)
  BY <1>1 DEF TypeOK, EndsWith
<1> HIDE DEF h
<1>4. turns' = h \/ (CanFold(h, VerbatimTurns) /\ turns' = Recent(h, VerbatimTurns))
  BY <1>2 DEF Remember
<1>5. EndsWith(turns', m)
  BY <1>3, <1>4, RecentKeepsTheEnd
<1>6. QED
  BY <1>2, <1>5 DEF m

\* A step that goes on after adding a record says nothing to the user.
LEMMA RecordingStaysQuiet ==
    ASSUME TypeOK, Control, Recording, pc' # "idle"
    PROVE  pc # "idle" /\ turns' = turns /\ asked' = asked
<1> USE DEF Finish, memoryVars, callerVars
<1>1. ~RejectPlan /\ ~Clarify /\ ~(\E claims \in SUBSET Numbers : ShipAnswer(claims))
  BY DEF RejectPlan, Clarify, ShipAnswer
<1>2. CASE \E claims \in SUBSET Numbers : BlockAnswer(claims)
  BY <1>2 DEF BlockAnswer
<1>3. CASE ToolSucceeds
  BY <1>3 DEF ToolSucceeds
<1>4. CASE ToolFails
  BY <1>4 DEF ToolFails
<1>5. QED
  BY <1>1, <1>2, <1>3, <1>4 DEF Recording

LEMMA QuestionStep ==
    TypeOK /\ Control /\ QuestionInView /\ [Next]_vars => QuestionInView'
<1> SUFFICES ASSUME TypeOK, Control, QuestionInView, [Next]_vars
             PROVE  QuestionInView'
  OBVIOUS
<1>1. CASE Ask
  BY <1>1, AskPutsTheQuestionLast DEF EndsWith, Message, QuestionInView
<1>2. CASE Continues
  BY <1>2, ContinuesTurn DEF QuestionInView
<1>3. CASE GivesUp
  BY <1>3, GivesUpTurn DEF QuestionInView
<1>4. CASE Recording
  BY <1>4, RecordingStaysQuiet DEF QuestionInView
<1>5. CASE UNCHANGED vars
  BY <1>5 DEF vars, QuestionInView
<1>6. QED
  BY <1>1, <1>2, <1>3, <1>4, <1>5, StepsByTrace

\* While a question is being answered it is the newest message of the memory,
\* however often the history was folded on its account.
THEOREM QuestionStaysInView == Spec => []QuestionInView
<1>1. Init => QuestionInView
  BY DEF Init, QuestionInView
<1>2. QED
  BY <1>1, ControlCorrect, QuestionStep, PTL DEF Spec
=============================================================================
