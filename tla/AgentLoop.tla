------------------------------ MODULE AgentLoop ------------------------------
(***************************************************************************)
(* Agent.run: one conversation, one question at a time.  A question is     *)
(* answered by a bounded loop of steps.  Each step asks the model for a    *)
(* plan (with structured-output repairs), then clarifies, runs a tool, or  *)
(* puts a proposed answer through the grounding gate.                      *)
(*                                                                         *)
(* The model's replies, the tools' results and the moment the client goes  *)
(* away are free choices; everything the loop does with them is the code's.*)
(* Messages are abstracted to the numbers they state.                      *)
(***************************************************************************)
EXTENDS MemoryOps

CONSTANTS Names,        \* tool names a plan may mention
          Tools,        \* the registry: names that can be dispatched
          References,   \* tools whose results license no numbers
          Raising,      \* tools that may raise something other than TypeError
          Numbers,      \* finite figures that tools return and answers state
          MaxSteps, MaxGroundingRetries, MaxRepairs,
          VerbatimTurns, FallbackTurns,
          MaxAsked      \* bound on the questions of one conversation

ASSUME NamesAssumption == /\ References \subseteq Tools
                          /\ Raising \subseteq Tools
                          /\ Tools \subseteq Names
ASSUME LimitsAssumption == /\ MaxSteps \in Nat
                           /\ MaxGroundingRetries \in Nat
                           /\ MaxRepairs \in Nat
                           /\ MaxAsked \in Nat
ASSUME WindowAssumption == VerbatimTurns \in Nat \ {0}
ASSUME FallbackAssumption == FallbackTurns \in Nat \ {0}

VARIABLES
  \* ConversationMemory, which outlives the turn
  turns, summary,
  \* locals of run()
  pc, index, facts, failures, retries,
  \* the structured-output call and the tool call in progress
  attempts, call,
  \* AgentTrace and AgentResult
  trace, grounding, result,
  \* the caller: which question this is, and its is_cancelled flag
  asked, cancel,
  \* history: what the tools returned for each question, and how many model
  \* calls were begun after the client had gone
  queried, lateCalls

memoryVars  == <<turns, summary>>
traceVars   == <<trace, grounding>>
callerVars  == <<asked, cancel>>
historyVars == <<queried, lateCalls>>
vars == <<turns, summary, pc, index, facts, failures, retries, attempts, call,
          trace, grounding, result, asked, cancel, queried, lateCalls>>

Phases == {"idle", "poll", "render", "plan", "tool"}

Verdicts == {"answered", "clarified", "cancelled", "invalid_plan",
             "ungrounded", "escalated", "exhausted", "raised"}

\* StepRecord: the action, the tool it named, and how it went.
Record(action, tool, code) == [action |-> action, tool |-> tool, code |-> code]

NoTool == "none"

NoResult == [verdict |-> "none", stated |-> {}]

Questions == 1..MaxAsked
-----------------------------------------------------------------------------
(* The decisions of the loop. *)

\* Faulty variant: a tool gets a second recovery attempt.
EscalatesLate(failed) == failed >= 3

\* Two consecutive failures of one tool end the turn.
Escalates(failed) == failed >= 2

\* Faulty variant: figures that only a document mentioned count as evidence.
LicensesAnything(r) == r.numbers

\* ToolResult.numeric_facts: a reference or a failure licenses nothing.
NumericFacts(r) == IF r.grounds THEN r.numbers ELSE {}

\* GroundingChecker.check: every claim must be matched by a fact.
Grounded(claims, known) == claims \subseteq known

\* Faulty variant: the evidence of the previous question is kept.
FactsCarriedOver(known) == known

\* run() starts every question from an empty list of facts.
FactsAtStart(known) == {}

\* Faulty variant: another retry is granted than the budget allows.
RetryAlways(left) == TRUE

MayRetry(left) == left > 0

\* Faulty variant: a step that ran a tool is not counted.
StepNotCounted(i) == i

NextIndex(i) == i + 1

\* Faulty variant: a plan is asked for even though the client has gone.
PollIgnored(gone) == TRUE

\* Cancellation is polled at the top of every step.
GoesOn(gone) == ~gone
-----------------------------------------------------------------------------
Failure == [ok |-> FALSE, grounds |-> TRUE, numbers |-> {}]

\* What _dispatch can return for a name.  A name outside the registry is
\* refused without running anything; a registered tool may refuse the call,
\* or be refused for its arguments.
ToolResults(name) ==
    IF name \notin Tools
    THEN {Failure}
    ELSE {Failure} \cup [ok : {TRUE}, grounds : {name \notin References},
                         numbers : SUBSET Numbers]

\* run() returns (or raises): the caller has an outcome and the turn is over.
Finish(verdict, stated) ==
    /\ pc' = "idle"
    /\ result' = [verdict |-> verdict, stated |-> stated]

\* A model call begins now.
BeginModelCall ==
    lateCalls' = IF cancel THEN lateCalls + 1 ELSE lateCalls

Init == /\ turns = <<>>
        /\ summary = {}
        /\ pc = "idle"
        /\ index = 0
        /\ facts = {}
        /\ failures = [n \in Names |-> 0]
        /\ retries = 0
        /\ attempts = 0
        /\ call = NoTool
        /\ trace = <<>>
        /\ grounding = "none"
        /\ result = NoResult
        /\ asked = 0
        /\ cancel = FALSE
        /\ queried = [q \in Questions |-> {}]
        /\ lateCalls = 0

\* The question joins the memory.  Old turns are folded when they no longer
\* fit, which depends on token counts and is left open; the summariser is a
\* model call of its own, and its failure is handled by the fallback.
Remember(history) ==
    \/ /\ turns' = history
       /\ summary' = summary
       /\ lateCalls' = 0
    \/ /\ CanFold(history, VerbatimTurns)
       /\ turns' = Recent(history, VerbatimTurns)
       /\ summary' \in Summaries(summary, Older(history, VerbatimTurns), FallbackTurns)
       /\ lateCalls' = IF cancel' THEN 1 ELSE 0

\* The caller runs the agent on the next question.  The client may already
\* be gone: the flag belongs to the request, which can wait for its turn.
Ask == /\ pc = "idle"
       /\ asked < MaxAsked
       /\ asked' = asked + 1
       /\ cancel' \in BOOLEAN
       /\ Remember(Append(turns, Message("question", asked + 1, {})))
       /\ pc' = "poll"
       /\ index' = 0
       /\ facts' = FactsAtStart(facts)
       /\ failures' = [n \in Names |-> 0]
       /\ retries' = MaxGroundingRetries
       /\ trace' = <<>>
       /\ grounding' = "none"
       /\ result' = NoResult
       /\ UNCHANGED <<attempts, call, queried>>

\* The client disconnects at any moment of the run.
RequestCancel == /\ pc # "idle"
                 /\ ~cancel
                 /\ cancel' = TRUE
                 /\ UNCHANGED <<memoryVars, pc, index, facts, failures, retries,
                                attempts, call, traceVars, result, asked, historyVars>>
-----------------------------------------------------------------------------
(* The top of the loop. *)

\* Faulty variant: the loop goes round again instead of returning.
WaitWhenCancelled ==
    /\ pc = "poll"
    /\ index < MaxSteps
    /\ ~GoesOn(cancel)
    /\ UNCHANGED vars

StopWhenCancelled ==
    /\ pc = "poll"
    /\ index < MaxSteps
    /\ ~GoesOn(cancel)
    /\ Finish("cancelled", {})
    /\ UNCHANGED <<memoryVars, index, facts, failures, retries, attempts, call,
                   traceVars, callerVars, historyVars>>

BeginStep ==
    /\ pc = "poll"
    /\ index < MaxSteps
    /\ GoesOn(cancel)
    /\ pc' = "render"
    /\ UNCHANGED <<memoryVars, index, facts, failures, retries, attempts, call,
                   traceVars, result, callerVars, historyVars>>

ExhaustSteps ==
    /\ pc = "poll"
    /\ index >= MaxSteps
    /\ Finish("exhausted", {})
    /\ UNCHANGED <<memoryVars, index, facts, failures, retries, attempts, call,
                   traceVars, callerVars, historyVars>>

\* memory.render fitted the history, and the first attempt is sent.
Render ==
    /\ pc = "render"
    /\ pc' = "plan"
    /\ attempts' = 0
    /\ BeginModelCall
    /\ UNCHANGED <<memoryVars, index, facts, failures, retries, call,
                   traceVars, result, callerVars, queried>>

\* memory.render raised ContextOverflowError, which run() does not catch.
Overflow ==
    /\ pc = "render"
    /\ Finish("raised", {})
    /\ UNCHANGED <<memoryVars, index, facts, failures, retries, attempts, call,
                   traceVars, callerVars, historyVars>>
-----------------------------------------------------------------------------
(* StructuredGenerator.generate *)

\* The provider call raised; neither generate() nor run() catches it.
ModelRaises ==
    /\ pc = "plan"
    /\ Finish("raised", {})
    /\ UNCHANGED <<memoryVars, index, facts, failures, retries, attempts, call,
                   traceVars, callerVars, historyVars>>

\* The reply does not validate and is sent back with the error.
Repair ==
    /\ pc = "plan"
    /\ attempts < MaxRepairs
    /\ attempts' = attempts + 1
    /\ BeginModelCall
    /\ UNCHANGED <<memoryVars, pc, index, facts, failures, retries, call,
                   traceVars, result, callerVars, queried>>

\* The last attempt does not validate either.
RejectPlan ==
    /\ pc = "plan"
    /\ attempts >= MaxRepairs
    /\ trace' = Append(trace, Record("answer", NoTool, "INVALID_PLAN"))
    /\ Finish("invalid_plan", {})
    /\ UNCHANGED <<memoryVars, index, facts, failures, retries, attempts, call,
                   grounding, callerVars, historyVars>>
-----------------------------------------------------------------------------
(* The three kinds of plan. *)

\* A clarifying question goes to the user as it is: it meets no gate.
Clarify ==
    /\ pc = "plan"
    /\ \E claims \in SUBSET Numbers :
          turns' = Append(turns, Message("clarification", asked, claims))
    /\ trace' = Append(trace, Record("clarify", NoTool, "ok"))
    /\ Finish("clarified", {})
    /\ UNCHANGED <<summary, index, facts, failures, retries, attempts, call,
                   grounding, callerVars, historyVars>>

ShipAnswer(claims) ==
    /\ pc = "plan"
    /\ Grounded(claims, facts)
    /\ grounding' = "ok"
    /\ trace' = Append(trace, Record("answer", NoTool, "ok"))
    /\ turns' = Append(turns, Message("answer", asked, claims))
    /\ Finish("answered", claims)
    /\ UNCHANGED <<summary, index, facts, failures, retries, attempts, call,
                   callerVars, historyVars>>

\* The offending numbers go back to the model while retries are left.
BlockAnswer(claims) ==
    /\ pc = "plan"
    /\ ~Grounded(claims, facts)
    /\ grounding' = "blocked"
    /\ trace' = Append(trace, Record("answer", NoTool, "UNGROUNDED"))
    /\ \/ /\ MayRetry(retries)
          /\ retries' = retries - 1
          /\ index' = NextIndex(index)
          /\ pc' = "poll"
          /\ UNCHANGED result
       \/ /\ ~MayRetry(retries)
          /\ Finish("ungrounded", {})
          /\ UNCHANGED <<index, retries>>
    /\ UNCHANGED <<memoryVars, facts, failures, attempts, call,
                   callerVars, historyVars>>

CallTool(name) ==
    /\ pc = "plan"
    /\ call' = name
    /\ pc' = "tool"
    /\ UNCHANGED <<memoryVars, index, facts, failures, retries, attempts,
                   traceVars, result, callerVars, historyVars>>
-----------------------------------------------------------------------------
(* _dispatch and what follows it. *)

ToolSucceeds ==
    /\ pc = "tool"
    /\ \E r \in ToolResults(call) :
          /\ r.ok
          /\ facts' = facts \cup NumericFacts(r)
          /\ queried' = [queried EXCEPT ![asked] =
                            @ \cup IF call \in References THEN {} ELSE r.numbers]
    /\ trace' = Append(trace, Record("tool", call, "ok"))
    /\ failures' = [failures EXCEPT ![call] = 0]
    /\ index' = NextIndex(index)
    /\ pc' = "poll"
    /\ UNCHANGED <<memoryVars, retries, attempts, call, grounding, result,
                   callerVars, lateCalls>>

ToolFails ==
    /\ pc = "tool"
    /\ \E r \in ToolResults(call) : ~r.ok
    /\ trace' = Append(trace, Record("tool", call, "FAILED"))
    /\ failures' = [failures EXCEPT ![call] = @ + 1]
    /\ \/ /\ Escalates(failures[call] + 1)
          /\ Finish("escalated", {})
          /\ UNCHANGED index
       \/ /\ ~Escalates(failures[call] + 1)
          /\ index' = NextIndex(index)
          /\ pc' = "poll"
          /\ UNCHANGED result
    /\ UNCHANGED <<memoryVars, facts, retries, attempts, call, grounding,
                   callerVars, historyVars>>

\* _dispatch turns a TypeError into BAD_ARGUMENTS and lets the rest through.
ToolRaises ==
    /\ pc = "tool"
    /\ call \in Raising
    /\ Finish("raised", {})
    /\ UNCHANGED <<memoryVars, index, facts, failures, retries, attempts, call,
                   traceVars, callerVars, historyVars>>
-----------------------------------------------------------------------------
Decide == \/ Clarify
          \/ \E claims \in SUBSET Numbers : ShipAnswer(claims) \/ BlockAnswer(claims)
          \/ \E name \in Names : CallTool(name)

\* Everything the running turn does by itself.
Work == \/ StopWhenCancelled \/ BeginStep \/ ExhaustSteps \/ Render \/ Overflow
        \/ ModelRaises \/ Repair \/ RejectPlan \/ Decide
        \/ ToolSucceeds \/ ToolFails \/ ToolRaises

Next == Ask \/ RequestCancel \/ Work

\* The worker thread runs until run() returns: model and tool calls come back
\* or raise.  Nothing obliges the user to ask or to leave.
Spec == Init /\ [][Next]_vars /\ WF_vars(Work)
-----------------------------------------------------------------------------
(* Properties. *)

MessageType == [kind : {"question", "clarification", "answer"},
                asked : Questions, claims : SUBSET Numbers]

RecordType == [action : {"tool", "clarify", "answer"}, tool : Names \cup {NoTool},
               code : {"ok", "INVALID_PLAN", "UNGROUNDED", "FAILED"}]

\* Every variable has the type the code gives it; the counters stay within
\* the limits run() works with.
TypeOK ==
    /\ turns \in Seq(MessageType)
    /\ summary \in SUBSET Questions
    /\ pc \in Phases
    /\ index \in 0..MaxSteps
    /\ facts \in SUBSET Numbers
    /\ failures \in [Names -> Nat]
    /\ retries \in 0..MaxGroundingRetries
    /\ attempts \in 0..MaxRepairs
    /\ call \in Names \cup {NoTool}
    /\ trace \in Seq(RecordType)
    /\ grounding \in {"none", "ok", "blocked"}
    /\ result \in [verdict : Verdicts \cup {"none"}, stated : SUBSET Numbers]
    /\ asked \in 0..MaxAsked
    /\ cancel \in BOOLEAN
    /\ queried \in [Questions -> SUBSET Numbers]
    /\ lateCalls \in Nat

\* The promise of the product: an answer that reached the conversation states
\* only figures that queries run for that very question returned.  Figures of
\* an earlier question, of a document or of a failed call do not count.
AnswersRestOnQueries ==
    \A i \in DOMAIN turns :
        turns[i].kind = "answer" => turns[i].claims \subseteq queried[turns[i].asked]

FailedCall(i) == trace[i].code = "FAILED"
Recovered(n, i, j) ==
    \E k \in i..j : trace[k].tool = n /\ trace[k].code = "ok"

\* "Two consecutive failures of the same tool escalate": when a tool fails
\* again with no success of it in between, whatever else ran meanwhile, the
\* turn is over, nothing follows, and the user is told.
TwoFailuresEndTheTurn ==
    \A i, j \in DOMAIN trace :
        (/\ i < j /\ FailedCall(i) /\ FailedCall(j) /\ trace[i].tool = trace[j].tool
         /\ ~Recovered(trace[i].tool, i, j))
        => j = Len(trace) /\ result.verdict = "escalated"

Blocked == {i \in DOMAIN trace : trace[i].code = "UNGROUNDED"}

\* "Twice ungrounded": the gate sends an answer back at most
\* MaxGroundingRetries times, and one blocked answer more ends the turn, so
\* the model cannot wear the gate down.
BlockedAnswersAreBounded ==
    /\ Cardinality(Blocked) <= MaxGroundingRetries + 1
    /\ Cardinality(Blocked) = MaxGroundingRetries + 1 => result.verdict = "ungrounded"

Closing(r) == r.code = "INVALID_PLAN" \/ (r.action # "tool" /\ r.code = "ok")

\* The trace, which the evaluation scores, agrees with the outcome: one record
\* per completed step, at most one record that settles the question, which is
\* the last one and is there exactly when the outcome is the one it tells.
TraceTellsTheOutcome ==
    /\ Len(trace) <= MaxSteps
    /\ pc # "idle" => Len(trace) = index
    /\ \A i \in DOMAIN trace : Closing(trace[i]) => i = Len(trace) /\ pc = "idle"
    /\ pc = "idle" /\ asked > 0 =>
         LET closed == trace # <<>> /\ Closing(trace[Len(trace)])
             last   == trace[Len(trace)]
         IN  /\ result.verdict = "answered"
                    <=> closed /\ last.action = "answer" /\ last.code = "ok"
             /\ result.verdict = "clarified" <=> closed /\ last.action = "clarify"
             /\ result.verdict = "invalid_plan" <=> closed /\ last.code = "INVALID_PLAN"

\* The question being answered is the newest message of the memory through
\* every step, so render() protects it and folding never takes it.
QuestionInView ==
    pc # "idle" => /\ turns # <<>>
                   /\ turns[Len(turns)].kind = "question"
                   /\ turns[Len(turns)].asked = asked

\* After the client has gone, at most one step's worth of model calls is
\* still begun: the calls of one structured-output exchange.
LateCallsAreBounded == lateCalls <= MaxRepairs + 1

\* Every question is settled: no order of repairs, blocked answers, failing
\* and succeeding tools keeps the turn going.
TurnEnds == pc # "idle" ~> pc = "idle"

Turn == INSTANCE AgentTurn WITH open     <- pc # "idle",
                                evidence <- facts,
                                verdict  <- result.verdict,
                                stated   <- result.stated

\* The loop does what AgentTurn promises.
ImplementsAgentTurn == Turn!Spec
==============================================================================
