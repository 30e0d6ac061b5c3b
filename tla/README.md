# A verification project for campaign-copilot

campaign-copilot answers questions about marketing data. A service (`service/app.py`)
runs an agent (`agent/loop.py`) per request; the agent asks a language model for one
step at a time, runs tools, and lets an answer through only if every figure it states
came out of a query. This directory holds TLA+ modules that model that code, TLC
configurations that check them on small instances, and theorems that TLAPS proves for
every value of the constants.

Paths below are relative to the repository; `agent/loop.py` and the like are under
`src/campaign_copilot/`.

## 1. Inventory

| Part | State it keeps | Operations | Who it talks to |
|---|---|---|---|
| Agent loop, `agent/loop.py` | locals of one run: step index, facts, failure counters, retries, scratch, trace | `run`, `_dispatch`, `_summarize` | memory, structured output, tools, grounding; polls the request's cancel flag |
| Structured output, `llm/structured.py` | attempt number | `generate`: call, validate, repair | LLM client |
| Conversation memory, `memory.py` | turns, rolling summary, pins | `add`, `pin`, `unpin`, `compress`, `render` | context budget, summariser (a model call) |
| Context budget, `llm/tokens.py` | none | `fit`, `available_for_history` | |
| Grounding, `grounding.py` | none | `extract`, `check`, `report` | |
| Tools, `tools/*.py` | registry (shared), `remember` (per request) | `run` of each tool | DuckDB, index, memory, sandbox |
| Sandbox, `tools/python_exec.py`, `_runner.py` | one pickled namespace per session on disk | `run`, `reset` | a child process |
| Executor, `service/executor.py`, `tools/remote_exec.py`, `service/request_auth.py` | nonces seen | `/exec`, `/reset`, `verify` | sandbox, over HTTP |
| Session store, `service/app.py` | LRU map of memories, map of turn locks | `get`, `turn_lock` | chat endpoint |
| Chat endpoint, `service/app.py` | semaphore, counters, one queue and one flag per request | admission, worker thread, event generator | client, agent, store, thread pool |
| SQL guard, `guardrails/sql_guard.py` | none | `check` | `run_sql` |
| Semantic layer, `semantic/layer.py` | the registry of `metrics.yml` | `build_query`, `aggregate_atoms`, `ambiguity_notes`, `validate_against` | `query_metrics`, the guard, the report builder |
| SQL tools, `tools/sql.py` | none | `query_metrics`, `run_sql` | semantic layer, guard, DuckDB |
| Retrieval index, corpus | an index built once | `search` | `search_docs` |
| Figures and reports, `reporting/*.py` | a set of figures per report | `build_weekly_review`, `verify`, two renderers | semantic layer, DuckDB, files |
| Evaluation, `evals/*.py` | the baseline file | the scripted policies, three suites, `check_regression`, `main` | agent, tools and guard under ablations |
| Web client, `web/src` | an event buffer | `parseEvents`, `stream` | chat endpoint |

Where it is hard: requests run on threads and share the store, the semaphore and the
counters; a session can be evicted while its turns run; a client can leave at any moment,
before the generator starts, while it streams, while it waits for the worker; the summariser
is a call of seconds in the middle of an update of the memory; calls to the executor are
lost, delayed and repeated while it restarts; the warehouse is rebuilt while a report reads
it; the regression gate judges a change by a baseline that the change may rewrite; the
loop's five counters (steps, retries, repairs, failures per tool, attempts) count different
things and every way out must leave memory, trace and counters in step. `PROJECT.json` lists
these hazards at their lines, with the properties that cover them.

What makes each part correct:

* *Agent loop*: an answer rests on this question's queries; two failures of a tool end
  the turn; the gate cannot be worn down; the trace tells the outcome; the turn ends.
* *Session store*: memories never cross sessions; a conversation continues; turns of a
  session exclude each other; the least recently used session goes.
* *Context window*: what is sent fits; the question, the summary and every standing pin
  are in it; nothing is left out that fits beside newer messages.
* *Sandbox*: the variables of a session whose calls come one after the other carry over
  exactly, whatever fails and whoever else runs; nothing but a write that fails leaves a
  file unreadable; sessions do not see each other's variables. Calls of one session that
  overlap lose variables, and on the executor the sessions share one namespace: both are
  findings.
* *Executor*: a call is let through once unless its nonce was forgotten; a late call is at
  most the age limit behind.
* *Evaluation*: a control leaves the source only after the rows that show it have left the
  grid; the gate does not stop a repair as long as the rows it compares are there.
* *Reports*: what is written is of one warehouse, the channel table included, which adds up
  unless its query's limit cut it; verification refuses nothing correct.
* *Chat endpoint*: permits are conserved; every stream closes; every run is counted once;
  a client that stays learns the outcome; no worker runs unknowingly for a closed stream.

## 2. Plan

Done:

1. `MemoryOps`, `AgentTurn`, `AgentLoop`, `AgentLoopProofs`: the loop, the abstract turn
   it implements, and the proofs.
2. `Conversations`, `SessionTurns`, `SessionTurnsProofs`: what the store promises a session,
   the store and the turns of concurrent requests, and the proof that these implement it.
3. `Streams`, `ChatService`, `ChatServiceProofs`: what the endpoint promises its clients;
   admission, worker and stream, which implement it.
4. `Sandbox`, `SandboxProofs`: namespaces, concurrent cells, time-outs, the remote client
   and the executor; whose namespace a cell runs in.
5. `ContextWindow`, `ContextWindowProofs`: `fit`, pins, `render`, folding by weight, and
   `remember`.
6. `RemoteExec`, `RemoteExecProofs`: signed calls over a network, clocks, nonces, restarts.
7. `SemanticLayer`, `SqlGuard`, `SqlTools`, `EvalHarness`, `EvalGate`, `EvalGateProofs`: from
   the registry to the regression gate, the whole of what `python -m campaign_copilot.evals`
   computes.
8. `WeeklyReport`, `WeeklyReportProofs`: the report builder, its verification and its
   renderers.

What would be worth adding: the composition of `SessionTurns` with `Sandbox`, so that the
sessions whose calls overlap are exactly those evicted while a turn of theirs was due; and
the chat service's middleware (authentication and the limit on the body).

## 3. Modules

`MemoryOps` has the operators on a conversation's turns: `CanFold`, `Older`, `Recent`
(`ConversationMemory.compress`), and `Summaries`, everything `Agent._summarize` may
return. Messages are records of what kind they are, which question they belong to and
which figures they state; a summary is the set of questions whose constraints it carries.

`AgentLoop` models `Agent.run`. `pc` is the place in the code: `idle` (no run), `poll`
(the top of the loop), `render` (before `generate`), `plan` (a reply of the model is
due), `tool` (a tool runs). `Ask` is the part before the loop, folding included; each
further action is one way through the loop's body, with everything the code does on it.
What the model answers, what a tool returns, whether the history had to be folded and
when the client leaves are free. Figures are model values; `facts` is the list of
numbers the gate checks against. `queried` and `lateCalls` are history variables: what
the querying tools returned for each question, and the model calls begun after the
client had left. `queried` is kept from the tools' results and not from
`NumericFacts`, so that `AnswersRestOnQueries` says something about the latter.

`AgentTurn` is what a conversation promises: questions settled one at a time, evidence
from none for each question, an answer inside the evidence, and settled in the end.
`AgentLoop!Turn` maps `facts` to the evidence and `pc # "idle"` to an open question.

`SessionTurns` models `SessionStore` and the requests that use it. `Get` and `TurnLock`
are single steps because the code runs them under the store's lock; the time between
them (making the client, the agent, waiting) is where evictions of other requests fall.
A memory object is named by the request whose `get` created it and a lock by the call
that created it, so that an evicted session's objects live on in the hands that hold
them. A turn is cut where other threads can come in between: after the question was
added, around the summariser's call, before the reply.

`Conversations` is what is promised: a session is one conversation, in which a request asks,
may fold old messages away but never its question, answers right behind it, and only then
lets the next one ask, until the store forgets the session. `SessionTurns!TurnOf` maps the
holder of the lock the table has for a session to the request whose turn it is, and `TalkOf`
the log of its memory to what was said; a session that was evicted is one that was forgotten,
and nothing is promised about it any more. Everything else, the handles, the queue for the
lock, the window a fold has in its hands and the order of the store, is inside.

`ChatService` models the endpoint. `stage` is the endpoint's and the generator's side,
`worker` the thread's. `StreamEnds`, `HangUp`, `Drained` and `CancelledAgain` are the paths
through the generator's `except` and its two `finally` blocks. Three steps are the server's
and not this code's: `NeverStarted` (a generator that is dropped before its first item runs
no `finally`), `CancelledAgain` (the server's cancel scope cancels again as long as the task
is in it), and a worker that is taken out of the pool's queue because its task was cancelled
before a thread took it. `Conclude` counts the outcome and emits the last event in one step,
and `StartWork` joins the set-up of the worker with the start of its wait (`SetupFails` is a
set-up that raised): neither is seen by anyone in between. `agent.run` is any result at any
time, except that it calls itself cancelled only if the flag was set (`AgentLoop` shows when
that is).

`Streams` is the endpoint seen from outside: a request is refused only while `MaxConcurrent`
others are served, its run ends once, the client hears progress and then the outcome, and the
stream closes after that or after the client has left. `ChatService!StateOf` maps the seven
stages and `gone` to its five states: a request keeps its place as long as it holds its permit,
so one whose generator never started has left and never closes. The threads, the turns, what
is still in the queue and the sentinel are inside.

`Sandbox` models a cell of Python from its caller's side (`caller`, `reply`) and from the
sandbox's (`phase`, `seen`, `left`, `outcome`). A namespace says of each name which cell
bound it. Nothing locks a namespace: `_load_namespace` looks whether there is a file and
then reads it (`Look`, `Load`), and saving is two steps, `Open` and `Save`, because the file
is truncated before it is written; the check of its size comes before both and unlinks the
file (`Overgrow`). Calls of a session come in any order and at once, because two turns of a
session that was evicted do (`TurnsDoNotInterleave`). A file that is unlinked while a cell
writes it takes that write with it (`Orphaned`), and a write may fail and leave the file
truncated (`SaveFails`: the scratch disk is bounded). `Raises` is every other exception.
`remote` is the deployment: in process the caller waits for its cell, on the executor it
can time out (`GiveUp`) or lose the connection (`Unreachable`) while the cell goes on.
`Scope` is where the two differ in whose file is used. `expected` is a history variable:
what the results of a session's calls tell its agent about its variables. `overlapped` is
another: the sessions that ever had two calls outstanding. `VariablesCarryOver` speaks of the
rest, which is what the turn locks give a session that is not evicted, and promises every
session of the service that what a cell loads was bound by that session.

`ContextWindow` models what a step sends. Texts are sizes, and a message is its place in
the history, which is the identity that `fit` goes by. `Ask` adds the question and folds,
`Render` is `render` with the whole walk of `fit`, `Overflow` its exception. `Remember` and
`Forget` are the tool; `Continue`, `Reply` and `End` are the rest of a step as the memory
sees it (`AgentLoop` has the details). `standing` is the set of facts the tool has
confirmed and not retracted, kept apart from `pinned` so that `PinsReachTheModel` relates
a promise made in one turn to the prompt of another. `needs_compression` measures the
turns without the system prompt, the pins and the summary, so a history may overflow
that folding would have saved; the model has that, as the code does.

`RemoteExec` models a signed call from its client to the handler. `now` is the API's clock
in half seconds, because `int(time.time())` drops the fraction; the executor's clock is
`skew` ticks ahead. A request stands for its nonce. The network is in the guards: a request
that was sent can be accepted or refused at any later time and any number of times, which is
delay and repetition, and never, which is loss. `told` is what the caller learns, once.
`Accept` is `verify` and the entry into the handler, with the append to the queue and the
pop of the oldest nonce; `Restart` is an instance that is stopped (nonces and running cells
gone) and started with another clock. `log` is a history variable of what was let through.
`Sandbox` says what the cells do to a namespace; here it matters when they start.

`SemanticLayer`, `SqlGuard` and `SqlTools` are algorithms, without state. A statement is a
record of what the guard and the warehouse tell apart: how many statements the text holds,
its kind, tables, functions, aggregates, whether it projects a star or a literal, and what
its result set holds. A cell of a result is what it says (which expression, under which
filters, of which group), so two queries have equal results when they ask the same thing.
`Verdict` tries the rules in the order of `check` and yields the code of the first.

`EvalHarness` builds on them what the harness computes for one row of its grid: the calls
of a scripted policy on a case, the tools under an ablation, the agent's gate, the number
the policy reads off the result, and the scores. `source` is the set of controls the code
still has (the ablations only switch controls off for a run), so a deleted control is a
value. Cases that are treated alike are one record with a count.

`EvalGate` is the life of a change: a pull request deletes or restores controls, takes any
row out of `GRID` or puts it back, rewrites the baseline, and is merged if the gate passes.
The gate compares the rows that are there: a missing row is compared with nothing, a
differential with a missing row is passed over, and only the oracle's row cannot leave,
because `main` takes it out of the report before anything else (`GateFails`,
`WriteBaseline`). A baseline is the report of some source, so it is kept as that source and
the rows of its grid. `MCEvals` gives the registry, the three datasets and the grid, and two
assumptions calibrate the model by facts of the repository: `CommittedBaseline`, that the
computed grid of the unchanged source is `evals/history/baseline.json` figure by figure, and
`DeletedGate`, that without the grounding gate the four rows are at 21, as `docs/AUDIT.md`
reports of that experiment. Two of the gate's properties depend on the datasets; what they
need of them is stated in `EvalGate` as `EveryControlShows`, `EveryControlBites` and
`ControlsDoNoHarm`, which the theorems take as hypotheses and which TLC evaluates for the
repository's (`RepositorySuites` in `MCEvals`).

`WeeklyReport` is the run of `python -m campaign_copilot.reporting`: one step per query,
with `Refresh` (`scripts/build_warehouse.sh`) between any two. Values are exact fractions
with `None` for SQL's NULL, so that a ratio over zero and a change from zero are what they
are. `history` keeps the warehouses there were. `ReadChannels` registers the derived
figures, reads the table and picks the best channel, as one query does; `Verify` runs one
figure's query or formula again. The channel query names no limit and gets the default
(`MaxRows`, 100 in the code), ordered by spend: the table has some set of `TopSpenders`, any
one of them where the spend is equal at the cut.

Definitions whose comment says "Faulty variant" are not used by the specification. Each
is a plausible mistake in the definition below it, and `PROJECT.json` says which property
finds it.

## 4. Runs

| Run | Instance | Checks |
|---|---|---|
| `agent_loop` | 2 questions, 3 steps, 1 grounding retry, 1 repair, a window of 2 turns, a querying tool, a document tool that may raise, a name outside the registry, 2 figures | the loop's invariants, that it ends, that it implements `AgentTurn` |
| `session_turns` | 4 requests on 3 sessions, two of them tabs on one, room for 2 sessions, a window of 1 turn | isolation, continuity, exclusion, LRU, no endless wait, that it implements `Conversations` |
| `session_interleave` | the same | violated: `TurnsDoNotInterleave` |
| `chat_service` | 3 requests on 2 sessions, 2 permits, 2 threads, 1 progress event | conservation, counting, what the client is told, that it implements `Streams` |
| `chat_liveness` | the same without progress events | streams close, workers end |
| `sandbox` | 2 cells of one session and 1 of another on 2 variables, in process or remote, resets of both sessions | variables carry over, only writes tear a file |
| `sandbox_shared` | the same | violated: `OneNamespacePerSession` |
| `context_window` | 4 questions; texts of 1 or 3, pins of 1 or 2, summaries of 0 or 2 in a room of 10; 3 keys for 2 pins; a window of 2 turns | what is sent fits and holds what it must |
| `evals` | the registry's metrics the cases use, all cases of the three datasets; pull requests of 2 edits, of 3 of the 6 controls and of all 7 rows, four of which come and go together | what must have left the grid before a control can, differentials bite while their rows are there, and then a repair passes |
| `weekly_report` | 5 warehouses of 1 to 3 channels, tables of 2 rows, 2 rebuilds | figures of one warehouse, the table adds up, what verification refuses |
| `remote_exec` | 2 cells and a reset, an age limit of 1 s, 2 nonces, a clock 1/2 s off, 5 ticks, 4 entries let through | who is let through twice, how late a call can be |
| `chat_drain` | the same as `chat_liveness` | violated: `WorkersAreDrained` |

Why these bounds are enough to be interesting: two questions are the least with which
evidence can be carried over and folding happens; three steps allow fail, succeed, fail and
blocked, tool, blocked; one retry and one repair reach both sides of each limit. Two tabs
and two other sessions on a store for two give evictions of a session in use, its
re-creation, and an eviction between any two steps of a worker. Three requests on two
permits reach refusal; two threads with two tabs let a waiting worker occupy the thread that
another needs. Two cells of one session are the least that can overlap, one of them late,
failing, reset or over the cap while the other reads or writes; with two variables one cell
can lose what the other bound and keep what it bound itself; the cell of the other session
runs between any two of their steps. Two sizes in a room of ten reach every case of `fit`:
all fits, an old message is passed over for an older one that fits, the floor alone
overflows; three keys meet the limit of two pins from both sides.

In `evals` a pull request of two edits is the least in which one change can cover another,
and any number of pull requests follow each other. Every control and every row may be edited
in the code; `Touched` and `TouchedRows` say which are in the run, for its time only: both
controls with a differential and one without; and all rows, the oracle's, the naive one and
the one without the grounding gate alone, the other four at once. The absence of any control
but the grounding gate shows in the oracle's row too, which cannot leave, so that gate is
the one control that can ever go under the original baseline, and the run reaches that:
after the six rows of the naive policy have gone, in two pull requests at least. Result sets
are scaled down (two rows rendered, a default limit of five, a largest of six) so that both
a truncated and a limited result occur. In `weekly_report` a rebuild falls between any two
steps, and a second one can bring the first warehouse back; of three channels and two rows
the table is cut, between two of equal spend. `FiguresOfOneWarehouse` and `TableAddsUp`
speak of one rebuild because two break them: when warehouses agree on some figures, one
rebuild behind the first queries and one behind the first verifications leave a report every
figure of which was verified, on different warehouses. The five warehouses of the run do not
show that for the figures; three that share the right totals do. Among the warehouses are a
week after none, a week without spend and a channel without spend. In `remote_exec` four
entries with two nonces reach a forgotten nonce by count and by restart; five ticks are more
than the age limit, its fraction and the skew, and `LateCallsOvertakeNothingOld` fails if
its bound is one tick less. The two cells are interchangeable, the reset is not.

The code's own limits (8 steps, 2 retries, 1000 sessions, 8 requests)
are larger; the proofs do not depend on them. `MaxAsked`, `MaxProgress` and `MaxEdits` bound the
model and have no counterpart in the code.

`CHECK_DEADLOCK FALSE` is there where the modelled system stops: the conversation has
been asked its last question, every request or cell is through, the report is written.
`evals` and `remote_exec` never stop and are checked for deadlock.

What the violated runs show is in `PROJECT.json` under findings. In short: an eviction between
`get` and `turn_lock` gives two workers of a session one memory and two locks; a second
cancellation while the generator drains gives the permit back under a running worker; and
on the executor the session of a request is dropped on the way, so that all sessions share
one namespace.

The other findings have no run of their own; each names the definition that has it.
`_dispatch` catches only `TypeError`, so some tool failures are exceptions (`ToolRaises`). A
cell whose outcome exceeds the limit on file sizes makes `run` raise where the code promises
a result (`Raises`). A namespace whose write fails on a full disk stays truncated, and every
later cell of its session raises (`SaveFails`, `LoadRaises`). Two cells of a session that
run at once each save all they loaded, so that a variable is gone although both succeeded
(`Load`, `Open`, `Save`). `fit` does not drop the oldest history first, as its comment has
it, but keeps older messages that fit behind one that does not. The evaluation report says
the oracle answers all 25 questions where it ships 19, and names violation codes the guard
does not raise for those attacks; `check_regression` says it covers every row and passes
over rows that are gone, so that a pull request which takes the naive row out of the grid
disables a control with a differential, rewrites the baseline and passes, and can leave a
baseline that refuses the repair (`GateFails`, `NotBiting`); the audit of an answer knows
fewer facts than the gate. A change from a zero week is 0 to the builder and infinite to
`verify`, so such a week gets no report; the channel table of a report has no provenance
although the report says every number has one, and is cut at 100 channels without a word
(`TopSpenders`). The executor's age limit is up to a second longer than documented, and a
restart forgets every nonce.

Two things the models show that no property states. A lock that `turn_lock` makes for a
session that was evicted meanwhile is never popped again unless the session returns and
is evicted once more, so the table of locks can outgrow the store. And an answer blocked
for good counts as `errors` as well as `ungrounded_blocked` (`app.py:550-554`), although
the runbook calls it a safety action and not an error.

## 5. Fairness

`AgentLoop`: weak fairness of `Work`, the turn's own steps. The worker thread runs until
`run` returns, and every model or tool call comes back or raises (the clients have
timeouts). Nothing obliges the user to ask, or the client to leave.

`SessionTurns`: weak fairness of each worker's steps. `threading.Lock` promises no order,
but a request takes its lock once, so the number of requests that can overtake it is
finite and weak fairness is enough in the model.

`ChatService`: weak fairness of the generator's steps and of each worker's steps, the
latter only as long as a thread is free. Hanging up, a second cancellation and new
requests are not fair.

`Sandbox`, `ContextWindow`, `RemoteExec`, `EvalGate` and `WeeklyReport` assume no fairness:
their properties are safety.

## 6. Proofs

All proofs are checked by TLAPS with Z3, Zenon and LS4, from the assumptions the modules
name: limits are natural numbers, windows are positive, the registry is among the names, and
a suite's sets of cases are finite and their counts numbers (`SuitesAssumption`).

`AgentLoopProofs`:

* `TypeCorrect`. `TypeOK` is inductive with `Control`, which says that an index is advanced
  only below `MaxSteps` and that a tool call belongs to a question, once `Recent` and
  `Summaries` are known to return what they should; those are lemmas.
* `AnswersAreGrounded`. The invariant alone is not inductive: nothing in it ties `facts`
  to `queried`. The strengthening `FactsAreQueried` adds that `facts` lies inside
  `queried[asked]` while a question is open. A new question starts with no facts, and a tool
  adds to both or to the larger one only.
* `EscalationCorrect`. The strengthening `CountersTellTheTrace` says what the counters mean
  while the turn is open: `failures[n]` is below the limit, and 0 only when every failure of
  `n` in the trace was followed by a success of it. An open turn has no unrecovered pair of
  failures, so the pair that a failing step makes is the last one and escalates.
* `LateCalls`. The strengthening bounds the late calls by phase and by the attempts made.
* `LoopIsATurn`. Initial states map to initial states and each action to a step of
  `AgentTurn` or a stutter: the safety half of `ImplementsAgentTurn`.

The rest of the module splits the steps of a turn by what they do to the trace: the ones
that continue, the ones that give up without a record, and the ones that add a record and
then stay in the turn or end it.

* `GateHolds`. While the turn runs, blocked answers and retries left add up to
  `MaxGroundingRetries` (`BlocksCounted`); the lemma `BlockedGrows` counts the blocked records
  by cardinality, the new one being outside the old set.
* `TraceCorrect`. `TraceTellsTheOutcome` is inductive with the types: an open turn has no
  closing record, so the record of the step that ends it is the only one there can be.
* `QuestionStaysInView`. `Ask` puts the question last, the window a fold keeps ends where the
  turns end, and only a step that ends the turn writes behind it.

`SessionTurnsProofs`: `StoreInv` says that what a worker holds agrees with the store:
handles are typed, a memory's owner has the session of everyone who holds it, a request
of a session never evicted holds the memory and the lock the store has now, and a worker
in its turn is the holder of its lock. `SessionsStayApart`, `ConversationsContinue` and
`TurnsExclude` follow from it. `QuestionInv` adds, for `QuestionsStay`, that the memory
of a running turn ends with its question and that the window `compress` took still ends
with it; that needs the exclusion of turns, because another turn would be what breaks it.
`RepliesPaired` follows from it, because a reply is appended to turns that end with its
question; its strengthening says the same of the window that a fold in progress will put back.

`StoreIsConversations` is the refinement: initial states map to initial states, each step of
a request to a step of `Conversations` or a stutter, and an eviction inside `Get` to `Forget`.
`ConversationInv` is what the mapping needs beyond the above: a lock in the table belongs to
the session it is filed under and was made by a request of it (`LocksHaveOwners`), so that a
step under one lock leaves the turns of other sessions alone; a memory nobody has asked on is
empty (`NewMemoriesAreEmpty`), so that a session's first `Get` says nothing; the holder of a
lock is in its turn with that lock (`HoldersAreInTurn`), so that a fresh lock is nobody's; a
kept session has both a memory and a lock (`LocksComeWithMemories`);
and the window a running fold will put back is still the end of the memory
(`WindowsAreCurrent`), so that `compress`, which assigns what it took before the summariser's
call, is one fold and loses nothing. `RepliesPaired` and `TurnsExclude` say parts of the same
in the store's own terms; replies behind their questions have no run of their own, because the
run that checks `ImplementsConversations` checks them with it.

`ChatServiceProofs`: `PermitsConserved` counts the requests that hold a permit; each action
moves at most one in or out of that set, and the lemmas on cardinality say what that does
to the count. `OrphansTold` needs only the types. `OutcomeTold` is not inductive as it
stands, because what the client will receive is still in the queue: the strengthening
follows the last event from the worker through the queue into what was sent. Nothing but
the sentinel follows it, it comes before the sentinel, it agrees with the verdict, and a
stream that drains without a hang-up has delivered it. `CountersCorrect` counts the admitted
requests without an outcome (`Pending`) and the refused ones as finite sets; each step moves
at most one request in or out of one of them, and the counters it increments match. It needs
that a worker exists only where a stream was started. `TypeCorrect` collects the parts.

`EndpointIsStreams` is the refinement. Admission needs that the requests that occupy a place
are exactly the holders of permits (`OccupiedAreHolders`) and the conservation of permits: a
permit is free exactly when fewer than `MaxConcurrent` are served. `Deliver` is a step of
`Tell` because nothing but the sentinel is behind the last event and that event agrees with
the verdict, and `Drained` a step of `Close` because a stream that drains under a client that
stayed has delivered it: both are parts of the strengthening for `OutcomeTold`. `WaysInv` adds
that a client is gone only from a stream that ends or never began, and that a verdict is there
exactly when the worker is past its run, so that a run ends once. That the flag of a closing
stream is set (`OrphansTold`) is inside and is proved, not checked by a run.

`SandboxProofs`: `CarriesOver` speaks of sessions whose calls never overlapped, and is proved
with every other session free to do what it likes. Such a session has one cell under way at a
time in process (`OneCallEach`); its file holds what is expected while no cell of it is under
way (`FileWhenIdle`), and while one is, what was there or what that cell leaves
(`FileDuringCall`, `FileAsTheCellLeft`), where a write that failed may have torn it: the next
cell then raises before it sees anything. What the agent is told a cell has changed is what the
cell leaves (`ChangedIsLeft`). `TornByWrites` follows the cell to blame for a torn file: it is
writing, or its write failed, and a phase that unlinking changes is one whose file is gone. It
needs the types only, so no assumption on how many cells run at once. The part of `CarriesOver`
that holds for overlapping calls too is `OwnVariables`: in process a session's file, and what
its cells loaded and leave, name cells of that session only, because a cell adds nothing but
its own name and writes where it read. Both theorems rest on `CellsAssumption` and
`MarksAssumption`.

`RemoteExecProofs`: `TypesHold` is the inductive invariant. Its part `Remembered` says what
the verifier knows: its queue is the end of the log, as long as it can be or back to the
last restart, without repetition, and the set is what the queue holds. `OnceUnlessForgotten`
follows from a step argument: an entry that is added is not in the queue, so an equal one
further back lies before a restart or is at least `MaxNonces` entries away.
`LateCallsBounded` rests on what freshness says in ticks (`FreshIsRecent`) and on signatures
that do not change once a request is logged. Both are proved from `RemoteAssumption`, for
every age limit, number of nonces and skew.

`ContextWindowProofs`: `PinsStand` says that what was confirmed and not retracted is pinned,
and that a step's view has the pins of now; `PinsReach` is immediate. `PinsWithinLimit` counts
the pins.

The other theorems are about what `fit` keeps, which a walk over the history computes, so they
need induction over its length. The library's induction theorems cannot be instantiated;
`InductionUpTo` does their work for a set of numbers instead of a predicate: a set that holds 0
and, with a number below `n`, the next one, holds all up to `n`, because the least number
outside it (`LeastNumber`, from the well-founded order of the naturals) would contradict that.
`IterationExists` shows in the same way that the recursive function of a walk is one, and so
that `NewestFirst` and `TotalSize` are what they are defined to be.

* `WindowInv` ties the view of a planned step to the memory: it is `NewestFirst` of the history
  and the room of now, and the protected messages do not overflow it. The steps that change the
  memory leave the phase in which the view counts.
* `ViewsFit`: the walk starts with protected messages that fit and each step keeps only what
  still fits (`WalkFits`).
* `QuestionsAndSummariesInView`: the walk starts with what is protected and only adds to it
  (`WalkGrows`, `WalkKeeps`), and the newest turn of a step is the user's.
* `NewestKept`: a message that is passed over is never taken up later, and what the walk had
  kept when it came to it are the protected messages and the kept newer ones
  (`WalkPassesOver`).

`SessionTurnsProofs`, the order of eviction: `OrderInv` says that the store's order is the order
of the last uses (`InUseOrder`). `MovedToEndIs` and `TrimmedIs` say what moving a session to
the end and dropping the first one do to a sequence without repetition; `LastUseAfter` what a
further use does to the last uses. `LeastRecentlyUsed`, an action property, follows: the session
that goes is the first of the order. `TypesCorrect` needs `OrderInv` for `order`, `QuestionInv`
for the windows of running folds and `StoreInv` for the handles.

`WeeklyReportProofs`: the theorems are about every set of warehouses, every number of
rebuilds and every place one can fall. `ReportInv` has four parts. `Shape` says which
figures there are in which phase and how each came about. `Quiet` says that without a
rebuild every queried figure is what its query says, the table is of that warehouse, and
only a change from zero can have failed. `OneRebuild` is the heart: once the table is there,
a report that saw one rebuild is either wholly of the warehouse before it, table and all, or
its table is of the later one and so is every figure verified so far. The first case is a
rebuild behind the reading of the table, whatever the verification then compares with; the
second one in front of it, when mixed figures can only get through if they agree with the
later warehouse too. `FormulasHold` keeps the formulas that were verified. The lemma
`ChangesDisagree` says that the builder's change and its recomputation differ exactly for
something after nothing; `UncutTable` that a table of a warehouse with no more channels than
the limit has them all, which is where `TablesAddUp` gets its sums from. `PriorAssumption`
and `WeekAssumption` are what these proofs assume of a warehouse: a prior week's sum is NULL
or a number, and the channels of a week are finitely many.

`EvalGateProofs` is about any datasets, registry, grid, tolerances and number of pull requests.
The figures of a row are sums over finite sets of cases; that such a sum is a number needs an
induction on the size of the set (`SumExists`, by `InductionUpTo` as in `ContextWindowProofs`),
and from it `FiguresAreNumbers`.

* `ControlsBite`, without any hypothesis about the data. An ablation switches a control off for
  a run; of a source that no longer has the control it changes nothing, so every case, every
  figure and the whole row are those of the naive row (`SameAgent` to `SameRow`,
  `MissingControl`). A differential asks for strictly more than the naive row, and a
  number is not more than itself: while both rows are in the grid the gate fails, whatever
  other rows are missing and whatever the baseline is.
* `NoControlGoes`, for datasets in which every missing control shows in some row of the whole
  grid (`EveryControlShows`). A row that shows it is a regression against a baseline measured
  with all controls, so a source that passes has no such row left in its grid
  (`PassingShowsNothing`), and has lost one.
* `RepairsPass`, for datasets in which the differentials bite for the full source and another
  control makes no figure worse (`EveryControlBites`, `ControlsDoNoHarm`). The property alone is
  not inductive, because it does not say that main's baseline has every row of main, and a row
  without a baseline is refused. The invariant `MainPasses`, that main passes its own gate, says
  that and with `ControlsBite` the rest: main has every control with a differential, so the
  repaired source is nowhere worse than main, which passed, and has the oracle's row. The rows
of both differentials must be in main's grid: without the naive row a source without the gate
can write a baseline that the repair is worse than.

The hypotheses are facts about the datasets that are not true of every one; TLC evaluates all
three for the repository's, with all six controls.

Only model-checked: the liveness properties (`TurnEnds`, `EveryTurnEnds`, `EveryStreamCloses`,
`EveryWorkerEnds`) and the fairness half of `ImplementsAgentTurn`, which are out of the prover's
reach. Every safety property that a passing run checks is a theorem.

## 7. Not modelled

* The text of messages, prompts, reports and logs. The estimate of a text's tokens
  (`AgentLoop` leaves open whether a history is folded or overflows, `ContextWindow` is
  given sizes). The validation of the model's JSON (valid or not). The extraction of numbers
  from text and the tolerance with which the gate matches them (a figure is a fact or not).
* The limits inside the child process (they are the ways a cell fails), and a crash of the
  process that holds the namespaces.
* Signatures that do not match, and requests nobody signed: `verify` refuses them before it
  looks at the nonces, and they change nothing.
* SQL itself and sqlglot: a statement is what the guard's rules ask of its tree. Common
  table expressions, subqueries and set operations are not among the repository's cases and
  have no place in the record of a statement.
* The retrieval index, the corpus and its screen: scores over text, computed once.
* The live evaluation, the history of runs, the push to Google Slides, the provider
  clients, the warehouse generator and the dbt project, the web client, deployment.

`PROJECT.json` lists every component with its status and, where it is not modelled, why.
