----------------------------- MODULE ChatService -----------------------------
(***************************************************************************)
(* POST /v1/chat: admission, the worker thread that runs the agent, the    *)
(* queue that carries its events to the event loop, and the generator that *)
(* streams them and must give the permit back however the request ends.    *)
(*                                                                         *)
(* Agent.run is seen from outside: it emits progress, and returns or       *)
(* raises.  Turns of one session exclude each other (SessionTurns says     *)
(* when that can be relied on).                                            *)
(***************************************************************************)
EXTENDS Naturals, Sequences, FiniteSets

CONSTANTS Requests, SessionIds,
          SessionOf,       \* the session_id each request carries
          MaxConcurrent,   \* Settings.max_concurrent_requests
          Threads,         \* size of the event loop's default thread pool
          MaxProgress      \* bound on the progress events of one run

ASSUME ServiceAssumption == /\ IsFiniteSet(Requests)
                            /\ SessionOf \in [Requests -> SessionIds]
                            /\ MaxConcurrent \in Nat \ {0}
                            /\ Threads \in Nat \ {0}
                            /\ MaxProgress \in Nat

VARIABLES
  \* the semaphore and the counters, shared by all requests
  permits, metrics,
  \* the endpoint and its generator: where each request stands, and what the
  \* client has received
  stage, sent,
  \* the worker: where it stands, its progress, and how its run ended
  worker, progress, verdict,
  \* what the two share: the event queue and the cancel flag
  queue, cancel,
  \* history: the client hung up
  gone

sharedVars   == <<queue, cancel>>
endpointVars == <<permits, stage, sent, gone>>
workerVars   == <<worker, progress, verdict>>
vars == <<permits, metrics, stage, sent, worker, progress, verdict, queue, cancel, gone>>

Stages == {"new", "refused", "admitted", "unstarted", "streaming", "draining", "closed"}

WorkerPhases == {"none", "queued", "waiting", "running", "ending", "ended",
                 "dropped"}

Results == {"answer", "clarification", "cancelled", "blocked", "failed", "exception"}

Counters == {"requests", "overloaded", "answers", "clarifications", "cancelled",
             "errors", "ungrounded_blocked"}

Sentinel == "sentinel"

\* A worker that occupies a thread.
OnThread(r) ==
    worker[r] \in {"waiting", "running", "ending"}

\* Faulty variant: a run that raised keeps the turn.
HasTurnOrRaised(r) == worker[r] = "running" \/ verdict[r] = "raised"

\* A worker inside `with sessions.turn_lock(...)`, which every way out leaves.
HasTurn(r) == worker[r] = "running"

HoldsPermit(r) == stage[r] \in {"admitted", "unstarted", "streaming", "draining"}
-----------------------------------------------------------------------------
\* metrics.record: each named counter is incremented, under the lock.
Counted(names) == [c \in Counters |-> IF c \in names THEN metrics[c] + 1 ELSE metrics[c]]

\* Faulty variant: a cancelled run is an error as well.
CancelledIsAnError(result) ==
    CASE result = "answer"        -> {"answers"}
      [] result = "clarification" -> {"clarifications"}
      [] result = "cancelled"     -> {"cancelled", "errors"}
      [] result = "blocked"       -> {"errors", "ungrounded_blocked"}
      [] OTHER                    -> {"errors"}

\* What a run counts as.  Only a run that is neither cancelled, nor a
\* clarification, nor ok is an error; of those the ones whose last grounding
\* verdict was negative count as blocked as well.
CountersOf(result) ==
    CASE result = "answer"        -> {"answers"}
      [] result = "clarification" -> {"clarifications"}
      [] result = "cancelled"     -> {"cancelled"}
      [] result = "blocked"       -> {"errors", "ungrounded_blocked"}
      [] OTHER                    -> {"errors"}

\* Faulty variant: the stream says "done" of every run.
AlwaysDone(result) == "done"

\* The last event before the sentinel.
LastEvent(result) == IF result = "exception" THEN "error" ELSE "done"

\* Faulty variant: the sentinel is pushed only when the run did not raise.
SentinelOnReturn(events, ended) ==
    IF ended = "returned" THEN Append(events, Sentinel) ELSE events

\* The sentinel is pushed in `finally`.
Terminated(events, ended) == Append(events, Sentinel)

\* cancel.set(), in the `except` and in the `finally` of the generator.
Signalled(flag) == TRUE

\* Faulty variant: the permit of a client that hung up is released by the
\* exception handler and by the `finally`.
ReleasedTwice(free, hungUp) == IF hungUp THEN free + 2 ELSE free + 1

\* capacity.release(), once, in the innermost `finally`.
Released(free, hungUp) == free + 1
-----------------------------------------------------------------------------
Init == /\ permits = MaxConcurrent
        /\ metrics = [c \in Counters |-> 0]
        /\ stage = [r \in Requests |-> "new"]
        /\ sent = [r \in Requests |-> <<>>]
        /\ worker = [r \in Requests |-> "none"]
        /\ progress = [r \in Requests |-> 0]
        /\ verdict = [r \in Requests |-> "none"]
        /\ queue = [r \in Requests |-> <<>>]
        /\ cancel = [r \in Requests |-> FALSE]
        /\ gone = [r \in Requests |-> FALSE]

Move(r, to) == stage' = [stage EXCEPT ![r] = to]
Work(r, to) == worker' = [worker EXCEPT ![r] = to]
Push(r, events) == queue' = [queue EXCEPT ![r] = events]
-----------------------------------------------------------------------------
(* The endpoint. *)

Refuse(r) ==
    /\ stage[r] = "new"
    /\ permits = 0
    /\ metrics' = Counted({"overloaded"})
    /\ Move(r, "refused")
    /\ UNCHANGED <<permits, sent, workerVars, sharedVars, gone>>

Admit(r) ==
    /\ stage[r] = "new"
    /\ permits > 0
    /\ permits' = permits - 1
    /\ metrics' = Counted({"requests"})
    /\ Move(r, "admitted")
    /\ UNCHANGED <<sent, workerVars, sharedVars, gone>>

\* The server asks the generator for its first event: the worker is queued.
StartStream(r) ==
    /\ stage[r] = "admitted"
    /\ Move(r, "streaming")
    /\ Work(r, "queued")
    /\ UNCHANGED <<permits, metrics, sent, progress, verdict, sharedVars, gone>>

\* The client hangs up before that: no code of the generator ever runs, its
\* `finally` included.
NeverStarted(r) ==
    /\ stage[r] = "admitted"
    /\ Move(r, "unstarted")
    /\ gone' = [gone EXCEPT ![r] = TRUE]
    /\ UNCHANGED <<permits, metrics, sent, workerVars, sharedVars>>

Deliver(r) ==
    /\ stage[r] = "streaming"
    /\ queue[r] # <<>> /\ Head(queue[r]) # Sentinel
    /\ sent' = [sent EXCEPT ![r] = Append(@, Head(queue[r]))]
    /\ Push(r, Tail(queue[r]))
    /\ UNCHANGED <<permits, metrics, stage, workerVars, cancel, gone>>

StreamEnds(r) ==
    /\ stage[r] = "streaming"
    /\ queue[r] # <<>> /\ Head(queue[r]) = Sentinel
    /\ Push(r, Tail(queue[r]))
    /\ cancel' = [cancel EXCEPT ![r] = Signalled(@)]
    /\ Move(r, "draining")
    /\ UNCHANGED <<permits, metrics, sent, workerVars, gone>>

\* The client hangs up: the server cancels the generator.
HangUp(r) ==
    /\ stage[r] = "streaming"
    /\ gone' = [gone EXCEPT ![r] = TRUE]
    /\ cancel' = [cancel EXCEPT ![r] = Signalled(@)]
    /\ Move(r, "draining")
    /\ UNCHANGED <<permits, metrics, sent, workerVars, queue>>

\* `await task` comes back when the worker is through.
Drained(r) ==
    /\ stage[r] = "draining"
    /\ worker[r] = "ended"
    /\ permits' = Released(permits, gone[r])
    /\ Move(r, "closed")
    /\ UNCHANGED <<metrics, sent, workerVars, sharedVars, gone>>

\* The generator is cancelled again while it waits in `await task`: the inner
\* `finally` releases the permit.  Cancelling the task takes a worker that no
\* thread has picked up out of the pool; one that runs goes on.
CancelledAgain(r) ==
    /\ stage[r] = "draining"
    /\ gone[r]
    /\ worker[r] # "ended"
    /\ permits' = Released(permits, gone[r])
    /\ Move(r, "closed")
    /\ Work(r, IF worker[r] = "queued" THEN "dropped" ELSE worker[r])
    /\ UNCHANGED <<metrics, sent, progress, verdict, sharedVars, gone>>
-----------------------------------------------------------------------------
(* The worker. *)

ThreadFree == Cardinality({q \in Requests : OnThread(q)}) < Threads

\* A thread of the pool picks the worker up.  It makes its client and its
\* agent, and waits for the session's turn.
StartWork(r) ==
    /\ worker[r] = "queued"
    /\ ThreadFree
    /\ Work(r, "waiting")
    /\ UNCHANGED <<endpointVars, metrics, progress, verdict, sharedVars>>

TakeTurn(r) ==
    /\ worker[r] = "waiting"
    /\ \A q \in Requests : SessionOf[q] = SessionOf[r] => ~HasTurn(q)
    /\ Work(r, "running")
    /\ UNCHANGED <<endpointVars, metrics, progress, verdict, sharedVars>>

Emit(r) ==
    /\ worker[r] = "running"
    /\ progress[r] < MaxProgress
    /\ progress' = [progress EXCEPT ![r] = @ + 1]
    /\ Push(r, Append(queue[r], "progress"))
    /\ UNCHANGED <<endpointVars, metrics, worker, verdict, cancel>>

\* The run is over: its outcome is counted and the last event is emitted.
Conclude(r, result) ==
    /\ metrics' = Counted(CountersOf(result))
    /\ verdict' = [verdict EXCEPT ![r] = IF result = "exception" THEN "raised" ELSE "returned"]
    /\ Push(r, Append(queue[r], LastEvent(result)))
    /\ Work(r, "ending")
    /\ UNCHANGED <<endpointVars, progress, cancel>>

\* agent.run returns; only a run that saw the flag calls itself cancelled.
Return(r) ==
    /\ worker[r] = "running"
    /\ \E result \in Results \ {"exception"} :
          /\ result = "cancelled" => cancel[r]
          /\ Conclude(r, result)

\* make_client or the Agent constructor raised: the turn is never waited for.
SetupFails(r) ==
    /\ worker[r] = "queued"
    /\ ThreadFree
    /\ Conclude(r, "exception")

\* agent.run raised.
Raise(r) ==
    /\ worker[r] = "running"
    /\ Conclude(r, "exception")

EndWork(r) ==
    /\ worker[r] = "ending"
    /\ Push(r, Terminated(queue[r], verdict[r]))
    /\ Work(r, "ended")
    /\ UNCHANGED <<endpointVars, metrics, progress, verdict, cancel>>
-----------------------------------------------------------------------------
Serve(r)  == Deliver(r) \/ StreamEnds(r) \/ Drained(r)
WorkOn(r) == \/ StartWork(r) \/ SetupFails(r) \/ TakeTurn(r) \/ Emit(r)
             \/ Return(r) \/ Raise(r) \/ EndWork(r)

Next == \E r \in Requests :
           \/ Refuse(r) \/ Admit(r) \/ StartStream(r) \/ NeverStarted(r)
           \/ HangUp(r) \/ CancelledAgain(r) \/ Serve(r) \/ WorkOn(r)

\* The event loop serves every stream, and the pool runs every worker it has
\* a thread for.  Clients come and go as they please.
Spec == /\ Init /\ [][Next]_vars
        /\ \A r \in Requests : WF_vars(Serve(r)) /\ WF_vars(WorkOn(r))
-----------------------------------------------------------------------------
(* Properties. *)

Events == {"progress", "done", "error"}

\* Every variable has the type the code gives it; a bounded semaphore is never
\* released beyond its initial value.
TypeOK ==
    /\ permits \in 0..MaxConcurrent
    /\ metrics \in [Counters -> Nat]
    /\ stage \in [Requests -> Stages]
    /\ sent \in [Requests -> Seq(Events)]
    /\ worker \in [Requests -> WorkerPhases]
    /\ progress \in [Requests -> 0..MaxProgress]
    /\ verdict \in [Requests -> {"none", "returned", "raised"}]
    /\ queue \in [Requests -> Seq(Events \cup {Sentinel})]
    /\ cancel \in [Requests -> BOOLEAN]
    /\ gone \in [Requests -> BOOLEAN]

\* Permits are neither lost nor made: the free ones are those no request holds,
\* through refusals, hang-ups, exceptions and repeated cancellations.
PermitsAreConserved ==
    permits + Cardinality({r \in Requests : HoldsPermit(r)}) = MaxConcurrent

\* An admitted request whose outcome has not been counted (yet).
Uncounted(r) ==
    /\ stage[r] \notin {"new", "refused"}
    /\ worker[r] \in {"none", "queued", "waiting", "running", "dropped"}

\* The dashboard adds up: every admitted request is counted once as an answer,
\* a clarification, a cancellation or an error, or is still uncounted.
CountersAddUp ==
    /\ metrics["requests"] = metrics["answers"] + metrics["clarifications"]
                               + metrics["cancelled"] + metrics["errors"]
                               + Cardinality({r \in Requests : Uncounted(r)})
    /\ metrics["ungrounded_blocked"] <= metrics["errors"]
    /\ metrics["overloaded"] = Cardinality({r \in Requests : stage[r] = "refused"})

\* A client that stayed has been told how the run ended, in the last event and
\* there alone, when the stream closes.
StreamTellsTheOutcome ==
    \A r \in Requests :
        /\ \A i \in DOMAIN sent[r] : sent[r][i] # "progress" => i = Len(sent[r])
        /\ stage[r] = "closed" /\ ~gone[r] =>
              /\ sent[r] # <<>>
              /\ sent[r][Len(sent[r])] = IF verdict[r] = "raised" THEN "error" ELSE "done"

\* No worker runs on for a stream that is closing without having been told.
OrphansAreTold ==
    \A r \in Requests : stage[r] \in {"draining", "closed"} => cancel[r]

\* The stream ends, whatever the run did and wherever it failed.
EveryStreamCloses == \A r \in Requests : stage[r] = "streaming" ~> stage[r] = "closed"

\* A worker that was queued ends, or is taken out of the pool: workers waiting
\* for their session's turn never use up the threads for good.
EveryWorkerEnds ==
    \A r \in Requests : worker[r] = "queued" ~> worker[r] \in {"ended", "dropped"}

\* What a client and the capacity see of a request.
StateOf == [r \in Requests |->
               IF stage[r] \in {"new", "refused", "closed"} THEN stage[r]
               ELSE IF gone[r] THEN "left" ELSE "served"]

Stream == INSTANCE Streams WITH state <- StateOf, heard <- sent, outcome <- verdict

\* The endpoint with its semaphore, threads and queues is what Streams promises:
\* refusals at the limit and only there, one outcome to every client that stays,
\* nothing behind it, and no stream that closes on a client before it.
ImplementsStreams == Stream!Spec

\* app.py: "Signal the worker to stop at its next step, then let it drain
\* rather than orphaning it."
WorkersAreDrained == \A r \in Requests : stage[r] = "closed" => ~OnThread(r)
==============================================================================
