----------------------------- MODULE RemoteExec ------------------------------
(***************************************************************************)
(* Calls from the API to the executor: the client signs each one with its  *)
(* clock and a nonce, the executor's middleware lets it through when it is *)
(* fresh and its nonce is not one it remembers.  Messages may be lost,     *)
(* delayed and delivered again; the executor has a clock of its own,       *)
(* remembers a bounded number of nonces in memory, and Cloud Run stops and *)
(* starts it at will.                                                      *)
(*                                                                         *)
(* A request stands for its nonce: 128 random bits do not repeat.  Only    *)
(* requests as the client signed them are modelled; an altered or unsigned *)
(* one is turned away before the nonces are looked at.  What a cell does   *)
(* once it runs is in Sandbox.                                             *)
(***************************************************************************)
EXTENDS Integers, Sequences

CONSTANTS Requests,
          Resets,      \* those of reset(); the others are cells
          MaxAge,      \* max_age_seconds
          MaxNonces,   \* max_nonces
          MaxSkew,     \* ticks the executor's clock may be off
          MaxTime,     \* bound: ticks
          MaxAccepted, \* bound: entries of the log when one is added
          Restarted    \* the mark of a restart in the log

ASSUME RemoteAssumption ==
    /\ Resets \subseteq Requests
    /\ MaxAge \in Nat /\ MaxNonces \in Nat \ {0}
    /\ MaxSkew \in Nat /\ MaxTime \in Nat /\ MaxAccepted \in Nat
    /\ Restarted \notin Requests

VARIABLES
  \* the API's clock, and how far the executor's is ahead of it
  now, skew,
  \* when the client signed a request, and what became of the call
  signed, told,
  \* RequestVerifier._seen and _order
  seen, order,
  \* the requests in the handler
  running,
  \* history: what was let through, and the restarts in between
  log

clockVars    == <<now, skew>>
clientVars   == <<signed, told>>
verifierVars == <<seen, order>>
vars == <<now, skew, signed, told, seen, order, running, log>>

\* time.time() has fractions and int() drops them: a second has two ticks.
Seconds(t) == t \div 2

Sent(r) == told[r] # "new"

\* Faulty variant: abs() is missing, and the difference is the wrong way round.
NotFromTheFuture(r) == Seconds(signed[r]) - Seconds(now + skew) <= MaxAge

\* abs(int(time.time()) - issued) <= max_age_seconds
Fresh(r) == LET age == Seconds(now + skew) - Seconds(signed[r])
            IN  age <= MaxAge /\ -age <= MaxAge

\* Faulty variant: the loop runs for as long as the deque is full.
PoppedWhenFull(q) == IF Len(q) >= MaxNonces THEN Len(q) - MaxNonces + 1 ELSE 0

\* while len(_order) > max_nonces: how many nonces are popped.
Popped(q) == IF Len(q) > MaxNonces THEN Len(q) - MaxNonces ELSE 0

Init == /\ now = 0
        /\ skew \in -MaxSkew..MaxSkew
        /\ signed = [r \in Requests |-> 0]
        /\ told = [r \in Requests |-> "new"]
        /\ seen = {}
        /\ order = <<>>
        /\ running = {}
        /\ log = <<>>

\* A caller learns of one end of its call, the first.
Tell(r, what) == told' = [told EXCEPT ![r] = IF @ = "waiting" THEN what ELSE @]
-----------------------------------------------------------------------------
(* The client. *)

\* run() and reset(): headers are signed and the request is posted, once.
Post(r) ==
    /\ ~Sent(r)
    /\ signed' = [signed EXCEPT ![r] = now]
    /\ told' = [told EXCEPT ![r] = "waiting"]
    /\ UNCHANGED <<clockVars, verifierVars, running, log>>

\* httpx.TimeoutException: EXECUTOR_TIMEOUT from run(), an exception from
\* reset().
TimeOut(r) ==
    /\ told[r] = "waiting"
    /\ Tell(r, IF r \in Resets THEN "raised" ELSE "timeout")
    /\ UNCHANGED <<clockVars, signed, verifierVars, running, log>>

\* Any other error of the transport: EXECUTOR_UNAVAILABLE from run().
Break(r) ==
    /\ told[r] = "waiting"
    /\ Tell(r, IF r \in Resets THEN "raised" ELSE "unavailable")
    /\ UNCHANGED <<clockVars, signed, verifierVars, running, log>>
-----------------------------------------------------------------------------
(* The executor.  verify() runs in the event loop, one request at a time. *)

\* A request, or another copy of it, comes in and is let through.
Accept(r) ==
    /\ Len(log) < MaxAccepted
    /\ Sent(r)
    /\ Fresh(r)
    /\ r \notin seen
    /\ LET q == Append(order, r)
           n == Popped(q)
       IN  /\ order' = SubSeq(q, n + 1, Len(q))
           /\ seen' = (seen \cup {r}) \ {q[i] : i \in 1..n}
    /\ running' = running \cup {r}
    /\ log' = Append(log, r)
    /\ UNCHANGED <<clockVars, clientVars>>

\* Status 401.  The answer to a copy may be the one that reaches the caller:
\* run() raises on the status, reset() does not look at it.
Refuse(r) ==
    /\ Sent(r)
    /\ ~Fresh(r) \/ r \in seen
    /\ Tell(r, IF r \in Resets THEN "returned" ELSE "unavailable")
    /\ UNCHANGED <<clockVars, signed, verifierVars, running, log>>

\* The cell, or the reset, is done and its response is on its way; it may be
\* lost, and run() takes a status of 500 for an executor that is not there.
Respond(r) ==
    /\ r \in running
    /\ running' = running \ {r}
    /\ \/ Tell(r, "returned")
       \/ r \notin Resets /\ Tell(r, "unavailable")
       \/ UNCHANGED told
    /\ UNCHANGED <<clockVars, signed, verifierVars, log>>

\* The instance is stopped, with what it remembers and what it runs, and
\* another one is started.
Restart ==
    /\ seen' = {}
    /\ order' = <<>>
    /\ running' = {}
    /\ skew' \in -MaxSkew..MaxSkew
    /\ log' = IF log = <<>> \/ log[Len(log)] = Restarted THEN log ELSE Append(log, Restarted)
    /\ UNCHANGED <<now, clientVars>>

Tick == /\ now < MaxTime
        /\ now' = now + 1
        /\ UNCHANGED <<skew, clientVars, verifierVars, running, log>>
-----------------------------------------------------------------------------
Client(r)   == Post(r) \/ TimeOut(r) \/ Break(r)
Executor(r) == Accept(r) \/ Refuse(r) \/ Respond(r)

Next == \/ \E r \in Requests : Client(r) \/ Executor(r)
        \/ Restart
        \/ Tick

Spec == Init /\ [][Next]_vars
-----------------------------------------------------------------------------
(* Properties. *)

\* Every variable has the type the code gives it; the set of nonces is what
\* the queue holds, and the queue never holds more than max_nonces.
TypeOK ==
    /\ now \in 0..MaxTime
    /\ skew \in -MaxSkew..MaxSkew
    /\ signed \in [Requests -> 0..MaxTime]
    /\ told \in [Requests -> {"new", "waiting", "timeout", "unavailable", "raised", "returned"}]
    /\ order \in Seq(Requests)
    /\ seen = {order[k] : k \in 1..Len(order)}
    /\ Len(order) <= MaxNonces
    /\ running \subseteq Requests
    /\ log \in Seq(Requests \cup {Restarted})

RestartBetween(i, j) == \E k \in i..j : log[k] = Restarted

\* "Previously unseen": whatever the network repeats, a request is let through
\* a second time only if the executor restarted in between or let max_nonces
\* other requests through.
SecondTimeOnlyIfForgotten ==
    \A i, j \in 1..Len(log) :
        i < j /\ log[i] = log[j] /\ log[i] # Restarted
            => RestartBetween(i, j) \/ j - i > MaxNonces

\* A call that was given up may still start, after calls that were made later,
\* but not long after: a request that is let through before an older one was
\* signed less than the age limit, the fraction of a second and the error of
\* the clock after it.
LateCallsOvertakeNothingOld ==
    \A i, j \in 1..Len(log) :
        i < j /\ log[i] # Restarted /\ log[j] # Restarted
            => signed[log[i]] - signed[log[j]] < 2 * (MaxAge + 1) + MaxSkew
==============================================================================
