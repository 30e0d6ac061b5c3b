------------------------------- MODULE Sandbox -------------------------------
(***************************************************************************)
(* python_exec: cells of Python on the namespaces that sessions keep       *)
(* between calls.  A cell is called by the agent of its session, loads the *)
(* namespace, runs in a child process, and saves what is left of it.  The  *)
(* sandbox is in the process of the service or behind HTTP in the          *)
(* executor, where the caller can give up while the cell goes on.          *)
(*                                                                         *)
(* A namespace says for each name which cell bound it.  Nothing locks one: *)
(* a turn calls its tools one by one (AgentLoop), but two turns of a       *)
(* session that was evicted run at once (SessionTurns), and then the cells *)
(* of that session load, run, save and unlink in any order.                *)
(***************************************************************************)
EXTENDS FiniteSets

CONSTANTS Cells, Sessions,
          SessionOf,   \* the session whose agent calls a cell
          Names,       \* the variables of the cells
          Default,     \* session_scope's default
          Unset,       \* no binding
          Absent, Torn \* no file; a file that was truncated for writing

ASSUME CellsAssumption == SessionOf \in [Cells -> Sessions]

VARIABLES
  \* build_tools: the sandbox is the executor's
  remote,
  \* the pickled namespaces
  file,
  \* the caller of a cell and what it was told
  caller, reply,
  \* the cell: where it stands, what it loaded, what it leaves, how it ended
  phase, seen, left, outcome,
  \* history: what a session's agents have reason to expect in its namespace,
  \* and the sessions that ever had two calls outstanding at once
  expected, overlapped

callerVars == <<caller, reply>>
cellVars   == <<phase, seen, left, outcome>>
history    == <<expected, overlapped>>
vars == <<remote, file, callerVars, cellVars, history>>

Namespaces == [Names -> Cells \cup {Unset}]
Empty      == [n \in Names |-> Unset]
Keys       == Sessions \cup {Default}

ASSUME MarksAssumption == /\ Unset \notin Cells
                          /\ Torn \notin Namespaces
                          /\ Absent \notin Namespaces \cup {Torn}

Exceptions == {"raised", "unwritten"}
Outcomes   == {"success", "failure", "too_large"} \cup Exceptions
Replies    == Outcomes \cup {"timeout", "unavailable"}

Phases == {"none", "received", "lost", "found", "running", "saving", "orphaned", "over"}
-----------------------------------------------------------------------------
\* Faulty variant: every cell runs in the scope nobody has set.
ScopeNotSet(c) == Default

\* session_scope.get().  The worker of the service sets it to the session of
\* the request; the executor's /exec passes the session as an argument, which
\* run() ignores, and sets nothing.
Scope(c) == IF remote THEN Default ELSE SessionOf[c]

\* Faulty variant: the size is checked when the file is already open.
KeptWhenOpened(key) == Torn

\* _save_namespace when the namespace is too large: the file is unlinked.
KeptOverCap(key) == Absent

\* Faulty variant: a response is read without looking at its status.
StatusIgnored(o) == o

\* raise_for_status: an exception in the executor is a status 500.
Told(o) == IF remote /\ o \in Exceptions THEN "unavailable" ELSE o

\* What running c on a namespace can leave of it: names it bound, names it
\* deleted or that could not be pickled, and the rest.
Leftovers(c, ns) ==
    {after \in Namespaces : \A n \in Names : after[n] \in {ns[n], c, Unset}}

Init == /\ remote \in BOOLEAN
        /\ file = [k \in Keys |-> Absent]
        /\ caller = [c \in Cells |-> "new"]
        /\ reply = [c \in Cells |-> "none"]
        /\ phase = [c \in Cells |-> "none"]
        /\ seen = [c \in Cells |-> Empty]
        /\ left = [c \in Cells |-> Empty]
        /\ outcome = [c \in Cells |-> "none"]
        /\ expected = [s \in Sessions |-> Empty]
        /\ overlapped = {}

Idle(s) == \A c \in Cells : SessionOf[c] = s => caller[c] # "waiting"

Overlaps(s) == overlapped' = IF Idle(s) THEN overlapped ELSE overlapped \cup {s}

EndsWith(c, o) == /\ phase' = [phase EXCEPT ![c] = "over"]
                  /\ outcome' = [outcome EXCEPT ![c] = o]

\* Cells that are writing the file of a key when its name is unlinked go on
\* writing to a file that nobody can open any more.
Orphaned(key) ==
    [c \in Cells |-> IF phase[c] = "saving" /\ Scope(c) = key THEN "orphaned" ELSE phase[c]]

Tell(c, r) == /\ caller' = [caller EXCEPT ![c] = "told"]
              /\ reply' = [reply EXCEPT ![c] = r]
-----------------------------------------------------------------------------
(* The caller. *)

Call(c) ==
    /\ caller[c] = "new"
    /\ caller' = [caller EXCEPT ![c] = "waiting"]
    /\ phase' = [phase EXCEPT ![c] = "received"]
    /\ Overlaps(SessionOf[c])
    /\ UNCHANGED <<remote, file, reply, seen, left, outcome, expected>>

\* The namespace as it is after what the cell has changed in it.
Changed(c, ns) == [n \in Names |-> IF left[c][n] # seen[c][n] THEN left[c][n] ELSE ns[n]]

\* The result comes back.  The agent reads off it what its variables are.
Answer(c) ==
    /\ caller[c] = "waiting"
    /\ phase[c] = "over"
    /\ Tell(c, Told(outcome[c]))
    /\ expected' = [expected EXCEPT ![SessionOf[c]] =
                       CASE outcome[c] = "success"   -> Changed(c, @)
                         [] outcome[c] = "too_large" -> Empty
                         [] OTHER                    -> @]
    /\ seen' = [seen EXCEPT ![c] = Empty]
    /\ left' = [left EXCEPT ![c] = Empty]
    /\ UNCHANGED <<remote, file, phase, outcome, overlapped>>

\* httpx.TimeoutException: the executor goes on with the cell.
GiveUp(c) ==
    /\ remote
    /\ caller[c] = "waiting"
    /\ Tell(c, "timeout")
    /\ UNCHANGED <<remote, file, cellVars, history>>

\* Any other httpx.HTTPError: the request was refused or did not arrive, or
\* the connection broke later and the cell goes on.
Unreachable(c) ==
    /\ remote
    /\ caller[c] = "waiting"
    /\ Tell(c, "unavailable")
    /\ phase' = [phase EXCEPT ![c] = IF @ = "received" THEN "lost" ELSE @]
    /\ UNCHANGED <<remote, file, seen, left, outcome, history>>

\* reset(session_id) unlinks the file of the session it is given.  Only the
\* executor's /reset calls it; in process nothing of the service does.
Reset(s) ==
    /\ file' = [file EXCEPT ![s] = Absent]
    /\ phase' = Orphaned(s)
    /\ expected' = [expected EXCEPT ![s] = Empty]
    /\ Overlaps(s)
    /\ UNCHANGED <<remote, callerVars, seen, left, outcome>>
-----------------------------------------------------------------------------
(* The cell. *)

\* path.exists() ...
Look(c) ==
    /\ phase[c] = "received"
    /\ phase' = [phase EXCEPT ![c] = IF file[Scope(c)] = Absent THEN "running" ELSE "found"]
    /\ UNCHANGED <<remote, file, callerVars, seen, left, outcome, history>>

\* ... and the file is read,
Load(c) ==
    /\ phase[c] = "found"
    /\ file[Scope(c)] \notin {Torn, Absent}
    /\ seen' = [seen EXCEPT ![c] = file[Scope(c)]]
    /\ phase' = [phase EXCEPT ![c] = "running"]
    /\ UNCHANGED <<remote, file, callerVars, left, outcome, history>>

\* which raises if it is half written, or was unlinked in between.
LoadRaises(c) ==
    /\ phase[c] = "found"
    /\ file[Scope(c)] \in {Torn, Absent}
    /\ EndsWith(c, "raised")
    /\ UNCHANGED <<remote, file, callerVars, seen, left, history>>

\* EMPTY_CODE, TIMEOUT, no result file, or an error in the code: nothing is
\* saved.
Fail(c) ==
    /\ phase[c] \in {"received", "running"}
    /\ EndsWith(c, "failure")
    /\ UNCHANGED <<remote, file, callerVars, seen, left, history>>

\* There is no room for the work directory or the payload; or the runner died
\* while it wrote its result (a limit on the size of files, on memory or on
\* CPU time), so that the file exists and pickle.load raises on it.
Raises(c) ==
    /\ phase[c] \in {"received", "running"}
    /\ EndsWith(c, "raised")
    /\ UNCHANGED <<remote, file, callerVars, seen, left, history>>

\* The namespace is larger than the cap.
Overgrow(c) ==
    /\ phase[c] = "running"
    /\ file' = [file EXCEPT ![Scope(c)] = KeptOverCap(Scope(c))]
    /\ phase' = [Orphaned(Scope(c)) EXCEPT ![c] = "over"]
    /\ outcome' = [outcome EXCEPT ![c] = "too_large"]
    /\ UNCHANGED <<remote, callerVars, seen, left, history>>

\* The file is opened, which truncates it ...
Open(c) ==
    /\ phase[c] = "running"
    /\ \E ns \in Leftovers(c, seen[c]) : left' = [left EXCEPT ![c] = ns]
    /\ file' = [file EXCEPT ![Scope(c)] = Torn]
    /\ phase' = [phase EXCEPT ![c] = "saving"]
    /\ UNCHANGED <<remote, callerVars, seen, outcome, history>>

\* ... and written, if it still has a name.
Save(c) ==
    /\ phase[c] \in {"saving", "orphaned"}
    /\ file' = IF phase[c] = "saving" THEN [file EXCEPT ![Scope(c)] = left[c]] ELSE file
    /\ EndsWith(c, "success")
    /\ UNCHANGED <<remote, callerVars, seen, left, history>>

\* handle.write or the close raises, the disk being full.  What is there by then
\* is half of what should be, or what another cell has written to the file since.
SaveFails(c) ==
    /\ phase[c] \in {"saving", "orphaned"}
    /\ \/ phase[c] = "saving" /\ file' = [file EXCEPT ![Scope(c)] = Torn]
       \/ UNCHANGED file
    /\ EndsWith(c, "unwritten")
    /\ UNCHANGED <<remote, callerVars, seen, left, history>>
-----------------------------------------------------------------------------
Execute(c) == \/ Look(c) \/ Load(c) \/ LoadRaises(c) \/ Fail(c) \/ Raises(c)
              \/ Overgrow(c) \/ Open(c) \/ Save(c) \/ SaveFails(c)

Next == \/ \E c \in Cells : Call(c) \/ Answer(c) \/ GiveUp(c) \/ Unreachable(c) \/ Execute(c)
        \/ \E s \in Sessions : Reset(s)

Spec == Init /\ [][Next]_vars
-----------------------------------------------------------------------------
(* Properties. *)

\* Every variable has the type the code gives it, and an exception of the
\* sandbox reaches the caller as it is only within one process.
TypeOK ==
    /\ remote \in BOOLEAN
    /\ file \in [Keys -> Namespaces \cup {Absent, Torn}]
    /\ caller \in [Cells -> {"new", "waiting", "told"}]
    /\ reply \in [Cells -> Replies \cup {"none"}]
    /\ phase \in [Cells -> Phases]
    /\ seen \in [Cells -> Namespaces]
    /\ left \in [Cells -> Namespaces]
    /\ outcome \in [Cells -> Outcomes \cup {"none"}]
    /\ expected \in [Sessions -> Namespaces]
    /\ overlapped \subseteq Sessions
    /\ \A c \in Cells : remote => reply[c] \notin Exceptions

\* PythonSandbox: "one namespace per session".
OneNamespacePerSession ==
    \A c \in Cells, n \in Names :
        seen[c][n] # Unset => SessionOf[seen[c][n]] = SessionOf[c]

\* "Variables defined in one call are available in the next": in process, the
\* cell of a session whose calls came one after the other finds exactly what
\* their results have told, with other sessions' cells running at the same
\* time, and after failures, resets and namespaces that grew too large.  Where
\* cells of a session overlap, the later save drops what the earlier one bound,
\* and all that is left is that the variables are of that session.
VariablesCarryOver ==
    ~remote =>
        /\ OneNamespacePerSession
        /\ \A c \in Cells :
              SessionOf[c] \notin overlapped /\ phase[c] \in {"running", "saving"}
                  => seen[c] = expected[SessionOf[c]]

\* A namespace is unreadable only because a cell is writing it or because the
\* write of one failed and its caller was told: loads that raise, time-outs,
\* lost calls, resets and namespaces over the cap leave none behind, with any
\* number of cells of one session writing and unlinking at once.
TornByWritesOnly ==
    \A k \in Keys : file[k] = Torn =>
        \E c \in Cells : Scope(c) = k /\ (phase[c] = "saving" \/ outcome[c] = "unwritten")
==============================================================================
