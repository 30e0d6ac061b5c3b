---------------------------- MODULE SessionTurns ----------------------------
(***************************************************************************)
(* SessionStore and the turn locks: several requests, each on a worker     *)
(* thread of its own, run their turns on the memories of their sessions.   *)
(* The store keeps the MaxSessions most recently used sessions and forgets *)
(* the rest, with their locks, whatever the requests that hold them do.    *)
(*                                                                         *)
(* A memory is named by the request whose get() created it, a lock by the  *)
(* request and the call that created it.  A turn is Agent.run seen from    *)
(* the memory: the question is added, old turns may be folded, and a reply *)
(* may be added.                                                           *)
(***************************************************************************)
EXTENDS MemoryOps

CONSTANTS Requests, SessionIds,
          SessionOf,      \* the session_id each request carries
          MaxSessions,    \* Settings.max_sessions
          VerbatimTurns,  \* ConversationMemory.verbatim_turns
          Nothing         \* no memory, no lock, no holder

ASSUME SessionAssumption == SessionOf \in [Requests -> SessionIds]
ASSUME BoundsAssumption == MaxSessions \in Nat \ {0} /\ VerbatimTurns \in Nat \ {0}

VARIABLES
  \* SessionStore: the LRU order (oldest first), the memories, the locks
  order, memoryOf, lockOf,
  \* the lock objects: who holds each
  holder,
  \* the memory objects: their turns
  log,
  \* the workers: where each stands, the memory and the lock it was handed,
  \* and the window compress() took before it called the summariser
  pc, memory, lock, recent,
  \* history: the sessions as they were used, and those ever evicted
  used, evicted

storeVars   == <<order, memoryOf, lockOf>>
handedVars  == <<memory, lock>>
historyVars == <<used, evicted>>
vars == <<order, memoryOf, lockOf, holder, log, pc, memory, lock, recent, used, evicted>>

Locks == Requests \X {"get", "turn_lock"}

ASSUME NothingAssumption == Nothing \notin Requests \cup Locks

Phases == {"new", "ready", "waiting", "asked", "folding", "working", "leaving", "done"}

\* The phases of a turn: the worker is inside `with sessions.turn_lock(...)`.
InTurn(r) == pc[r] \in {"asked", "folding", "working", "leaving"}
-----------------------------------------------------------------------------
(* The store. *)

Members(sessions) == {sessions[i] : i \in DOMAIN sessions}

\* Faulty variant: a session that is used again keeps its old place.
AddedLast(sessions, s) ==
    IF s \in Members(sessions) THEN sessions ELSE Append(sessions, s)

\* move_to_end, after the insertion of a new session at the end.
MovedToEnd(sessions, s) ==
    IF s \in Members(sessions)
    THEN LET at == CHOOSE i \in DOMAIN sessions : sessions[i] = s
         IN  Append(SubSeq(sessions, 1, at - 1) \o SubSeq(sessions, at + 1, Len(sessions)), s)
    ELSE Append(sessions, s)

\* popitem(last=False) while there are too many.
Trimmed(sessions) ==
    IF Len(sessions) > MaxSessions
    THEN SubSeq(sessions, Len(sessions) - MaxSessions + 1, Len(sessions))
    ELSE sessions

\* Faulty variant: the memory that get() has just made is not handed out.
FoundOnly(r, known) == known

\* Faulty variant: every request starts a conversation of its own.
NewMemory(r, known) == r

\* Faulty variant: the factory hands everyone the same memory.
SharedMemory(r, known) == CHOOSE m \in Requests : TRUE

\* The memory a request is handed: its session's, or a new one.
MemoryFor(r, known) == IF known = Nothing THEN r ELSE known

\* Faulty variant: a lock that nobody else will find.
PrivateLock(r, known) == <<r, "turn_lock">>

\* setdefault: the session's lock, or a new one if it has none (any more).
LockFor(r, known) == IF known = Nothing THEN <<r, "turn_lock">> ELSE known

\* Faulty variant: only a turn that succeeded gives the lock back.
ReleasedOnReply(l, replied) == IF replied THEN [holder EXCEPT ![l] = Nothing] ELSE holder

\* The `with` block releases on every way out.
Released(l, replied) == [holder EXCEPT ![l] = Nothing]
-----------------------------------------------------------------------------
Init == /\ order = <<>>
        /\ memoryOf = [s \in SessionIds |-> Nothing]
        /\ lockOf = [s \in SessionIds |-> Nothing]
        /\ holder = [l \in Locks |-> Nothing]
        /\ log = [m \in Requests |-> <<>>]
        /\ pc = [r \in Requests |-> "new"]
        /\ memory = [r \in Requests |-> Nothing]
        /\ lock = [r \in Requests |-> Nothing]
        /\ recent = [r \in Requests |-> <<>>]
        /\ used = <<>>
        /\ evicted = {}

GoTo(r, phase) == pc' = [pc EXCEPT ![r] = phase]

\* SessionStore.get, under the store's own lock: find or create, mark as
\* used, evict.  A new memory comes with a new lock; an evicted session loses
\* both entries.
Get(r) ==
    LET s     == SessionOf[r]
        fresh == memoryOf[s] = Nothing
        found == MemoryFor(r, memoryOf[s])
        kept  == Trimmed(MovedToEnd(order, s))
        gone  == (Members(order) \cup {s}) \ Members(kept)
    IN  /\ pc[r] = "new"
        /\ order' = kept
        /\ memoryOf' = [t \in SessionIds |-> IF t \in gone THEN Nothing
                                             ELSE IF t = s THEN found ELSE memoryOf[t]]
        /\ lockOf' = [t \in SessionIds |-> IF t \in gone THEN Nothing
                                           ELSE IF t = s /\ fresh THEN <<r, "get">>
                                           ELSE lockOf[t]]
        /\ memory' = [memory EXCEPT ![r] = found]
        /\ used' = Append(used, s)
        /\ evicted' = evicted \cup gone
        /\ GoTo(r, "ready")
        /\ UNCHANGED <<holder, log, lock, recent>>

\* make_client or the Agent constructor raised: the worker never gets to run.
SetupFails(r) ==
    /\ pc[r] = "ready"
    /\ GoTo(r, "done")
    /\ UNCHANGED <<storeVars, holder, log, handedVars, recent, historyVars>>

\* SessionStore.turn_lock, under the store's own lock.
TurnLock(r) ==
    LET s == SessionOf[r]
    IN  /\ pc[r] = "ready"
        /\ lock' = [lock EXCEPT ![r] = LockFor(r, lockOf[s])]
        /\ lockOf' = [lockOf EXCEPT ![s] = LockFor(r, lockOf[s])]
        /\ GoTo(r, "waiting")
        /\ UNCHANGED <<order, memoryOf, holder, log, memory, recent, historyVars>>

Says(r, kind) == Message(kind, r, {})

\* The lock is acquired; run() adds the question.
Enter(r) ==
    /\ pc[r] = "waiting"
    /\ holder[lock[r]] = Nothing
    /\ holder' = [holder EXCEPT ![lock[r]] = r]
    /\ log' = [log EXCEPT ![memory[r]] = Append(@, Says(r, "question"))]
    /\ GoTo(r, "asked")
    /\ UNCHANGED <<storeVars, handedVars, recent, historyVars>>

\* The history fits, or there is nothing to fold.
SkipFold(r) ==
    /\ pc[r] = "asked"
    /\ GoTo(r, "working")
    /\ UNCHANGED <<storeVars, holder, log, handedVars, recent, historyVars>>

\* compress() takes the window, then calls the summariser ...
StartFold(r) ==
    /\ pc[r] = "asked"
    /\ CanFold(log[memory[r]], VerbatimTurns)
    /\ recent' = [recent EXCEPT ![r] = Recent(log[memory[r]], VerbatimTurns)]
    /\ GoTo(r, "folding")
    /\ UNCHANGED <<storeVars, holder, log, handedVars, historyVars>>

\* ... and puts the window in place of the turns when it is back.
EndFold(r) ==
    /\ pc[r] = "folding"
    /\ log' = [log EXCEPT ![memory[r]] = recent[r]]
    /\ recent' = [recent EXCEPT ![r] = <<>>]
    /\ GoTo(r, "working")
    /\ UNCHANGED <<storeVars, holder, handedVars, historyVars>>

\* The turn ends with an answer or a clarifying question ...
Reply(r) ==
    /\ pc[r] = "working"
    /\ log' = [log EXCEPT ![memory[r]] = Append(@, Says(r, "answer"))]
    /\ GoTo(r, "leaving")
    /\ UNCHANGED <<storeVars, holder, handedVars, recent, historyVars>>

\* ... and the lock is released, which it also is when the turn was
\* cancelled, blocked, exhausted, escalated or raised.
Leave(r) ==
    /\ pc[r] \in {"working", "leaving"}
    /\ holder' = Released(lock[r], pc[r] = "leaving")
    /\ GoTo(r, "done")
    /\ UNCHANGED <<storeVars, log, handedVars, recent, historyVars>>

Step(r) == \/ SetupFails(r) \/ TurnLock(r) \/ Enter(r) \/ SkipFold(r)
           \/ StartFold(r) \/ EndFold(r) \/ Reply(r) \/ Leave(r)

Next == \E r \in Requests : Get(r) \/ Step(r)

\* Every worker thread keeps running.  A lock is not fair, but each request
\* takes one once, so a waiting worker gets it when the others are through.
Spec == Init /\ [][Next]_vars /\ \A r \in Requests : WF_vars(Step(r))
-----------------------------------------------------------------------------
(* Properties. *)

MessageType == [kind : {"question", "answer"}, asked : Requests, claims : {{}}]

\* Every variable has the type the code gives it, and a worker has a memory
\* once it is past get() and a lock once it is past turn_lock().
TypeOK ==
    /\ order \in Seq(SessionIds)
    /\ memoryOf \in [SessionIds -> Requests \cup {Nothing}]
    /\ lockOf \in [SessionIds -> Locks \cup {Nothing}]
    /\ holder \in [Locks -> Requests \cup {Nothing}]
    /\ log \in [Requests -> Seq(MessageType)]
    /\ pc \in [Requests -> Phases]
    /\ memory \in [Requests -> Requests \cup {Nothing}]
    /\ lock \in [Requests -> Locks \cup {Nothing}]
    /\ recent \in [Requests -> Seq(MessageType)]
    /\ \A r \in Requests : memory[r] = Nothing <=> pc[r] = "new"
    /\ \A r \in Requests : pc[r] = "waiting" \/ InTurn(r) => lock[r] # Nothing
    /\ used \in Seq(SessionIds)
    /\ evicted \in SUBSET SessionIds

\* Sessions are kept apart: two requests share a memory only when they carry
\* the same session_id, through every eviction and re-creation.
SessionsAreApart ==
    \A r1, r2 \in Requests :
        memory[r1] = memory[r2] /\ memory[r1] # Nothing => SessionOf[r1] = SessionOf[r2]

\* Turn two finds what turn one left: the requests of a session that was never
\* evicted are all handed the same memory.
ConversationContinues ==
    \A r1, r2 \in Requests :
        /\ SessionOf[r1] = SessionOf[r2] /\ SessionOf[r1] \notin evicted
        /\ memory[r1] # Nothing /\ memory[r2] # Nothing
        => memory[r1] = memory[r2]

\* The turn lock does its work for as long as the session stays in the store:
\* a memory has one turn at a time.
OneTurnWhileKept ==
    \A r1, r2 \in Requests :
        InTurn(r1) /\ InTurn(r2) /\ memory[r1] = memory[r2] /\ r1 # r2
            => SessionOf[r1] \in evicted

\* What Agent.run relies on: from the question to the reply, no other request
\* touches the memory and folding never takes the question away.
QuestionStaysLast ==
    \A r \in Requests :
        pc[r] \in {"asked", "folding", "working"} /\ SessionOf[r] \notin evicted
            => LET turns == log[memory[r]]
               IN  turns # <<>> /\ turns[Len(turns)] = Says(r, "question")

\* A reply stands directly behind the question it answers, unless folding took
\* the question.
RepliesFollowQuestions ==
    \A m \in Requests : \A i \in DOMAIN log[m] :
        /\ log[m][i].kind = "answer" /\ i > 1 /\ SessionOf[m] \notin evicted
        => log[m][i - 1] = Says(log[m][i].asked, "question")

LastUse(uses, s) ==
    IF \E i \in DOMAIN uses : uses[i] = s
    THEN CHOOSE i \in DOMAIN uses :
             uses[i] = s /\ \A j \in DOMAIN uses : uses[j] = s => j <= i
    ELSE 0

\* An eviction takes the session that was used longest ago, and happens only
\* when the store is full.
LeastRecentlyUsedGoes ==
    [][\A s \in Members(order) :
          s \notin Members(order') =>
              /\ Len(order) = MaxSessions
              /\ \A t \in Members(order') : LastUse(used', s) < LastUse(used', t)]_vars

\* No order of turns, failures and evictions leaves a request waiting for a
\* lock for ever.
EveryTurnEnds == \A r \in Requests : pc[r] = "waiting" ~> pc[r] = "done"

\* Whose turn a session's lock says it is, and what was said in it; nothing is
\* said of a session once it was evicted.
TurnOf == [s \in SessionIds |->
    IF s \in evicted \/ lockOf[s] = Nothing THEN Nothing ELSE holder[lockOf[s]]]
TalkOf == [s \in SessionIds |->
    IF s \in evicted \/ memoryOf[s] = Nothing THEN <<>> ELSE log[memoryOf[s]]]

Conversation == INSTANCE Conversations WITH turn <- TurnOf, talk <- TalkOf, lost <- evicted

\* Whatever the threads do, each session that the store keeps is one conversation
\* whose turns follow one another whole: the store with its memories, its locks
\* and its workers implements Conversations.
ImplementsConversations == Conversation!Spec

\* app.py: "Two tabs on one session must not interleave."
TurnsDoNotInterleave ==
    \A r1, r2 \in Requests :
        InTurn(r1) /\ InTurn(r2) /\ memory[r1] = memory[r2] => r1 = r2
=============================================================================
