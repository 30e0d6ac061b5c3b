------------------------- MODULE SessionTurnsProofs -------------------------
(***************************************************************************)
(* Theorems about SessionTurns, for every set of requests and sessions and *)
(* every size of the store.                                                *)
(***************************************************************************)
EXTENDS SessionTurns, WellFoundedInduction, SequenceTheorems, TLAPS

HasLock(r) == pc[r] = "waiting" \/ InTurn(r)

\* The types of what the proofs speak about.
HandlesTyped ==
    /\ memoryOf \in [SessionIds -> Requests \cup {Nothing}]
    /\ lockOf \in [SessionIds -> Locks \cup {Nothing}]
    /\ holder \in [Locks -> Requests \cup {Nothing}]
    /\ pc \in [Requests -> Phases]
    /\ memory \in [Requests -> Requests \cup {Nothing}]
    /\ lock \in [Requests -> Locks \cup {Nothing}]

\* A memory belongs to the session of the request that created it, in the
\* store and in the hands of the workers.
MemoriesHaveOwners ==
    /\ \A s \in SessionIds : memoryOf[s] # Nothing =>
          SessionOf[memoryOf[s]] = s /\ pc[memoryOf[s]] # "new"
    /\ \A r \in Requests : memory[r] # Nothing =>
          SessionOf[memory[r]] = SessionOf[r] /\ pc[memory[r]] # "new"

\* What the workers hold of a session that was never evicted is what the
\* store still has.
HandlesAreCurrent ==
    /\ \A s \in SessionIds : memoryOf[s] # Nothing => lockOf[s] # Nothing
    /\ \A r \in Requests : pc[r] = "new" <=> memory[r] = Nothing
    /\ \A r \in Requests : memory[r] # Nothing /\ SessionOf[r] \notin evicted =>
          memory[r] = memoryOf[SessionOf[r]]
    /\ \A r \in Requests : HasLock(r) => lock[r] # Nothing
    /\ \A r \in Requests : HasLock(r) /\ SessionOf[r] \notin evicted =>
          lock[r] = lockOf[SessionOf[r]]

\* A worker in its turn holds its lock.
TurnsHoldLocks == \A r \in Requests : InTurn(r) => holder[lock[r]] = r

StoreInv == HandlesTyped /\ MemoriesHaveOwners /\ HandlesAreCurrent /\ TurnsHoldLocks
-----------------------------------------------------------------------------
LEMMA StoreInit == Init => StoreInv
<1> SUFFICES ASSUME Init PROVE StoreInv
  OBVIOUS
<1>1. HandlesTyped
  BY DEF Init, HandlesTyped, Phases
<1>2. MemoriesHaveOwners /\ HandlesAreCurrent /\ TurnsHoldLocks
  BY DEF Init, MemoriesHaveOwners, HandlesAreCurrent, TurnsHoldLocks, HasLock, InTurn
<1>3. QED
  BY <1>1, <1>2 DEF StoreInv

LEMMA GetKeepsStore ==
    ASSUME StoreInv, NEW r \in Requests, Get(r) PROVE StoreInv'
<1> DEFINE s     == SessionOf[r]
           fresh == memoryOf[s] = Nothing
           found == MemoryFor(r, memoryOf[s])
           kept  == Trimmed(MovedToEnd(order, s))
           gone  == (Members(order) \cup {s}) \ Members(kept)
<1>1. /\ pc[r] = "new" /\ pc' = [pc EXCEPT ![r] = "ready"]
      /\ memory' = [memory EXCEPT ![r] = found]
      /\ evicted' = evicted \cup gone
      /\ holder' = holder /\ lock' = lock
  BY DEF Get, GoTo
<1>2. memoryOf' = [t \in SessionIds |-> IF t \in gone THEN Nothing
                                        ELSE IF t = s THEN found ELSE memoryOf[t]]
  BY DEF Get
<1>3. lockOf' = [t \in SessionIds |-> IF t \in gone THEN Nothing
                                      ELSE IF t = s /\ fresh THEN <<r, "get">>
                                      ELSE lockOf[t]]
  BY DEF Get
<1>4. s \in SessionIds /\ <<r, "get">> \in Locks /\ <<r, "get">> # Nothing /\ r # Nothing
  BY SessionAssumption, NothingAssumption DEF Locks
<1>5. /\ found \in Requests /\ found # Nothing /\ SessionOf[found] = s
      /\ fresh => found = r
      /\ ~fresh => found = memoryOf[s]
  BY <1>4, NothingAssumption DEF MemoryFor, StoreInv, MemoriesHaveOwners, HandlesTyped
<1> HIDE DEF s, fresh, found, kept, gone
<1> USE DEF StoreInv
<1>6. HandlesTyped'
  BY <1>1, <1>2, <1>3, <1>4, <1>5 DEF HandlesTyped, Phases
<1>7. pc'[found] # "new" /\ \A q \in Requests : pc[q] # "new" => pc'[q] # "new"
  BY <1>1, <1>2, <1>4, <1>5 DEF HandlesTyped, MemoriesHaveOwners
<1>8. MemoriesHaveOwners'
  <2>1. \A t \in SessionIds : memoryOf'[t] # Nothing =>
           SessionOf[memoryOf'[t]] = t /\ pc'[memoryOf'[t]] # "new"
    BY <1>2, <1>5, <1>7 DEF MemoriesHaveOwners, HandlesTyped
  <2>2. \A q \in Requests : memory'[q] # Nothing =>
           SessionOf[memory'[q]] = SessionOf[q] /\ pc'[memory'[q]] # "new"
    BY <1>1, <1>5, <1>7 DEF MemoriesHaveOwners, HandlesTyped, s
  <2>3. QED
    BY <2>1, <2>2 DEF MemoriesHaveOwners
<1>9. \A q \in Requests \ {r} : /\ memory'[q] = memory[q] /\ pc'[q] = pc[q]
                                /\ HasLock(q)' <=> HasLock(q)
  BY <1>1 DEF HandlesTyped, HasLock, InTurn
<1>10. memory'[r] = found /\ pc'[r] = "ready" /\ ~HasLock(r)'
  BY <1>1 DEF HandlesTyped, HasLock, InTurn
\* A worker of r's session that was there before has the memory the store has.
<1>11. ASSUME NEW q \in Requests, q # r, SessionOf[q] \notin evicted', memory[q] # Nothing
       PROVE  /\ memory[q] = memoryOf'[SessionOf[q]]
              /\ lockOf'[SessionOf[q]] = lockOf[SessionOf[q]]
  <2>1. SessionOf[q] \in SessionIds /\ SessionOf[q] \notin gone /\ SessionOf[q] \notin evicted
    BY <1>1, <1>11, SessionAssumption
  <2>2. memory[q] = memoryOf[SessionOf[q]]
    BY <1>11, <2>1 DEF HandlesAreCurrent
  <2>3. CASE SessionOf[q] = s
    BY <1>2, <1>3, <1>5, <1>11, <2>1, <2>2, <2>3 DEF fresh
  <2>4. CASE SessionOf[q] # s
    BY <1>2, <1>3, <2>1, <2>2, <2>4
  <2>5. QED
    BY <2>3, <2>4
<1>12. HandlesAreCurrent'
  <2>1. \A t \in SessionIds : memoryOf'[t] # Nothing => lockOf'[t] # Nothing
    BY <1>2, <1>3, <1>4 DEF HandlesAreCurrent, fresh
  <2>2. \A q \in Requests : pc'[q] = "new" <=> memory'[q] = Nothing
    BY <1>5, <1>9, <1>10 DEF HandlesAreCurrent
  <2>3. \A q \in Requests : memory'[q] # Nothing /\ SessionOf[q] \notin evicted' =>
           memory'[q] = memoryOf'[SessionOf[q]]
    <3>1. s \notin evicted' => memoryOf'[s] = found
      BY <1>1, <1>2, <1>4
    <3>2. QED
      BY <1>9, <1>10, <1>11, <3>1 DEF s
  <2>4. \A q \in Requests : HasLock(q)' => lock'[q] # Nothing
    BY <1>1, <1>9, <1>10 DEF HandlesAreCurrent
  <2>5. \A q \in Requests : HasLock(q)' /\ SessionOf[q] \notin evicted' =>
           lock'[q] = lockOf'[SessionOf[q]]
    <3>1. \A q \in Requests : HasLock(q) => memory[q] # Nothing
      BY DEF HandlesAreCurrent, HasLock, InTurn
    <3>2. QED
      BY <1>1, <1>9, <1>10, <1>11, <3>1 DEF HandlesAreCurrent
  <2>6. QED
    BY <2>1, <2>2, <2>3, <2>4, <2>5 DEF HandlesAreCurrent
<1>13. TurnsHoldLocks'
  BY <1>1, <1>9, <1>10 DEF TurnsHoldLocks, HasLock, InTurn
<1>14. QED
  BY <1>6, <1>8, <1>12, <1>13

LEMMA TurnLockKeepsStore ==
    ASSUME StoreInv, NEW r \in Requests, TurnLock(r) PROVE StoreInv'
<1> DEFINE s     == SessionOf[r]
           given == LockFor(r, lockOf[s])
<1>1. /\ pc[r] = "ready" /\ pc' = [pc EXCEPT ![r] = "waiting"]
      /\ lock' = [lock EXCEPT ![r] = given]
      /\ lockOf' = [lockOf EXCEPT ![s] = given]
      /\ memoryOf' = memoryOf /\ memory' = memory /\ holder' = holder /\ evicted' = evicted
  BY DEF TurnLock, GoTo, historyVars
<1>2. s \in SessionIds
  BY SessionAssumption
<1>3. /\ given \in Locks /\ given # Nothing
      /\ lockOf[s] # Nothing => given = lockOf[s]
  BY <1>2, NothingAssumption DEF LockFor, Locks, StoreInv, HandlesTyped
<1> HIDE DEF s, given
<1> USE DEF StoreInv
<1>4. HandlesTyped'
  BY <1>1, <1>2, <1>3 DEF HandlesTyped, Phases
<1>5. \A q \in Requests : pc'[q] = "new" <=> pc[q] = "new"
  BY <1>1 DEF HandlesTyped
<1>6. MemoriesHaveOwners'
  BY <1>1, <1>5 DEF MemoriesHaveOwners, HandlesTyped
\* The session has a lock as long as it was never evicted.
<1>7. s \notin evicted => lockOf' = lockOf /\ given = lockOf[s]
  <2>1. ASSUME s \notin evicted PROVE lockOf[s] # Nothing
    <3>1. memory[r] # Nothing /\ memory[r] = memoryOf[s]
      BY <1>1, <2>1 DEF HandlesAreCurrent, s
    <3>2. QED
      BY <1>2, <3>1 DEF HandlesAreCurrent
  <2>2. QED
    BY <1>1, <1>3, <2>1 DEF HandlesTyped
<1>8. \A q \in Requests \ {r} : /\ lock'[q] = lock[q]
                                /\ InTurn(q)' <=> InTurn(q)
                                /\ HasLock(q)' <=> HasLock(q)
  BY <1>1 DEF HandlesTyped, HasLock, InTurn
<1>9. lock'[r] = given /\ ~InTurn(r)'
  BY <1>1 DEF HandlesTyped, InTurn
<1>10. HandlesAreCurrent'
  <2>1. \A t \in SessionIds : memoryOf'[t] # Nothing => lockOf'[t] # Nothing
    BY <1>1, <1>3 DEF HandlesAreCurrent, HandlesTyped
  <2>2. \A q \in Requests : HasLock(q)' /\ SessionOf[q] \notin evicted' =>
           lock'[q] = lockOf'[SessionOf[q]]
    <3>1. ASSUME NEW q \in Requests, HasLock(q)', SessionOf[q] \notin evicted
          PROVE  lock'[q] = lockOf'[SessionOf[q]]
      <4>1. CASE q = r
        BY <1>7, <1>9, <3>1, <4>1 DEF s
      <4>2. CASE q # r
        <5>1. lock'[q] = lockOf[SessionOf[q]]
          BY <1>8, <3>1, <4>2 DEF HandlesAreCurrent
        <5>2. lockOf'[SessionOf[q]] = lockOf[SessionOf[q]]
          BY <1>1, <1>7, <3>1, SessionAssumption DEF HandlesTyped
        <5>3. QED
          BY <5>1, <5>2
      <4>3. QED
        BY <4>1, <4>2
    <3>2. QED
      BY <1>1, <3>1
  <2>3. \A q \in Requests : HasLock(q)' => lock'[q] # Nothing
    BY <1>3, <1>8, <1>9 DEF HandlesAreCurrent
  <2>4. QED
    BY <1>1, <1>5, <2>1, <2>2, <2>3 DEF HandlesAreCurrent
<1>11. TurnsHoldLocks'
  BY <1>1, <1>8, <1>9 DEF TurnsHoldLocks
<1>12. QED
  BY <1>4, <1>6, <1>10, <1>11

\* A step that only moves one worker on, without handing it anything.
LEMMA MoveKeepsHandles ==
    ASSUME StoreInv, NEW r \in Requests, NEW phase \in Phases \ {"new"},
           pc[r] # "new", pc' = [pc EXCEPT ![r] = phase],
           phase \in {"ready", "done"} \/ HasLock(r),
           memoryOf' = memoryOf, lockOf' = lockOf, memory' = memory, lock' = lock,
           evicted' = evicted, holder' \in [Locks -> Requests \cup {Nothing}]
    PROVE  HandlesTyped' /\ MemoriesHaveOwners' /\ HandlesAreCurrent'
<1> USE DEF StoreInv
<1>1. HandlesTyped'
  BY DEF HandlesTyped
<1>2. \A q \in Requests : pc'[q] = "new" <=> pc[q] = "new"
  BY DEF HandlesTyped
<1>3. MemoriesHaveOwners'
  BY <1>2 DEF MemoriesHaveOwners, HandlesTyped
<1>4. \A q \in Requests : HasLock(q)' => HasLock(q)
  BY DEF HandlesTyped, HasLock, InTurn
<1>5. HandlesAreCurrent'
  BY <1>2, <1>4 DEF HandlesAreCurrent
<1>6. QED
  BY <1>1, <1>3, <1>5

LEMMA EnterKeepsStore ==
    ASSUME StoreInv, NEW r \in Requests, Enter(r) PROVE StoreInv'
<1>1. /\ pc[r] = "waiting" /\ pc' = [pc EXCEPT ![r] = "asked"]
      /\ holder[lock[r]] = Nothing /\ holder' = [holder EXCEPT ![lock[r]] = r]
      /\ memoryOf' = memoryOf /\ lockOf' = lockOf /\ memory' = memory /\ lock' = lock
      /\ evicted' = evicted
  BY DEF Enter, GoTo, storeVars, handedVars, historyVars
<1>2. lock[r] \in Locks
  BY <1>1 DEF StoreInv, HandlesTyped, HandlesAreCurrent, HasLock
<1>3. holder' \in [Locks -> Requests \cup {Nothing}]
  BY <1>1 DEF StoreInv, HandlesTyped
<1>4. HandlesTyped' /\ MemoriesHaveOwners' /\ HandlesAreCurrent'
  <2>1. "asked" \in Phases \ {"new"} /\ HasLock(r)
    BY <1>1 DEF Phases, HasLock
  <2>2. QED
    BY <1>1, <1>3, <2>1, MoveKeepsHandles
<1>5. ASSUME NEW q \in Requests, InTurn(q)' PROVE holder'[lock'[q]] = q
  <2>1. CASE q = r
    BY <1>1, <1>2, <2>1 DEF StoreInv, HandlesTyped
  <2>2. CASE q # r
    <3>1. InTurn(q)
      BY <1>1, <1>5, <2>2 DEF InTurn, StoreInv, HandlesTyped
    <3>2. holder[lock[q]] = q /\ lock[q] # lock[r]
      BY <1>1, <3>1, NothingAssumption DEF StoreInv, TurnsHoldLocks
    <3>3. lock[q] \in Locks
      BY <3>1 DEF StoreInv, HandlesTyped, HandlesAreCurrent, HasLock
    <3>4. QED
      BY <1>1, <3>2, <3>3 DEF StoreInv, HandlesTyped
  <2>3. QED
    BY <2>1, <2>2
<1>6. QED
  BY <1>4, <1>5 DEF StoreInv, TurnsHoldLocks

LEMMA LeaveKeepsStore ==
    ASSUME StoreInv, NEW r \in Requests, Leave(r) PROVE StoreInv'
<1>1. /\ InTurn(r) /\ pc' = [pc EXCEPT ![r] = "done"]
      /\ holder' = [holder EXCEPT ![lock[r]] = Nothing]
      /\ memoryOf' = memoryOf /\ lockOf' = lockOf /\ memory' = memory /\ lock' = lock
      /\ evicted' = evicted
  BY DEF Leave, GoTo, Released, InTurn, storeVars, handedVars, historyVars
<1>2. holder' \in [Locks -> Requests \cup {Nothing}]
  BY <1>1 DEF StoreInv, HandlesTyped
<1>3. HandlesTyped' /\ MemoriesHaveOwners' /\ HandlesAreCurrent'
  <2>1. "done" \in Phases \ {"new"} /\ pc[r] # "new"
    BY <1>1 DEF Phases, InTurn
  <2>2. QED
    BY <1>1, <1>2, <2>1, MoveKeepsHandles
<1>4. ASSUME NEW q \in Requests, InTurn(q)' PROVE holder'[lock'[q]] = q
  <2>1. q # r /\ InTurn(q)
    BY <1>1, <1>4 DEF InTurn, StoreInv, HandlesTyped
  <2>2. lock[q] # lock[r] /\ holder[lock[q]] = q
    BY <1>1, <2>1 DEF StoreInv, TurnsHoldLocks
  <2>3. lock[q] \in Locks
    BY <2>1 DEF StoreInv, HandlesTyped, HandlesAreCurrent, HasLock
  <2>4. QED
    BY <1>1, <2>2, <2>3 DEF StoreInv, HandlesTyped
<1>5. QED
  BY <1>3, <1>4 DEF StoreInv, TurnsHoldLocks

\* The steps within a turn, and the worker that never gets to run.
LEMMA WorkKeepsStore ==
    ASSUME StoreInv, NEW r \in Requests,
           SetupFails(r) \/ SkipFold(r) \/ StartFold(r) \/ EndFold(r) \/ Reply(r)
    PROVE  StoreInv'
<1>1. PICK phase \in Phases \ {"new"} :
          /\ pc[r] # "new" /\ pc' = [pc EXCEPT ![r] = phase]
          /\ phase = "done" \/ InTurn(r)
          /\ phase \in {"done", "folding", "working", "leaving"}
  BY DEF SetupFails, SkipFold, StartFold, EndFold, Reply, GoTo, InTurn, Phases
<1>2. /\ memoryOf' = memoryOf /\ lockOf' = lockOf /\ memory' = memory /\ lock' = lock
      /\ holder' = holder /\ evicted' = evicted
  BY DEF SetupFails, SkipFold, StartFold, EndFold, Reply,
         storeVars, handedVars, historyVars
<1>3. HandlesTyped' /\ MemoriesHaveOwners' /\ HandlesAreCurrent'
  <2>1. holder' \in [Locks -> Requests \cup {Nothing}] /\ (InTurn(r) => HasLock(r))
    BY <1>2 DEF StoreInv, HandlesTyped, HasLock
  <2>2. QED
    BY <1>1, <1>2, <2>1, MoveKeepsHandles
<1>4. \A q \in Requests : InTurn(q)' => InTurn(q)
  BY <1>1 DEF InTurn, StoreInv, HandlesTyped
<1>5. QED
  BY <1>2, <1>3, <1>4 DEF StoreInv, TurnsHoldLocks

LEMMA StoreStep == StoreInv /\ [Next]_vars => StoreInv'
<1> SUFFICES ASSUME StoreInv, [Next]_vars PROVE StoreInv'
  OBVIOUS
<1>1. CASE UNCHANGED vars
  BY <1>1 DEF vars, StoreInv, HandlesTyped, MemoriesHaveOwners, HandlesAreCurrent,
              TurnsHoldLocks, HasLock, InTurn
<1>2. CASE Next
  BY <1>2, GetKeepsStore, TurnLockKeepsStore, EnterKeepsStore, LeaveKeepsStore,
     WorkKeepsStore DEF Next, Step
<1>3. QED
  BY <1>1, <1>2

LEMMA StoreCorrect == Spec => []StoreInv
BY StoreInit, StoreStep, PTL DEF Spec

\* Two requests share a memory only when they carry the same session_id.
THEOREM SessionsStayApart == Spec => []SessionsAreApart
<1>1. StoreInv => SessionsAreApart
  BY DEF StoreInv, MemoriesHaveOwners, SessionsAreApart
<1>2. QED
  BY <1>1, StoreCorrect, PTL

\* The requests of a session that was never evicted share one memory.
THEOREM ConversationsContinue == Spec => []ConversationContinues
<1>1. StoreInv => ConversationContinues
  BY DEF StoreInv, HandlesAreCurrent, ConversationContinues
<1>2. QED
  BY <1>1, StoreCorrect, PTL

LEMMA TurnsExcludeEachOther == StoreInv => OneTurnWhileKept
<1>1. ASSUME StoreInv, NEW r1 \in Requests, NEW r2 \in Requests,
             InTurn(r1), InTurn(r2), memory[r1] = memory[r2],
             SessionOf[r1] \notin evicted
      PROVE  r1 = r2
  <2>1. HasLock(r1) /\ HasLock(r2) /\ memory[r1] # Nothing
    BY <1>1 DEF HasLock, InTurn, StoreInv, HandlesAreCurrent
  <2>2. SessionOf[r1] = SessionOf[r2]
    BY <1>1, <2>1 DEF StoreInv, MemoriesHaveOwners
  <2>3. lock[r1] = lock[r2]
    BY <1>1, <2>1, <2>2 DEF StoreInv, HandlesAreCurrent
  <2>4. QED
    BY <1>1, <2>3 DEF StoreInv, TurnsHoldLocks
<1>2. QED
  BY <1>1 DEF OneTurnWhileKept

\* As long as a session stays in the store, its memory has one turn at a time.
THEOREM TurnsExclude == Spec => []OneTurnWhileKept
BY TurnsExcludeEachOther, StoreCorrect, PTL
-----------------------------------------------------------------------------
(* The question being answered.  Only a worker in its turn writes to a       *)
(* memory, so exclusion carries over to what the memory says.                *)

EndsWith(turns, message) == Len(turns) > 0 /\ turns[Len(turns)] = message

Asking(r) == pc[r] \in {"asked", "folding", "working"} /\ SessionOf[r] \notin evicted

LogsTyped == /\ log \in [Requests -> Seq(MessageType)]
             /\ recent \in [Requests -> Seq(MessageType)]

QuestionInv ==
    /\ LogsTyped
    /\ \A r \in Requests : Asking(r) => EndsWith(log[memory[r]], Says(r, "question"))
    /\ \A r \in Requests : Asking(r) /\ pc[r] = "folding" =>
          EndsWith(recent[r], Says(r, "question"))

LEMMA SaysType ==
    ASSUME NEW r \in Requests, NEW kind \in {"question", "answer"}
    PROVE  Says(r, kind) \in MessageType
BY DEF Says, Message, MessageType

LEMMA AppendEndsWith ==
    ASSUME NEW turns \in Seq(MessageType), NEW m \in MessageType
    PROVE  Append(turns, m) \in Seq(MessageType) /\ EndsWith(Append(turns, m), m)
BY DEF EndsWith

\* The window that compress() keeps ends where the turns end.
LEMMA RecentEndsWith ==
    ASSUME NEW turns \in Seq(MessageType), NEW m, EndsWith(turns, m),
           CanFold(turns, VerbatimTurns)
    PROVE  EndsWith(Recent(turns, VerbatimTurns), m)
<1> DEFINE before == Len(turns) - VerbatimTurns
<1>1. before \in Nat /\ VerbatimTurns \in Nat \ {0} /\ before + VerbatimTurns = Len(turns)
  BY BoundsAssumption DEF CanFold
<1>2. Recent(turns, VerbatimTurns) = SubSeq(turns, before + 1, Len(turns))
  BY DEF Recent
<1> HIDE DEF before
<1>3. Len(SubSeq(turns, before + 1, Len(turns))) = VerbatimTurns
  BY <1>1
<1>4. SubSeq(turns, before + 1, Len(turns))[VerbatimTurns] = turns[before + VerbatimTurns]
  BY <1>1, <1>3
<1>5. turns[before + VerbatimTurns] = m
  BY <1>1 DEF EndsWith
<1>6. VerbatimTurns > 0
  BY <1>1
<1>7. QED
  BY <1>2, <1>3, <1>4, <1>5, <1>6 DEF EndsWith

LEMMA RecentType ==
    ASSUME NEW turns \in Seq(MessageType), CanFold(turns, VerbatimTurns)
    PROVE  Recent(turns, VerbatimTurns) \in Seq(MessageType)
BY BoundsAssumption DEF CanFold, Recent

\* What one worker does to its memory is not seen by another worker's turn.
LEMMA OthersAreUndisturbed ==
    ASSUME StoreInv, StoreInv', NEW r \in Requests, NEW q \in Requests, q # r,
           InTurn(r) \/ InTurn(r)',
           InTurn(q), InTurn(q)', SessionOf[q] \notin evicted,
           memory' = memory, evicted' = evicted
    PROVE  memory[q] # memory[r]
<1>1. CASE InTurn(r)
  BY <1>1, TurnsExcludeEachOther DEF OneTurnWhileKept
<1>2. CASE InTurn(r)'
  <2>1. OneTurnWhileKept'
    <3>1. StoreInv' => OneTurnWhileKept'
      BY TurnsExcludeEachOther, PTL
    <3>2. QED
      BY <3>1
  <2>2. QED
    BY <1>2, <2>1 DEF OneTurnWhileKept
<1>3. QED
  BY <1>1, <1>2

LEMMA QuestionStep ==
    StoreInv /\ StoreInv' /\ QuestionInv /\ [Next]_vars => QuestionInv'
<1> SUFFICES ASSUME StoreInv, StoreInv', QuestionInv, [Next]_vars
             PROVE  QuestionInv'
  OBVIOUS
<1>1. pc \in [Requests -> Phases] /\ memory \in [Requests -> Requests \cup {Nothing}]
  BY DEF StoreInv, HandlesTyped
<1>2. \A q \in Requests : InTurn(q) => memory[q] \in Requests
  BY <1>1 DEF StoreInv, HandlesAreCurrent, InTurn
\* A step of r that leaves the logs alone and brings nobody into a turn.
<1>3. ASSUME log' = log, recent' = recent, evicted \subseteq evicted',
             \A q \in Requests : Asking(q)' => Asking(q) /\ memory'[q] = memory[q],
             \A q \in Requests : pc'[q] = "folding" => pc[q] = "folding"
      PROVE  QuestionInv'
  BY <1>3 DEF QuestionInv, LogsTyped
<1>4. ASSUME NEW r \in Requests, Get(r) PROVE QuestionInv'
  <2>1. /\ log' = log /\ recent' = recent /\ evicted \subseteq evicted'
        /\ pc[r] = "new" /\ pc' = [pc EXCEPT ![r] = "ready"]
        /\ \A q \in Requests \ {r} : memory'[q] = memory[q]
    BY <1>1, <1>4 DEF Get, GoTo
  <2>2. \A q \in Requests : Asking(q)' => Asking(q) /\ memory'[q] = memory[q]
    BY <1>1, <2>1 DEF Asking
  <2>3. QED
    BY <1>1, <1>3, <2>1, <2>2
<1>5. ASSUME NEW r \in Requests, SetupFails(r) \/ TurnLock(r) \/ SkipFold(r) \/ Leave(r)
      PROVE  QuestionInv'
  <2>1. /\ log' = log /\ recent' = recent /\ evicted' = evicted /\ memory' = memory
        /\ \E phase \in {"done", "waiting", "working"} :
              pc' = [pc EXCEPT ![r] = phase] /\ (phase = "working" => pc[r] = "asked")
    BY <1>5 DEF SetupFails, TurnLock, SkipFold, Leave, GoTo, storeVars, handedVars, historyVars
  <2>2. QED
    BY <1>1, <1>3, <2>1 DEF Asking
\* Another worker's turn does not see what r does to its own memory.
<1>6. ASSUME NEW r \in Requests, NEW turns \in Seq(MessageType),
             InTurn(r) \/ InTurn(r)', memory[r] \in Requests,
             log' = [log EXCEPT ![memory[r]] = turns],
             memory' = memory, evicted' = evicted,
             NEW phase, pc' = [pc EXCEPT ![r] = phase],
             NEW q \in Requests, q # r, Asking(q)
      PROVE  log'[memory'[q]] = log[memory[q]]
  <2>1. InTurn(q) /\ InTurn(q)' /\ SessionOf[q] \notin evicted
    BY <1>1, <1>6 DEF Asking, InTurn
  <2>2. memory[q] # memory[r]
    BY <1>6, <2>1, OthersAreUndisturbed
  <2>3. QED
    BY <1>2, <1>6, <2>1, <2>2 DEF QuestionInv, LogsTyped
<1>7. ASSUME NEW r \in Requests, Enter(r) PROVE QuestionInv'
  <2> DEFINE turns == Append(log[memory[r]], Says(r, "question"))
  <2>1. /\ pc[r] = "waiting" /\ pc' = [pc EXCEPT ![r] = "asked"]
        /\ log' = [log EXCEPT ![memory[r]] = turns]
        /\ memory' = memory /\ evicted' = evicted /\ recent' = recent
    BY <1>7 DEF Enter, GoTo, handedVars, historyVars
  <2>2. memory[r] \in Requests /\ InTurn(r)'
    BY <1>1, <2>1 DEF InTurn, StoreInv, HandlesAreCurrent
  <2>3. turns \in Seq(MessageType) /\ EndsWith(turns, Says(r, "question"))
    BY <2>2, SaysType, AppendEndsWith DEF QuestionInv, LogsTyped
  <2> HIDE DEF turns
  <2>4. LogsTyped'
    BY <2>1, <2>3 DEF QuestionInv, LogsTyped
  <2>5. log'[memory'[r]] = turns
    BY <2>1, <2>2 DEF QuestionInv, LogsTyped
  <2>6. \A q \in Requests \ {r} : Asking(q)' => Asking(q) /\ pc'[q] = pc[q]
    BY <1>1, <2>1 DEF Asking
  <2>7. pc'[r] = "asked"
    BY <1>1, <2>1
  <2>8. \A q \in Requests \ {r} : Asking(q)' => log'[memory'[q]] = log[memory[q]]
    BY <1>6, <2>1, <2>2, <2>3, <2>6
  <2>9. QED
    BY <2>1, <2>3, <2>4, <2>5, <2>6, <2>7, <2>8 DEF QuestionInv
<1>8. ASSUME NEW r \in Requests, StartFold(r) PROVE QuestionInv'
  <2> DEFINE window == Recent(log[memory[r]], VerbatimTurns)
  <2>1. /\ pc[r] = "asked" /\ pc' = [pc EXCEPT ![r] = "folding"]
        /\ CanFold(log[memory[r]], VerbatimTurns)
        /\ recent' = [recent EXCEPT ![r] = window]
        /\ log' = log /\ memory' = memory /\ evicted' = evicted
    BY <1>8 DEF StartFold, GoTo, handedVars, historyVars
  <2>2. memory[r] \in Requests
    BY <1>2, <2>1 DEF InTurn
  <2>3. window \in Seq(MessageType)
    BY <2>1, <2>2, RecentType DEF QuestionInv, LogsTyped
  <2>4. Asking(r)' => EndsWith(window, Says(r, "question"))
    BY <2>1, <2>2, RecentEndsWith DEF QuestionInv, LogsTyped, Asking
  <2> HIDE DEF window
  <2>5. LogsTyped'
    BY <2>1, <2>3 DEF QuestionInv, LogsTyped
  <2>6. \A q \in Requests : Asking(q)' => Asking(q)
    BY <1>1, <2>1 DEF Asking
  <2>7. \A q \in Requests \ {r} : recent'[q] = recent[q] /\ pc'[q] = pc[q]
    BY <1>1, <2>1 DEF QuestionInv, LogsTyped
  <2>8. recent'[r] = window
    BY <2>1 DEF QuestionInv, LogsTyped
  <2>9. QED
    BY <2>1, <2>4, <2>5, <2>6, <2>7, <2>8 DEF QuestionInv
<1>9. ASSUME NEW r \in Requests, EndFold(r) PROVE QuestionInv'
  <2>1. /\ pc[r] = "folding" /\ pc' = [pc EXCEPT ![r] = "working"]
        /\ log' = [log EXCEPT ![memory[r]] = recent[r]]
        /\ recent' = [recent EXCEPT ![r] = <<>>]
        /\ memory' = memory /\ evicted' = evicted
    BY <1>9 DEF EndFold, GoTo, handedVars, historyVars
  <2>2. memory[r] \in Requests /\ InTurn(r) /\ recent[r] \in Seq(MessageType)
    BY <1>2, <2>1 DEF InTurn, QuestionInv, LogsTyped
  <2>3. LogsTyped'
    BY <2>1, <2>2 DEF QuestionInv, LogsTyped
  <2>4. Asking(r)' => EndsWith(log'[memory'[r]], Says(r, "question"))
    BY <2>1, <2>2 DEF QuestionInv, LogsTyped, Asking
  <2>5. \A q \in Requests \ {r} : /\ Asking(q)' => Asking(q)
                                  /\ pc'[q] = pc[q] /\ recent'[q] = recent[q]
    BY <1>1, <2>1 DEF Asking, QuestionInv, LogsTyped
  <2>6. \A q \in Requests \ {r} : Asking(q)' => log'[memory'[q]] = log[memory[q]]
    BY <1>6, <2>1, <2>2, <2>5
  <2>7. pc'[r] = "working"
    BY <1>1, <2>1
  <2>8. QED
    BY <2>3, <2>4, <2>5, <2>6, <2>7 DEF QuestionInv
<1>10. ASSUME NEW r \in Requests, Reply(r) PROVE QuestionInv'
  <2> DEFINE turns == Append(log[memory[r]], Says(r, "answer"))
  <2>1. /\ pc[r] = "working" /\ pc' = [pc EXCEPT ![r] = "leaving"]
        /\ log' = [log EXCEPT ![memory[r]] = turns]
        /\ recent' = recent /\ memory' = memory /\ evicted' = evicted
    BY <1>10 DEF Reply, GoTo, handedVars, historyVars
  <2>2. memory[r] \in Requests /\ InTurn(r)
    BY <1>2, <2>1 DEF InTurn
  <2>3. turns \in Seq(MessageType)
    BY <2>2, SaysType, AppendEndsWith DEF QuestionInv, LogsTyped
  <2> HIDE DEF turns
  <2>4. LogsTyped'
    BY <2>1, <2>3 DEF QuestionInv, LogsTyped
  <2>5. \A q \in Requests : Asking(q)' => q # r /\ Asking(q) /\ pc'[q] = pc[q]
    BY <1>1, <2>1 DEF Asking
  <2>6. \A q \in Requests : Asking(q)' => log'[memory'[q]] = log[memory[q]]
    BY <1>6, <2>1, <2>2, <2>3, <2>5
  <2>7. QED
    BY <2>1, <2>4, <2>5, <2>6 DEF QuestionInv
<1>11. CASE UNCHANGED vars
  BY <1>11 DEF vars, QuestionInv, LogsTyped, Asking
<1>12. QED
  BY <1>4, <1>5, <1>7, <1>8, <1>9, <1>10, <1>11 DEF Next, Step

LEMMA QuestionsHold == Spec => []QuestionInv
<1>1. Init => QuestionInv
  BY DEF Init, QuestionInv, LogsTyped, Asking
<1>2. QED
  BY <1>1, StoreCorrect, QuestionStep, PTL DEF Spec

\* From the question to the reply nobody else writes to the memory of a session
\* that stays in the store, and folding never takes the question.
THEOREM QuestionsStay == Spec => []QuestionStaysLast
<1>1. QuestionInv => QuestionStaysLast
  BY DEF QuestionInv, QuestionStaysLast, Asking, EndsWith
<1>2. QED
  BY <1>1, QuestionsHold, PTL
-----------------------------------------------------------------------------
(* Replies and their questions.  The window that a fold has taken is put back  *)
(* later, so it has to be in order as well.                                   *)

Paired(turns) ==
    \A i \in DOMAIN turns :
        turns[i].kind = "answer" /\ i > 1 => turns[i - 1] = Says(turns[i].asked, "question")

PairsInv ==
    /\ \A m \in Requests : SessionOf[m] \notin evicted => Paired(log[m])
    /\ \A r \in Requests : pc[r] = "folding" /\ SessionOf[r] \notin evicted => Paired(recent[r])

LEMMA QuestionKeepsPairs ==
    ASSUME NEW turns \in Seq(MessageType), Paired(turns), NEW r \in Requests
    PROVE  Paired(Append(turns, Says(r, "question")))
<1>1. Says(r, "question") \in MessageType /\ Says(r, "question").kind = "question"
  BY SaysType DEF Says, Message
<1>2. QED
  BY <1>1 DEF Paired

LEMMA ReplyMakesAPair ==
    ASSUME NEW turns \in Seq(MessageType), Paired(turns), NEW r \in Requests,
           EndsWith(turns, Says(r, "question"))
    PROVE  Paired(Append(turns, Says(r, "answer")))
<1>1. Says(r, "answer") \in MessageType /\ Says(r, "answer").asked = r
  BY SaysType DEF Says, Message
<1> DEFINE m == Says(r, "answer")
           q == Says(r, "question")
<1> HIDE DEF m, q
<1>2. QED
  BY <1>1 DEF Paired, EndsWith, m

LEMMA WindowKeepsPairs ==
    ASSUME NEW turns \in Seq(MessageType), Paired(turns), CanFold(turns, VerbatimTurns)
    PROVE  Paired(Recent(turns, VerbatimTurns))
<1> DEFINE before == Len(turns) - VerbatimTurns
           window == SubSeq(turns, before + 1, Len(turns))
<1>1. before \in Nat /\ VerbatimTurns \in Nat \ {0} /\ before + VerbatimTurns = Len(turns)
  BY BoundsAssumption DEF CanFold
<1>2. Recent(turns, VerbatimTurns) = window
  BY DEF Recent
<1> HIDE DEF before
<1>3. DOMAIN window = 1..VerbatimTurns /\ \A i \in 1..VerbatimTurns : window[i] = turns[before + i]
  BY <1>1
<1> HIDE DEF window
<1>4. ASSUME NEW i \in 1..VerbatimTurns, turns[before + i].kind = "answer", i > 1
      PROVE  turns[before + (i - 1)] = Says(turns[before + i].asked, "question")
  <2>1. before + i \in DOMAIN turns /\ before + i > 1 /\ (before + i) - 1 = before + (i - 1)
    BY <1>1, <1>4
  <2>2. QED
    BY <1>4, <2>1 DEF Paired
<1>5. QED
  BY <1>1, <1>2, <1>3, <1>4 DEF Paired

LEMMA PairsStep ==
    StoreInv /\ QuestionInv /\ PairsInv /\ [Next]_vars => PairsInv'
<1> SUFFICES ASSUME StoreInv, QuestionInv, PairsInv, [Next]_vars
             PROVE  PairsInv'
  OBVIOUS
<1>1. /\ pc \in [Requests -> Phases] /\ memory \in [Requests -> Requests \cup {Nothing}]
      /\ log \in [Requests -> Seq(MessageType)] /\ recent \in [Requests -> Seq(MessageType)]
  BY DEF StoreInv, HandlesTyped, QuestionInv, LogsTyped
<1>2. \A q \in Requests : InTurn(q) \/ pc[q] = "waiting" =>
          memory[q] \in Requests /\ SessionOf[memory[q]] = SessionOf[q]
  BY <1>1 DEF StoreInv, HandlesAreCurrent, MemoriesHaveOwners, InTurn
\* A step that leaves the logs alone and starts no fold.
<1>3. ASSUME log' = log, recent' = recent, evicted \subseteq evicted',
             \A q \in Requests : pc'[q] = "folding" => pc[q] = "folding"
      PROVE  PairsInv'
  BY <1>3 DEF PairsInv
<1>4. ASSUME NEW r \in Requests,
             Get(r) \/ SetupFails(r) \/ TurnLock(r) \/ SkipFold(r) \/ Leave(r)
      PROVE  PairsInv'
  <2>1. /\ log' = log /\ recent' = recent /\ evicted \subseteq evicted'
        /\ \E phase \in Phases \ {"folding"} : pc' = [pc EXCEPT ![r] = phase]
    BY <1>4 DEF Get, SetupFails, TurnLock, SkipFold, Leave, GoTo, Phases, storeVars, handedVars,
                historyVars
  <2>2. QED
    BY <1>1, <1>3, <2>1
\* A step that writes to the memory of r.
<1>5. ASSUME NEW r \in Requests, memory[r] \in Requests, NEW turns \in Seq(MessageType),
             SessionOf[memory[r]] = SessionOf[r],
             SessionOf[r] \notin evicted => Paired(turns),
             log' = [log EXCEPT ![memory[r]] = turns], evicted' = evicted,
             \A q \in Requests : pc'[q] = "folding" => pc[q] = "folding" /\ recent'[q] = recent[q]
      PROVE  PairsInv'
  BY <1>1, <1>5 DEF PairsInv
<1>6. ASSUME NEW r \in Requests, Enter(r) PROVE PairsInv'
  <2>1. /\ pc[r] = "waiting" /\ pc' = [pc EXCEPT ![r] = "asked"]
        /\ log' = [log EXCEPT ![memory[r]] = Append(log[memory[r]], Says(r, "question"))]
        /\ evicted' = evicted /\ recent' = recent
    BY <1>6 DEF Enter, GoTo, historyVars
  <2>2. /\ Append(log[memory[r]], Says(r, "question")) \in Seq(MessageType)
        /\ SessionOf[r] \notin evicted => Paired(Append(log[memory[r]], Says(r, "question")))
    BY <1>1, <1>2, <2>1, SaysType, AppendEndsWith, QuestionKeepsPairs DEF PairsInv
  <2>3. QED
    BY <1>1, <1>2, <1>5, <2>1, <2>2
<1>7. ASSUME NEW r \in Requests, Reply(r) PROVE PairsInv'
  <2>1. /\ pc[r] = "working" /\ pc' = [pc EXCEPT ![r] = "leaving"]
        /\ log' = [log EXCEPT ![memory[r]] = Append(log[memory[r]], Says(r, "answer"))]
        /\ evicted' = evicted /\ recent' = recent
    BY <1>7 DEF Reply, GoTo, historyVars
  <2>2. InTurn(r) /\ (SessionOf[r] \notin evicted => EndsWith(log[memory[r]], Says(r, "question")))
    BY <2>1 DEF InTurn, QuestionInv, Asking
  <2>3. /\ Append(log[memory[r]], Says(r, "answer")) \in Seq(MessageType)
        /\ SessionOf[r] \notin evicted => Paired(Append(log[memory[r]], Says(r, "answer")))
    BY <1>1, <1>2, <2>2, SaysType, AppendEndsWith, ReplyMakesAPair DEF PairsInv
  <2>4. QED
    BY <1>1, <1>2, <1>5, <2>1, <2>2, <2>3
<1>8. ASSUME NEW r \in Requests, StartFold(r) PROVE PairsInv'
  <2>1. /\ pc[r] = "asked" /\ pc' = [pc EXCEPT ![r] = "folding"]
        /\ CanFold(log[memory[r]], VerbatimTurns)
        /\ recent' = [recent EXCEPT ![r] = Recent(log[memory[r]], VerbatimTurns)]
        /\ log' = log /\ evicted' = evicted
    BY <1>8 DEF StartFold, GoTo, historyVars
  <2>2. InTurn(r)
    BY <2>1 DEF InTurn
  <2>3. SessionOf[r] \notin evicted => Paired(Recent(log[memory[r]], VerbatimTurns))
    BY <1>1, <1>2, <2>1, <2>2, WindowKeepsPairs DEF PairsInv
  <2>4. QED
    BY <1>1, <2>1, <2>3 DEF PairsInv
<1>9. ASSUME NEW r \in Requests, EndFold(r) PROVE PairsInv'
  <2>1. /\ pc[r] = "folding" /\ pc' = [pc EXCEPT ![r] = "working"]
        /\ log' = [log EXCEPT ![memory[r]] = recent[r]]
        /\ recent' = [recent EXCEPT ![r] = <<>>] /\ evicted' = evicted
    BY <1>9 DEF EndFold, GoTo, historyVars
  <2>2. InTurn(r) /\ (SessionOf[r] \notin evicted => Paired(recent[r]))
    BY <2>1 DEF InTurn, PairsInv
  <2>3. QED
    BY <1>1, <1>2, <1>5, <2>1, <2>2
<1>10. CASE UNCHANGED vars
  BY <1>3, <1>10 DEF vars
<1>11. QED
  BY <1>4, <1>6, <1>7, <1>8, <1>9, <1>10 DEF Next, Step

\* In the memory of a session that stays in the store a reply stands directly
\* behind the question it answers, whoever else waited for the turn.
THEOREM RepliesPaired == Spec => []RepliesFollowQuestions
<1>1. Init => PairsInv
  BY DEF Init, PairsInv, Paired
<1>2. PairsInv => RepliesFollowQuestions
  BY DEF PairsInv, Paired, RepliesFollowQuestions
<1>3. QED
  BY <1>1, <1>2, StoreCorrect, QuestionsHold, PairsStep, PTL DEF Spec
-----------------------------------------------------------------------------
(* The LRU order.  The store's order is the order of the last uses, so the   *)
(* sessions that are cut off its front were used before those that stay.     *)

\* A set of numbers that is not empty has a least one: this is how the proofs
\* do without induction.
LEMMA LeastNumber ==
    ASSUME NEW T \in SUBSET Nat, T # {}
    PROVE  \E m \in T : \A k \in T : m <= k
<1> DEFINE R == OpToRel(<, Nat)
<1>1. IsWellFoundedOn(R, Nat)
  BY NatLessThanWellFounded
<1>2. \A k, m \in Nat : k < m => <<k, m>> \in R
  BY Zenon DEF OpToRel
<1> HIDE DEF R
<1>3. PICK m \in T : \A k \in T : ~(<<k, m>> \in R)
  BY <1>1, WFMin
<1>4. \A k \in T : ~(k < m)
  BY <1>2, <1>3
<1>5. \A k \in T : k \in Nat
  OBVIOUS
<1>6. QED
  BY <1>4, <1>5

IsLastUse(uses, s, i) == uses[i] = s /\ \A j \in DOMAIN uses : uses[j] = s => j <= i

LEMMA LastUseExists ==
    ASSUME NEW uses \in Seq(SessionIds), NEW s, s \in Members(uses)
    PROVE  \E i \in DOMAIN uses : IsLastUse(uses, s, i)
<1> DEFINE T == {k \in Nat : \A j \in DOMAIN uses : uses[j] = s => j <= k}
<1>1. T \in SUBSET Nat /\ Len(uses) \in T
  OBVIOUS
<1>2. PICK m \in T : \A k \in T : m <= k
  BY <1>1, LeastNumber
<1>3. PICK i \in DOMAIN uses : uses[i] = s
  BY DEF Members
<1>4. m \in Nat /\ i <= m /\ i \in Nat \ {0}
  BY <1>2, <1>3
<1>5. m - 1 \in Nat /\ m - 1 \notin T
  BY <1>2, <1>4
<1>6. PICK j \in DOMAIN uses : uses[j] = s /\ ~(j <= m - 1)
  BY <1>5
<1>7. j = m
  BY <1>2, <1>4, <1>6
<1>8. QED
  BY <1>2, <1>6, <1>7 DEF IsLastUse

LEMMA LastUseIs ==
    ASSUME NEW uses \in Seq(SessionIds), NEW s, NEW i \in DOMAIN uses, IsLastUse(uses, s, i)
    PROVE  LastUse(uses, s) = i
<1> DEFINE l == CHOOSE k \in DOMAIN uses : IsLastUse(uses, s, k)
<1>1. l \in DOMAIN uses /\ IsLastUse(uses, s, l)
  OBVIOUS
<1>2. LastUse(uses, s) = l
  BY DEF LastUse, IsLastUse
<1> HIDE DEF l
<1>3. l = i
  BY <1>1 DEF IsLastUse
<1>4. QED
  BY <1>2, <1>3

\* Using s makes its last use the latest and changes no other.
LEMMA LastUseAfter ==
    ASSUME NEW uses \in Seq(SessionIds), NEW s \in SessionIds
    PROVE  /\ LastUse(Append(uses, s), s) = Len(uses) + 1
           /\ \A t : t # s => LastUse(Append(uses, s), t) = LastUse(uses, t)
           /\ \A t : LastUse(uses, t) \in 0..Len(uses)
<1> DEFINE after == Append(uses, s)
<1>1. /\ after \in Seq(SessionIds) /\ DOMAIN after = 1..(Len(uses) + 1)
      /\ after[Len(uses) + 1] = s /\ \A i \in DOMAIN uses : after[i] = uses[i]
      /\ DOMAIN uses = 1..Len(uses) /\ Len(uses) \in Nat
  OBVIOUS
<1> HIDE DEF after
<1>2. LastUse(after, s) = Len(uses) + 1
  <2>1. IsLastUse(after, s, Len(uses) + 1) /\ Len(uses) + 1 \in DOMAIN after
    BY <1>1 DEF IsLastUse
  <2>2. QED
    BY <1>1, <2>1, LastUseIs
<1>3. ASSUME NEW t PROVE /\ t # s => LastUse(after, t) = LastUse(uses, t)
                         /\ LastUse(uses, t) \in 0..Len(uses)
  <2>1. CASE t \in Members(uses)
    <3>1. PICK i \in DOMAIN uses : IsLastUse(uses, t, i)
      BY <2>1, LastUseExists
    <3>2. LastUse(uses, t) = i
      BY <3>1, LastUseIs
    <3>3. ASSUME t # s PROVE LastUse(after, t) = i
      <4>1. IsLastUse(after, t, i) /\ i \in DOMAIN after
        BY <1>1, <3>1, <3>3 DEF IsLastUse
      <4>2. QED
        BY <1>1, <4>1, LastUseIs
    <3>4. QED
      BY <1>1, <3>2, <3>3
  <2>2. CASE t \notin Members(uses)
    <3>1. LastUse(uses, t) = 0
      BY <2>2 DEF LastUse, Members
    <3>2. ASSUME t # s PROVE LastUse(after, t) = 0
      BY <1>1, <2>2, <3>2 DEF LastUse, Members
    <3>3. QED
      BY <1>1, <3>1, <3>2
  <2>3. QED
    BY <2>1, <2>2
<1>4. QED
  BY <1>2, <1>3 DEF after

InUseOrder(sessions, uses) ==
    \A i, j \in DOMAIN sessions :
        i < j => LastUse(uses, sessions[i]) < LastUse(uses, sessions[j])

\* The session that was used comes last, and the others keep their order.
LEMMA MovedToEndIs ==
    ASSUME NEW sessions \in Seq(SessionIds), NEW s \in SessionIds,
           NEW uses \in Seq(SessionIds), InUseOrder(sessions, uses)
    PROVE  LET moved == MovedToEnd(sessions, s)
           IN  /\ moved \in Seq(SessionIds)
               /\ InUseOrder(moved, Append(uses, s))
               /\ Members(moved) = Members(sessions) \cup {s}
               /\ Len(moved) <= Len(sessions) + 1
<1>1. \E rest \in Seq(SessionIds) :
          /\ MovedToEnd(sessions, s) = Append(rest, s)
          /\ InUseOrder(rest, uses)
          /\ Members(rest) = Members(sessions) \ {s}
          /\ Len(rest) <= Len(sessions)
  <2>1. CASE s \notin Members(sessions)
    BY <2>1 DEF MovedToEnd
  <2>2. CASE s \in Members(sessions)
    <3> DEFINE at   == CHOOSE i \in DOMAIN sessions : sessions[i] = s
               n    == Len(sessions)
               rest == SubSeq(sessions, 1, at - 1) \o SubSeq(sessions, at + 1, n)
               old(k) == IF k < at THEN k ELSE k + 1
    <3>1. MovedToEnd(sessions, s) = Append(rest, s)
      BY <2>2 DEF MovedToEnd
    <3>2. at \in 1..n /\ sessions[at] = s /\ n \in Nat /\ DOMAIN sessions = 1..n
      BY <2>2 DEF Members
    <3> HIDE DEF at
    <3>3. /\ rest \in Seq(SessionIds) /\ Len(rest) = n - 1
          /\ \A k \in 1..(n - 1) : rest[k] = sessions[old(k)]
      <4> DEFINE front == SubSeq(sessions, 1, at - 1)
                 back  == SubSeq(sessions, at + 1, n)
      <4>1. /\ front \in Seq(SessionIds) /\ Len(front) = at - 1
            /\ \A k \in 1..(at - 1) : front[k] = sessions[k]
        BY <3>2
      <4>2. /\ back \in Seq(SessionIds) /\ Len(back) = n - at
            /\ \A k \in 1..(n - at) : back[k] = sessions[at + k]
        <5>1. back \in Seq(SessionIds) /\ Len(back) = n - at
          <6>1. /\ back \in Seq(SessionIds)
                /\ Len(back) = IF at + 1 <= n THEN n - (at + 1) + 1 ELSE 0
            BY <3>2, SubSeqProperties
          <6> HIDE DEF back, n
          <6>2. QED
            BY <3>2, <6>1
        <5>2. ASSUME NEW k \in 1..(n - at) PROVE back[k] = sessions[at + k]
          <6>1. k \in 1..(n - (at + 1) + 1) /\ (at + 1) + k - 1 = at + k
            BY <3>2
          <6>2. QED
            BY <3>2, <6>1
        <5>3. QED
          BY <5>1, <5>2
      <4> HIDE DEF front, back
      <4>3. rest = front \o back
        BY DEF rest, front, back
      <4> HIDE DEF rest
      <4>4. rest \in Seq(SessionIds) /\ Len(rest) = n - 1
        <5>1. rest \in Seq(SessionIds) /\ Len(rest) = Len(front) + Len(back)
          BY <4>1, <4>2, <4>3, ConcatProperties
        <5>2. (at - 1) + (n - at) = n - 1
          BY <3>2
        <5>3. QED
          BY <4>1, <4>2, <5>1, <5>2
      <4>5. ASSUME NEW k \in 1..(n - 1) PROVE rest[k] = sessions[old(k)]
        <5>1. CASE k < at
          <6>1. k \in 1..(at - 1)
            BY <3>2, <5>1
          <6>2. QED
            BY <3>2, <4>1, <4>2, <4>3, <5>1, <6>1
        <5>2. CASE ~(k < at)
          <6>1. k - (at - 1) \in 1..(n - at) /\ at + (k - (at - 1)) = k + 1
            BY <3>2, <5>2
          <6>2. rest[k] = back[k - (at - 1)]
            BY <3>2, <4>1, <4>2, <4>3, <5>2
          <6>3. QED
            BY <4>2, <5>2, <6>1, <6>2
        <5>3. QED
          BY <5>1, <5>2
      <4>6. QED
        BY <4>4, <4>5
    <3> HIDE DEF rest
    <3>4. DOMAIN rest = 1..(n - 1)
      BY <3>3
    <3>5. \A k \in 1..(n - 1) : old(k) \in 1..n /\ old(k) # at
      BY <3>2
    <3>6. InUseOrder(rest, uses)
      <4>1. \A i, j \in 1..(n - 1) : i < j => old(i) < old(j)
        BY <3>2
      <4> HIDE DEF old
      <4>2. QED
        BY <3>2, <3>3, <3>4, <3>5, <4>1 DEF InUseOrder
    <3>7. \A i \in 1..n : sessions[i] = s => i = at
      <4>1. ASSUME NEW i \in 1..n, NEW j \in 1..n, sessions[i] = sessions[j], i < j PROVE FALSE
        <5>1. LastUse(uses, sessions[i]) < LastUse(uses, sessions[j])
          BY <3>2, <4>1 DEF InUseOrder
        <5>2. LastUse(uses, sessions[i]) \in Nat
          BY LastUseAfter
        <5>3. QED
          BY <4>1, <5>1, <5>2
      <4>2. QED
        BY <3>2, <4>1
    <3>8. \A i \in 1..n : i # at => \E k \in 1..(n - 1) : old(k) = i
      <4>1. ASSUME NEW i \in 1..n, i # at PROVE \E k \in 1..(n - 1) : old(k) = i
        <5>1. CASE i < at
          <6>1. i \in 1..(n - 1) /\ old(i) = i
            BY <3>2, <5>1
          <6>2. QED
            BY <6>1
        <5>2. CASE i > at
          <6>1. i - 1 \in 1..(n - 1) /\ old(i - 1) = i
            BY <3>2, <4>1, <5>2
          <6>2. QED
            BY <6>1
        <5>3. QED
          BY <3>2, <4>1, <5>1, <5>2
      <4>2. QED
        BY <4>1
    <3>9. Members(rest) = Members(sessions) \ {s}
      <4> HIDE DEF old
      <4>1. Members(rest) \subseteq Members(sessions) \ {s}
        BY <3>2, <3>3, <3>4, <3>5, <3>7 DEF Members
      <4>2. ASSUME NEW x \in Members(sessions) \ {s} PROVE x \in Members(rest)
        <5>1. PICK i \in 1..n : sessions[i] = x /\ i # at
          BY <3>2, <4>2 DEF Members
        <5>2. PICK k \in 1..(n - 1) : old(k) = i
          BY <3>8, <5>1
        <5>3. QED
          BY <3>3, <3>4, <5>1, <5>2 DEF Members
      <4>3. QED
        BY <4>1, <4>2
    <3>10. QED
      BY <3>1, <3>2, <3>3, <3>6, <3>9
  <2>3. QED
    BY <2>1, <2>2
<1>2. PICK rest \in Seq(SessionIds) :
          /\ MovedToEnd(sessions, s) = Append(rest, s)
          /\ InUseOrder(rest, uses)
          /\ Members(rest) = Members(sessions) \ {s}
          /\ Len(rest) <= Len(sessions)
  BY <1>1
<1> DEFINE moved == Append(rest, s)
<1>3. /\ moved \in Seq(SessionIds) /\ Len(moved) = Len(rest) + 1
      /\ DOMAIN moved = 1..(Len(rest) + 1) /\ moved[Len(rest) + 1] = s
      /\ DOMAIN rest = 1..Len(rest) /\ Len(rest) \in Nat
      /\ \A i \in 1..Len(rest) : moved[i] = rest[i]
  OBVIOUS
<1> HIDE DEF moved
<1>4. \A i \in 1..Len(rest) : rest[i] # s
  BY <1>2, <1>3 DEF Members
<1>5. Members(moved) = Members(sessions) \cup {s}
  <2>1. Members(moved) = Members(rest) \cup {s}
    BY <1>3 DEF Members
  <2>2. QED
    BY <1>2, <2>1
<1>6. InUseOrder(moved, Append(uses, s))
  <2> DEFINE after == Append(uses, s)
  <2>1. \A i \in 1..Len(rest) : /\ LastUse(after, moved[i]) = LastUse(uses, rest[i])
                                /\ LastUse(uses, rest[i]) \in 0..Len(uses)
    BY <1>3, <1>4, LastUseAfter
  <2>2. LastUse(after, moved[Len(rest) + 1]) = Len(uses) + 1 /\ Len(uses) \in Nat
    BY <1>3, LastUseAfter
  <2> HIDE DEF after
  <2>3. ASSUME NEW i \in DOMAIN moved, NEW j \in DOMAIN moved, i < j
        PROVE  LastUse(after, moved[i]) < LastUse(after, moved[j])
    <3>1. i \in 1..Len(rest)
      BY <1>3, <2>3
    <3>2. CASE j = Len(rest) + 1
      BY <2>1, <2>2, <3>1, <3>2
    <3>3. CASE j # Len(rest) + 1
      <4>1. j \in 1..Len(rest)
        BY <1>3, <3>3
      <4>2. QED
        BY <1>2, <1>3, <2>1, <2>3, <3>1, <4>1 DEF InUseOrder
    <3>4. QED
      BY <3>2, <3>3
  <2>4. QED
    BY <2>3 DEF InUseOrder, after
<1>7. QED
  BY <1>2, <1>3, <1>5, <1>6 DEF moved

\* What is cut off was used before everything that stays.
LEMMA TrimmedIs ==
    ASSUME NEW sessions \in Seq(SessionIds), NEW uses \in Seq(SessionIds),
           InUseOrder(sessions, uses)
    PROVE  LET kept == Trimmed(sessions)
           IN  /\ kept \in Seq(SessionIds)
               /\ InUseOrder(kept, uses)
               /\ Len(kept) <= MaxSessions
               /\ Members(kept) \subseteq Members(sessions)
               /\ \A s \in Members(sessions) \ Members(kept) :
                     /\ Len(sessions) > MaxSessions
                     /\ \A t \in Members(kept) : LastUse(uses, s) < LastUse(uses, t)
<1>1. CASE Len(sessions) <= MaxSessions
  <2>1. Trimmed(sessions) = sessions
    BY <1>1, BoundsAssumption DEF Trimmed
  <2>2. QED
    BY <1>1, <2>1
<1>2. CASE Len(sessions) > MaxSessions
  <2> DEFINE n   == Len(sessions)
             cut == n - MaxSessions
             kept == SubSeq(sessions, cut + 1, n)
  <2>1. Trimmed(sessions) = kept
    BY <1>2 DEF Trimmed
  <2>2. n \in Nat /\ cut \in Nat /\ n = cut + MaxSessions /\ MaxSessions \in Nat
    BY <1>2, BoundsAssumption
  <2> HIDE DEF cut
  <2>3. /\ kept \in Seq(SessionIds) /\ DOMAIN kept = 1..MaxSessions /\ Len(kept) = MaxSessions
        /\ \A i \in 1..MaxSessions : kept[i] = sessions[cut + i]
        /\ DOMAIN sessions = 1..n
    <3>1. n \in 0..n /\ cut + 1 \in 1..(n + 1) /\ n = Len(sessions)
      BY <2>2
    <3>2. kept \in Seq(SessionIds) /\ Len(kept) = MaxSessions
      BY <2>2, <3>1
    <3>3. ASSUME NEW i \in 1..MaxSessions PROVE kept[i] = sessions[cut + i]
      <4>1. i \in 1..(n - (cut + 1) + 1) /\ (cut + 1) + i - 1 = cut + i
        BY <2>2
      <4>2. QED
        BY <2>2, <4>1
    <3>4. QED
      BY <3>2, <3>3
  <2> HIDE DEF kept, n
  <2>4. \A i \in 1..MaxSessions : cut + i \in 1..n
    BY <2>2
  <2>5. InUseOrder(kept, uses) /\ Members(kept) \subseteq Members(sessions)
    <3>1. \A i, j \in 1..MaxSessions : i < j => cut + i < cut + j
      BY <2>2
    <3>2. InUseOrder(kept, uses)
      BY <2>3, <2>4, <3>1 DEF InUseOrder
    <3>3. QED
      BY <2>3, <2>4, <3>2 DEF Members
  <2>6. ASSUME NEW s \in Members(sessions) \ Members(kept), NEW t \in Members(kept)
        PROVE  LastUse(uses, s) < LastUse(uses, t)
    <3>1. PICK i \in 1..n : sessions[i] = s
      BY <2>3, <2>6 DEF Members
    <3>2. PICK j \in 1..MaxSessions : kept[j] = t
      BY <2>3, <2>6 DEF Members
    <3>3. i <= cut
      <4>1. ASSUME i > cut PROVE FALSE
        <5>1. i - cut \in 1..MaxSessions /\ cut + (i - cut) = i
          BY <2>2, <4>1
        <5>2. kept[i - cut] = s
          BY <2>3, <3>1, <5>1
        <5>3. QED
          BY <2>3, <2>6, <5>1, <5>2 DEF Members
      <4>2. QED
        BY <2>2, <4>1
    <3>4. i < cut + j /\ cut + j \in 1..n /\ sessions[cut + j] = t
      BY <2>2, <2>3, <2>4, <3>2, <3>3
    <3>5. QED
      BY <2>3, <3>1, <3>4 DEF InUseOrder
  <2>7. QED
    BY <1>2, <2>1, <2>2, <2>3, <2>5, <2>6
<1>3. QED
  BY <1>1, <1>2, BoundsAssumption

OrderInv == /\ order \in Seq(SessionIds) /\ used \in Seq(SessionIds)
            /\ evicted \in SUBSET SessionIds
            /\ InUseOrder(order, used)
            /\ Len(order) <= MaxSessions

LEMMA GetKeepsOrder ==
    ASSUME OrderInv, NEW r \in Requests, Get(r)
    PROVE  /\ OrderInv'
           /\ \A s \in Members(order) : s \notin Members(order') =>
                 /\ Len(order) = MaxSessions
                 /\ \A t \in Members(order') : LastUse(used', s) < LastUse(used', t)
<1> DEFINE s     == SessionOf[r]
           moved == MovedToEnd(order, s)
           kept  == Trimmed(moved)
<1>1. /\ order' = kept /\ used' = Append(used, s)
      /\ evicted' = evicted \cup ((Members(order) \cup {s}) \ Members(kept))
  BY DEF Get
<1>2. s \in SessionIds /\ Members(order) \subseteq SessionIds
  BY SessionAssumption DEF OrderInv, Members
<1>3. /\ moved \in Seq(SessionIds) /\ InUseOrder(moved, used')
      /\ Members(moved) = Members(order) \cup {s} /\ Len(moved) <= Len(order) + 1
  BY <1>1, <1>2, MovedToEndIs DEF OrderInv
<1>4. used' \in Seq(SessionIds)
  BY <1>1, <1>2 DEF OrderInv
<1> HIDE DEF moved, s
<1>5. /\ kept \in Seq(SessionIds) /\ InUseOrder(kept, used') /\ Len(kept) <= MaxSessions
      /\ \A x \in Members(moved) \ Members(kept) :
            /\ Len(moved) > MaxSessions
            /\ \A t \in Members(kept) : LastUse(used', x) < LastUse(used', t)
  BY <1>3, <1>4, TrimmedIs
<1> HIDE DEF kept
<1>6. OrderInv'
  BY <1>1, <1>2, <1>4, <1>5 DEF OrderInv
<1>7. ASSUME NEW x \in Members(order), x \notin Members(order')
      PROVE  /\ Len(order) = MaxSessions
             /\ \A t \in Members(order') : LastUse(used', x) < LastUse(used', t)
  <2>1. x \in Members(moved) \ Members(kept)
    BY <1>1, <1>3, <1>7
  <2>2. Len(order) \in Nat /\ Len(moved) \in Nat /\ Len(order) <= MaxSessions
    BY <1>3 DEF OrderInv
  <2>3. QED
    BY <1>1, <1>3, <1>5, <2>1, <2>2, BoundsAssumption
<1>8. QED
  BY <1>6, <1>7

LEMMA OthersKeepOrder ==
    ASSUME [Next]_vars, ~(\E r \in Requests : Get(r))
    PROVE  UNCHANGED <<order, used, evicted>>
BY DEF Next, Step, SetupFails, TurnLock, Enter, SkipFold, StartFold, EndFold, Reply, Leave,
       storeVars, historyVars, vars

LEMMA OrderCorrect == Spec => []OrderInv
<1>1. Init => OrderInv
  BY BoundsAssumption DEF Init, OrderInv, InUseOrder
<1>2. OrderInv /\ [Next]_vars => OrderInv'
  <2>1. ASSUME OrderInv, UNCHANGED <<order, used, evicted>> PROVE OrderInv'
    BY <2>1 DEF OrderInv, InUseOrder
  <2>2. QED
    BY <2>1, GetKeepsOrder, OthersKeepOrder
<1>3. QED
  BY <1>1, <1>2, PTL DEF Spec

\* An eviction takes the session that was used longest ago, and happens only
\* when the store is full.
THEOREM LeastRecentlyUsed == Spec => LeastRecentlyUsedGoes
<1>1. OrderInv /\ [Next]_vars =>
          [\A s \in Members(order) :
              s \notin Members(order') =>
                  /\ Len(order) = MaxSessions
                  /\ \A t \in Members(order') : LastUse(used', s) < LastUse(used', t)]_vars
  BY GetKeepsOrder, OthersKeepOrder
<1>2. QED
  BY <1>1, OrderCorrect, PTL DEF Spec, LeastRecentlyUsedGoes

\* Every variable has its type, and a worker has a memory once it is past get()
\* and a lock once it is past turn_lock().
THEOREM TypesCorrect == Spec => []TypeOK
<1>1. StoreInv /\ QuestionInv /\ OrderInv => TypeOK
  BY DEF StoreInv, HandlesTyped, HandlesAreCurrent, HasLock, QuestionInv, LogsTyped,
         OrderInv, TypeOK
<1>2. QED
  BY <1>1, StoreCorrect, QuestionsHold, OrderCorrect, PTL
-----------------------------------------------------------------------------
(* SessionTurns implements Conversations.  What the store's lock and memory of *)
(* a session say is what its conversation is.                                  *)

\* Nobody has been near the memory and the locks of a request that is not there yet.
LocksHaveOwners ==
    /\ \A s \in SessionIds : lockOf[s] # Nothing =>
          SessionOf[lockOf[s][1]] = s /\ pc[lockOf[s][1]] # "new"
    /\ \A r \in Requests : lock[r] # Nothing =>
          SessionOf[lock[r][1]] = SessionOf[r] /\ pc[lock[r][1]] # "new"

NewMemoriesAreEmpty == \A r \in Requests : pc[r] = "new" => log[r] = <<>>

\* A lock is held only by a worker in its turn.
HoldersAreInTurn ==
    \A l \in Locks : holder[l] # Nothing => InTurn(holder[l]) /\ lock[holder[l]] = l

LocksComeWithMemories ==
    \A s \in SessionIds \ evicted : lockOf[s] # Nothing => memoryOf[s] # Nothing

\* The window a fold has taken is the end of what the memory still says.
IsEndOf(window, turns) ==
    \E first \in 1..Len(turns) : window = SubSeq(turns, first, Len(turns))

WindowsAreCurrent ==
    \A r \in Requests : pc[r] = "folding" /\ SessionOf[r] \notin evicted =>
        IsEndOf(recent[r], log[memory[r]])

ConversationInv == /\ LocksHaveOwners /\ NewMemoriesAreEmpty /\ HoldersAreInTurn
                   /\ LocksComeWithMemories /\ WindowsAreCurrent
-----------------------------------------------------------------------------
LEMMA RecentIsEnd ==
    ASSUME NEW turns \in Seq(MessageType), CanFold(turns, VerbatimTurns)
    PROVE  IsEndOf(Recent(turns, VerbatimTurns), turns)
<1> DEFINE first == Len(turns) - VerbatimTurns + 1
<1>1. first \in 1..Len(turns)
  BY BoundsAssumption DEF CanFold
<1>2. Recent(turns, VerbatimTurns) = SubSeq(turns, first, Len(turns))
  BY DEF Recent
<1>3. QED
  BY <1>1, <1>2 DEF IsEndOf

\* A request that holds a lock or waits for it stands for its session.
LEMMA HandlesOf ==
    ASSUME StoreInv, NEW r \in Requests, HasLock(r)
    PROVE  /\ lock[r] \in Locks /\ memory[r] \in Requests
           /\ SessionOf[r] \in SessionIds /\ SessionOf[memory[r]] = SessionOf[r]
           /\ SessionOf[r] \notin evicted =>
                 /\ lock[r] = lockOf[SessionOf[r]] /\ memory[r] = memoryOf[SessionOf[r]]
                 /\ lock[r] # Nothing /\ memory[r] # Nothing
<1>1. lock[r] # Nothing /\ memory[r] # Nothing
  BY DEF StoreInv, HandlesAreCurrent, HasLock, InTurn
<1>2. QED
  BY <1>1, SessionAssumption DEF StoreInv, HandlesTyped, HandlesAreCurrent, MemoriesHaveOwners

\* TurnLock gives a session that was never evicted no new lock.
LEMMA TurnLockFinds ==
    ASSUME StoreInv, NEW r \in Requests, TurnLock(r), SessionOf[r] \notin evicted
    PROVE  lockOf' = lockOf
<1> DEFINE s == SessionOf[r]
<1>1. s \in SessionIds
  BY SessionAssumption
<1>2. memory[r] # Nothing /\ memory[r] = memoryOf[s]
  BY DEF TurnLock, StoreInv, HandlesAreCurrent
<1>3. lockOf[s] # Nothing
  BY <1>1, <1>2 DEF StoreInv, HandlesAreCurrent
<1>4. LockFor(r, lockOf[s]) = lockOf[s]
  BY <1>3 DEF LockFor
<1>5. QED
  BY <1>1, <1>4 DEF TurnLock, StoreInv, HandlesTyped

LEMMA ConversationInit == Init => ConversationInv
BY DEF Init, ConversationInv, LocksHaveOwners, NewMemoriesAreEmpty, HoldersAreInTurn,
       LocksComeWithMemories, WindowsAreCurrent

LEMMA GetKeepsConversations ==
    ASSUME StoreInv, QuestionInv, ConversationInv, NEW r \in Requests, Get(r)
    PROVE  ConversationInv'
<1> DEFINE s     == SessionOf[r]
           fresh == memoryOf[s] = Nothing
           found == MemoryFor(r, memoryOf[s])
           kept  == Trimmed(MovedToEnd(order, s))
           gone  == (Members(order) \cup {s}) \ Members(kept)
<1>1. /\ pc[r] = "new" /\ pc' = [pc EXCEPT ![r] = "ready"]
      /\ memory' = [memory EXCEPT ![r] = found]
      /\ evicted' = evicted \cup gone
      /\ holder' = holder /\ lock' = lock /\ log' = log /\ recent' = recent
  BY DEF Get, GoTo
<1>2. memoryOf' = [t \in SessionIds |-> IF t \in gone THEN Nothing
                                        ELSE IF t = s THEN found ELSE memoryOf[t]]
  BY DEF Get
<1>3. lockOf' = [t \in SessionIds |-> IF t \in gone THEN Nothing
                                      ELSE IF t = s /\ fresh THEN <<r, "get">>
                                      ELSE lockOf[t]]
  BY DEF Get
<1>4. s \in SessionIds /\ found # Nothing /\ <<r, "get">>[1] = r
  BY SessionAssumption, NothingAssumption DEF MemoryFor
<1> HIDE DEF fresh, found, kept, gone
<1>5. \A q \in Requests : /\ pc[q] # "new" => pc'[q] # "new"
                          /\ pc'[q] = "new" => pc[q] = "new"
                          /\ InTurn(q) <=> InTurn(q)'
                          /\ pc'[q] = "folding" => q # r /\ pc[q] = "folding"
  BY <1>1 DEF StoreInv, HandlesTyped, InTurn
<1>6. pc'[r] # "new"
  BY <1>1 DEF StoreInv, HandlesTyped
<1>7. \A l \in Locks : l[1] \in Requests
  BY DEF Locks
<1>8. LocksHaveOwners'
  <2>1. \A t \in SessionIds : lockOf'[t] # Nothing =>
           SessionOf[lockOf'[t][1]] = t /\ pc'[lockOf'[t][1]] # "new"
    BY <1>3, <1>4, <1>5, <1>6, <1>7 DEF ConversationInv, LocksHaveOwners, StoreInv, HandlesTyped
  <2>2. \A q \in Requests : lock'[q] # Nothing =>
           SessionOf[lock'[q][1]] = SessionOf[q] /\ pc'[lock'[q][1]] # "new"
    BY <1>1, <1>5, <1>7 DEF ConversationInv, LocksHaveOwners, StoreInv, HandlesTyped
  <2>3. QED
    BY <2>1, <2>2 DEF LocksHaveOwners
<1>9. NewMemoriesAreEmpty' /\ HoldersAreInTurn'
  BY <1>1, <1>5 DEF ConversationInv, NewMemoriesAreEmpty, HoldersAreInTurn, StoreInv, HandlesTyped
<1>10. LocksComeWithMemories'
  BY <1>1, <1>2, <1>3, <1>4 DEF ConversationInv, LocksComeWithMemories
<1>11. WindowsAreCurrent'
  BY <1>1, <1>5 DEF ConversationInv, WindowsAreCurrent
<1>12. QED
  BY <1>8, <1>9, <1>10, <1>11 DEF ConversationInv

LEMMA TurnLockKeepsConversations ==
    ASSUME StoreInv, QuestionInv, ConversationInv, NEW r \in Requests, TurnLock(r)
    PROVE  ConversationInv'
<1> DEFINE s     == SessionOf[r]
           given == LockFor(r, lockOf[s])
<1>1. /\ pc[r] = "ready" /\ pc' = [pc EXCEPT ![r] = "waiting"]
      /\ lock' = [lock EXCEPT ![r] = given]
      /\ lockOf' = [lockOf EXCEPT ![s] = given]
      /\ memoryOf' = memoryOf /\ memory' = memory /\ holder' = holder
      /\ evicted' = evicted /\ log' = log /\ recent' = recent
  BY DEF TurnLock, GoTo, historyVars
<1>2. s \in SessionIds
  BY SessionAssumption
<1>3. \A q \in Requests : /\ pc[q] = "new" <=> pc'[q] = "new"
                          /\ InTurn(q) <=> InTurn(q)'
                          /\ pc'[q] = "folding" => pc[q] = "folding"
  BY <1>1 DEF StoreInv, HandlesTyped, InTurn
<1>4. SessionOf[given[1]] = s /\ pc[given[1]] # "new" /\ given[1] \in Requests
  <2>1. CASE lockOf[s] = Nothing
    BY <1>1, <2>1 DEF LockFor
  <2>2. CASE lockOf[s] # Nothing
    BY <1>2, <2>2 DEF LockFor, ConversationInv, LocksHaveOwners, StoreInv, HandlesTyped, Locks
  <2>3. QED
    BY <2>1, <2>2
<1>5. \A l \in Locks : l[1] \in Requests
  BY DEF Locks
<1> HIDE DEF given
<1>6. LocksHaveOwners'
  BY <1>1, <1>2, <1>3, <1>4, <1>5 DEF ConversationInv, LocksHaveOwners, StoreInv, HandlesTyped
<1>7. NewMemoriesAreEmpty' /\ WindowsAreCurrent'
  BY <1>1, <1>3 DEF ConversationInv, NewMemoriesAreEmpty, WindowsAreCurrent
<1>8. HoldersAreInTurn'
  <2>1. ~InTurn(r)
    BY <1>1 DEF InTurn
  <2>2. QED
    BY <1>1, <1>3, <2>1 DEF ConversationInv, HoldersAreInTurn, StoreInv, HandlesTyped
<1>9. LocksComeWithMemories'
  <2>1. s \notin evicted => lockOf' = lockOf
    BY TurnLockFinds
  <2>2. QED
    BY <1>1, <1>2, <2>1 DEF ConversationInv, LocksComeWithMemories, StoreInv, HandlesTyped
<1>10. QED
  BY <1>6, <1>7, <1>8, <1>9 DEF ConversationInv

\* A step that hands nobody anything, moves r on and writes at most to its own memory.
LEMMA WorkKeepsConversations ==
    ASSUME StoreInv, StoreInv', QuestionInv, ConversationInv, NEW r \in Requests,
           SetupFails(r) \/ Enter(r) \/ SkipFold(r) \/ StartFold(r) \/ EndFold(r)
               \/ Reply(r) \/ Leave(r)
    PROVE  ConversationInv'
<1>1. /\ lockOf' = lockOf /\ lock' = lock /\ memoryOf' = memoryOf /\ memory' = memory
      /\ evicted' = evicted
      /\ \E phase \in Phases \ {"new"} : pc' = [pc EXCEPT ![r] = phase]
      /\ pc[r] # "new"
  BY DEF SetupFails, Enter, SkipFold, StartFold, EndFold, Reply, Leave, GoTo, Phases,
         storeVars, handedVars, historyVars
<1>2. \A q \in Requests : pc[q] = "new" <=> pc'[q] = "new"
  BY <1>1 DEF StoreInv, HandlesTyped
<1>3. \A q \in Requests \ {r} : pc'[q] = pc[q] /\ (InTurn(q)' <=> InTurn(q))
  BY <1>1 DEF StoreInv, HandlesTyped, InTurn
<1>4. LocksHaveOwners' /\ LocksComeWithMemories'
  <2>1. \A l \in Locks : l[1] \in Requests
    BY DEF Locks
  <2>2. QED
    BY <1>1, <1>2, <2>1 DEF ConversationInv, LocksHaveOwners, LocksComeWithMemories,
                            StoreInv, HandlesTyped
<1>5. /\ log' = log \/ (HasLock(r) /\ \E turns : log' = [log EXCEPT ![memory[r]] = turns])
      /\ \A q \in Requests \ {r} : recent'[q] = recent[q]
  BY DEF SetupFails, Enter, SkipFold, StartFold, EndFold, Reply, Leave, HasLock, InTurn,
         QuestionInv, LogsTyped
<1>6. NewMemoriesAreEmpty'
  <2>1. HasLock(r) => memory[r] \in Requests /\ pc[memory[r]] # "new"
    BY HandlesOf DEF StoreInv, MemoriesHaveOwners, HandlesAreCurrent, HasLock, InTurn
  <2>2. QED
    BY <1>2, <1>5, <2>1 DEF ConversationInv, NewMemoriesAreEmpty, QuestionInv, LogsTyped
<1>7. HoldersAreInTurn'
  <2>1. CASE Enter(r)
    <3>1. /\ holder' = [holder EXCEPT ![lock[r]] = r] /\ pc[r] = "waiting"
          /\ pc' = [pc EXCEPT ![r] = "asked"]
      BY <2>1 DEF Enter, GoTo
    <3>2. InTurn(r)' /\ ~InTurn(r)
      BY <3>1 DEF InTurn, StoreInv, HandlesTyped
    <3>3. QED
      BY <1>1, <1>3, <3>1, <3>2 DEF ConversationInv, HoldersAreInTurn, StoreInv, HandlesTyped
  <2>2. CASE Leave(r)
    <3>1. holder' = [holder EXCEPT ![lock[r]] = Nothing]
      BY <2>2 DEF Leave, Released
    <3>2. \A l \in Locks : holder'[l] # Nothing => holder'[l] = holder[l] /\ holder[l] # r
      BY <3>1 DEF ConversationInv, HoldersAreInTurn, StoreInv, HandlesTyped
    <3>3. QED
      BY <1>1, <1>3, <3>2 DEF ConversationInv, HoldersAreInTurn, StoreInv, HandlesTyped
  <2>3. CASE SetupFails(r) \/ SkipFold(r) \/ StartFold(r) \/ EndFold(r) \/ Reply(r)
    <3>1. holder' = holder /\ (InTurn(r) => InTurn(r)')
      BY <2>3 DEF SetupFails, SkipFold, StartFold, EndFold, Reply, GoTo, InTurn, StoreInv, HandlesTyped
    <3>2. QED
      BY <1>1, <1>3, <3>1 DEF ConversationInv, HoldersAreInTurn, StoreInv, HandlesTyped
  <2>4. QED
    BY <2>1, <2>2, <2>3
<1>8. WindowsAreCurrent'
  <2> SUFFICES ASSUME NEW q \in Requests, pc'[q] = "folding", SessionOf[q] \notin evicted
               PROVE  IsEndOf(recent'[q], log'[memory[q]])
    BY <1>1 DEF WindowsAreCurrent
  <2>1. CASE q = r
    <3>1. StartFold(r)
      BY <2>1 DEF SetupFails, Enter, SkipFold, StartFold, EndFold, Reply, Leave, GoTo,
                  StoreInv, HandlesTyped
    <3>2. /\ recent'[r] = Recent(log[memory[r]], VerbatimTurns) /\ log' = log
          /\ CanFold(log[memory[r]], VerbatimTurns) /\ HasLock(r)
      BY <3>1 DEF StartFold, HasLock, InTurn, QuestionInv, LogsTyped
    <3>3. log[memory[r]] \in Seq(MessageType)
      BY <3>2, HandlesOf DEF QuestionInv, LogsTyped
    <3>4. QED
      BY <2>1, <3>2, <3>3, RecentIsEnd
  <2>2. CASE q # r
    <3>1. pc[q] = "folding" /\ InTurn(q) /\ InTurn(q)' /\ recent'[q] = recent[q]
      BY <1>3, <1>5, <2>2 DEF InTurn
    <3>2. IsEndOf(recent[q], log[memory[q]])
      BY <3>1 DEF ConversationInv, WindowsAreCurrent
    <3>3. log'[memory[q]] = log[memory[q]]
      <4>1. CASE log' = log
        BY <4>1
      <4>2. CASE log' # log
        <5>1. InTurn(r) \/ InTurn(r)'
          BY <4>2 DEF SetupFails, Enter, SkipFold, StartFold, EndFold, Reply, Leave, GoTo,
                      InTurn, StoreInv, HandlesTyped
        <5>2. memory[q] # memory[r]
          BY <1>1, <2>2, <3>1, <5>1, OthersAreUndisturbed
        <5>3. memory[q] \in Requests
          BY <3>1, HandlesOf DEF HasLock
        <5>4. QED
          BY <1>5, <4>2, <5>2, <5>3 DEF QuestionInv, LogsTyped
      <4>3. QED
        BY <4>1, <4>2
    <3>4. QED
      BY <3>1, <3>2, <3>3
  <2>3. QED
    BY <2>1, <2>2
<1>9. QED
  BY <1>4, <1>6, <1>7, <1>8 DEF ConversationInv

LEMMA ConversationsHold == Spec => []ConversationInv
<1>1. StoreInv /\ StoreInv' /\ QuestionInv /\ ConversationInv /\ [Next]_vars => ConversationInv'
  <2>1. ASSUME ConversationInv, UNCHANGED vars PROVE ConversationInv'
    BY <2>1 DEF vars, ConversationInv, LocksHaveOwners, NewMemoriesAreEmpty, HoldersAreInTurn,
                LocksComeWithMemories, WindowsAreCurrent, InTurn
  <2>2. QED
    BY <2>1, GetKeepsConversations, TurnLockKeepsConversations, WorkKeepsConversations
       DEF Next, Step
<1>2. QED
  BY <1>1, ConversationInit, StoreCorrect, QuestionsHold, PTL DEF Spec
-----------------------------------------------------------------------------
\* Who has the turn and what was said, as the worker in the turn sees them.
LEMMA TurnIsSeen ==
    ASSUME StoreInv, NEW r \in Requests, HasLock(r), SessionOf[r] \notin evicted
    PROVE  /\ TurnOf[SessionOf[r]] = holder[lock[r]]
           /\ TalkOf[SessionOf[r]] = log[memory[r]]
           /\ InTurn(r) => TurnOf[SessionOf[r]] = r
BY HandlesOf DEF TurnOf, TalkOf, StoreInv, TurnsHoldLocks

\* What a worker does to its memory is done to its session's conversation, unless
\* that was forgotten, and to no other.
LEMMA WritesToItsTalk ==
    ASSUME StoreInv, QuestionInv, NEW r \in Requests, HasLock(r), NEW turns,
           memoryOf' = memoryOf, evicted' = evicted,
           log' = [log EXCEPT ![memory[r]] = turns]
    PROVE  TalkOf' = IF SessionOf[r] \in evicted THEN TalkOf
                     ELSE [TalkOf EXCEPT ![SessionOf[r]] = turns]
<1>1. /\ memory[r] \in Requests /\ SessionOf[memory[r]] = SessionOf[r] /\ SessionOf[r] \in SessionIds
      /\ SessionOf[r] \notin evicted => memoryOf[SessionOf[r]] = memory[r] /\ memory[r] # Nothing
  BY HandlesOf
<1>2. \A s \in SessionIds : memoryOf[s] = memory[r] => s = SessionOf[r]
  BY <1>1, NothingAssumption DEF StoreInv, MemoriesHaveOwners
<1>3. \A s \in SessionIds \ {SessionOf[r]} : TalkOf'[s] = TalkOf[s]
  BY <1>2 DEF TalkOf, StoreInv, HandlesTyped, QuestionInv, LogsTyped
<1>4. TalkOf'[SessionOf[r]] = IF SessionOf[r] \in evicted THEN TalkOf[SessionOf[r]] ELSE turns
  BY <1>1 DEF TalkOf, QuestionInv, LogsTyped
<1>5. DOMAIN TalkOf = SessionIds /\ DOMAIN TalkOf' = SessionIds
  BY DEF TalkOf
<1>6. QED
  BY <1>1, <1>3, <1>4, <1>5 DEF TalkOf

LEMMA SetsItsTurn ==
    ASSUME StoreInv, ConversationInv, NEW r \in Requests, HasLock(r), NEW who,
           lockOf' = lockOf, evicted' = evicted,
           holder' = [holder EXCEPT ![lock[r]] = who]
    PROVE  TurnOf' = IF SessionOf[r] \in evicted THEN TurnOf
                     ELSE [TurnOf EXCEPT ![SessionOf[r]] = who]
<1>1. /\ lock[r] \in Locks /\ SessionOf[r] \in SessionIds
      /\ SessionOf[r] \notin evicted => lockOf[SessionOf[r]] = lock[r] /\ lock[r] # Nothing
  BY HandlesOf
<1>2. \A s \in SessionIds : lockOf[s] = lock[r] => s = SessionOf[r]
  BY <1>1, NothingAssumption DEF ConversationInv, LocksHaveOwners
<1>3. \A s \in SessionIds \ {SessionOf[r]} : TurnOf'[s] = TurnOf[s]
  BY <1>2 DEF TurnOf, StoreInv, HandlesTyped
<1>4. TurnOf'[SessionOf[r]] = IF SessionOf[r] \in evicted THEN TurnOf[SessionOf[r]] ELSE who
  BY <1>1 DEF TurnOf, StoreInv, HandlesTyped
<1>5. QED
  BY <1>1, <1>3, <1>4 DEF TurnOf

LEMMA GetForgets ==
    ASSUME StoreInv, ConversationInv, OrderInv, NEW r \in Requests, Get(r)
    PROVE  Conversation!Next
<1> DEFINE s     == SessionOf[r]
           fresh == memoryOf[s] = Nothing
           found == MemoryFor(r, memoryOf[s])
           kept  == Trimmed(MovedToEnd(order, s))
           gone  == (Members(order) \cup {s}) \ Members(kept)
<1>1. /\ pc[r] = "new" /\ evicted' = evicted \cup gone /\ holder' = holder /\ log' = log
  BY DEF Get
<1>2. memoryOf' = [t \in SessionIds |-> IF t \in gone THEN Nothing
                                        ELSE IF t = s THEN found ELSE memoryOf[t]]
  BY DEF Get
<1>3. lockOf' = [t \in SessionIds |-> IF t \in gone THEN Nothing
                                      ELSE IF t = s /\ fresh THEN <<r, "get">>
                                      ELSE lockOf[t]]
  BY DEF Get
<1>4. s \in SessionIds /\ <<r, "get">> \in Locks /\ <<r, "get">> # Nothing /\ r # Nothing
      /\ <<r, "get">>[1] = r
  BY SessionAssumption, NothingAssumption DEF Locks
<1>5. gone \in SUBSET SessionIds
  BY <1>4 DEF OrderInv, Members
<1>6. /\ fresh => found = r /\ log[r] = <<>> /\ holder[<<r, "get">>] = Nothing
      /\ ~fresh => found = memoryOf[s]
      /\ fresh /\ s \notin evicted => lockOf[s] = Nothing
  <2>1. holder[<<r, "get">>] = Nothing
    <3> SUFFICES ASSUME holder[<<r, "get">>] # Nothing PROVE FALSE
      OBVIOUS
    <3> DEFINE q == holder[<<r, "get">>]
    <3>1. q \in Requests /\ lock[q] = <<r, "get">>
      BY <1>4 DEF ConversationInv, HoldersAreInTurn, StoreInv, HandlesTyped
    <3>2. pc[r] # "new"
      BY <1>4, <3>1 DEF ConversationInv, LocksHaveOwners
    <3>3. QED
      BY <1>1, <3>2
  <2>2. QED
    BY <1>1, <1>4, <2>1 DEF MemoryFor, ConversationInv, NewMemoriesAreEmpty, LocksComeWithMemories
<1> HIDE DEF s, fresh, found, kept, gone
<1>7. TurnOf' = [t \in SessionIds |-> IF t \in gone THEN Nothing ELSE TurnOf[t]]
  <2>1. ASSUME NEW t \in SessionIds
        PROVE  TurnOf'[t] = IF t \in gone THEN Nothing ELSE TurnOf[t]
    <3>1. CASE t \in gone \/ t \in evicted
      BY <1>1, <3>1 DEF TurnOf
    <3>2. CASE t \notin gone /\ t \notin evicted /\ t = s /\ fresh
      BY <1>1, <1>3, <1>4, <1>6, <3>2 DEF TurnOf
    <3>3. CASE t \notin gone /\ t \notin evicted /\ ~(t = s /\ fresh)
      BY <1>1, <1>3, <3>3 DEF TurnOf
    <3>4. QED
      BY <3>1, <3>2, <3>3
  <2>2. QED
    BY <2>1 DEF TurnOf
<1>8. TalkOf' = [t \in SessionIds |-> IF t \in gone THEN <<>> ELSE TalkOf[t]]
  <2>1. ASSUME NEW t \in SessionIds
        PROVE  TalkOf'[t] = IF t \in gone THEN <<>> ELSE TalkOf[t]
    <3>1. CASE t \in gone \/ t \in evicted
      BY <1>1, <3>1 DEF TalkOf
    <3>2. CASE t \notin gone /\ t \notin evicted /\ t = s /\ fresh
      BY <1>1, <1>2, <1>4, <1>6, <3>2 DEF TalkOf, fresh
    <3>3. CASE t \notin gone /\ t \notin evicted /\ ~(t = s /\ fresh)
      BY <1>1, <1>2, <1>6, <3>3 DEF TalkOf, fresh
    <3>4. QED
      BY <3>1, <3>2, <3>3
  <2>2. QED
    BY <2>1 DEF TalkOf
<1>9. Conversation!Forget(gone)
  BY <1>1, <1>7, <1>8 DEF Conversation!Forget
<1>10. QED
  BY <1>5, <1>9 DEF Conversation!Next

\* The conversations are as they were.
LEMMA NothingSaid ==
    ASSUME lockOf' = lockOf, memoryOf' = memoryOf, evicted' = evicted, holder' = holder, log' = log
    PROVE  UNCHANGED Conversation!vars
BY DEF Conversation!vars, TurnOf, TalkOf

LEMMA TurnLockSaysNothing ==
    ASSUME StoreInv, NEW r \in Requests, TurnLock(r) PROVE UNCHANGED Conversation!vars
<1>1. /\ memoryOf' = memoryOf /\ evicted' = evicted /\ holder' = holder /\ log' = log
      /\ lockOf' = [lockOf EXCEPT ![SessionOf[r]] = LockFor(r, lockOf[SessionOf[r]])]
  BY DEF TurnLock, historyVars
<1>2. CASE SessionOf[r] \notin evicted
  BY <1>1, <1>2, TurnLockFinds, NothingSaid
<1>3. CASE SessionOf[r] \in evicted
  <2>1. TurnOf' = TurnOf
    BY <1>1, <1>3 DEF TurnOf, StoreInv, HandlesTyped
  <2>2. QED
    BY <1>1, <2>1 DEF Conversation!vars, TalkOf
<1>4. QED
  BY <1>2, <1>3

LEMMA WorkIsTalk ==
    ASSUME StoreInv, QuestionInv, ConversationInv, NEW r \in Requests,
           Enter(r) \/ EndFold(r) \/ Reply(r) \/ Leave(r)
    PROVE  [Conversation!Next]_Conversation!vars
<1> DEFINE s == SessionOf[r]
<1>1. HasLock(r) /\ (Enter(r) \/ InTurn(r))
  BY DEF Enter, EndFold, Reply, Leave, HasLock, InTurn
<1>2. memoryOf' = memoryOf /\ lockOf' = lockOf /\ evicted' = evicted
  BY DEF Enter, EndFold, Reply, Leave, storeVars, historyVars
<1>3. /\ log[memory[r]] \in Seq(MessageType) /\ Conversation!Says(r, "question") = Says(r, "question")
      /\ Conversation!Says(r, "answer") = Says(r, "answer") /\ s \in SessionIds
  <2>1. s \in SessionIds /\ memory[r] \in Requests
    BY <1>1, HandlesOf
  <2>2. log[memory[r]] \in Seq(MessageType)
    BY <2>1 DEF QuestionInv, LogsTyped
  <2>3. \A kind : Conversation!Says(r, kind) = Says(r, kind)
    BY DEF Says, Conversation!Says, Message, Conversation!Message
  <2>4. QED
    BY <2>1, <2>2, <2>3
<1>4. s \notin evicted => /\ TurnOf[s] = holder[lock[r]] /\ TalkOf[s] = log[memory[r]]
                          /\ InTurn(r) => TurnOf[s] = r
  BY <1>1, TurnIsSeen
<1>5. s \notin evicted /\ pc[r] \in {"folding", "working"} =>
          Conversation!Newest(TalkOf[s], Conversation!Says(r, "question"))
  <2>1. s \notin evicted /\ pc[r] \in {"folding", "working"} =>
            EndsWith(log[memory[r]], Says(r, "question"))
    BY DEF QuestionInv, Asking
  <2>2. QED
    BY <1>3, <1>4, <2>1 DEF EndsWith, Conversation!Newest
<1> HIDE DEF s
<1>6. CASE Enter(r)
  <2>1. /\ holder[lock[r]] = Nothing
        /\ TurnOf' = IF s \in evicted THEN TurnOf ELSE [TurnOf EXCEPT ![s] = r]
    BY <1>1, <1>2, <1>6, SetsItsTurn DEF Enter, s
  <2>2. TalkOf' = IF s \in evicted THEN TalkOf
                  ELSE [TalkOf EXCEPT ![s] = Append(log[memory[r]], Says(r, "question"))]
    BY <1>1, <1>2, <1>6, WritesToItsTalk DEF Enter, s
  <2>3. CASE s \in evicted
    BY <1>2, <2>1, <2>2, <2>3 DEF Conversation!vars
  <2>4. CASE s \notin evicted
    <3>1. Conversation!Ask(r)
      BY <1>2, <1>3, <1>4, <2>1, <2>2, <2>4 DEF Conversation!Ask, s
    <3>2. QED
      BY <3>1 DEF Conversation!Next
  <2>5. QED
    BY <2>3, <2>4
<1>7. CASE EndFold(r)
  <2>1. TurnOf' = TurnOf
    BY <1>2, <1>7 DEF EndFold, TurnOf
  <2>2. TalkOf' = IF s \in evicted THEN TalkOf ELSE [TalkOf EXCEPT ![s] = recent[r]]
    BY <1>1, <1>2, <1>7, WritesToItsTalk DEF EndFold, s
  <2>3. CASE s \in evicted
    BY <1>2, <2>1, <2>2, <2>3 DEF Conversation!vars
  <2>4. CASE s \notin evicted
    <3>1. PICK first \in 1..Len(TalkOf[s]) :
              recent[r] = SubSeq(TalkOf[s], first, Len(TalkOf[s]))
      BY <1>4, <1>7, <2>4 DEF EndFold, ConversationInv, WindowsAreCurrent, IsEndOf, s
    <3>2. InTurn(r) /\ pc[r] = "folding"
      BY <1>7 DEF EndFold, InTurn
    <3>3. Conversation!Fold(r)
      BY <1>2, <1>3, <1>4, <1>5, <2>1, <2>2, <2>4, <3>1, <3>2 DEF Conversation!Fold, s
    <3>4. QED
      BY <3>3 DEF Conversation!Next
  <2>5. QED
    BY <2>3, <2>4
<1>8. CASE Reply(r)
  <2>1. TurnOf' = TurnOf
    BY <1>2, <1>8 DEF Reply, TurnOf
  <2>2. TalkOf' = IF s \in evicted THEN TalkOf
                  ELSE [TalkOf EXCEPT ![s] = Append(log[memory[r]], Says(r, "answer"))]
    BY <1>1, <1>2, <1>8, WritesToItsTalk DEF Reply, s
  <2>3. CASE s \in evicted
    BY <1>2, <2>1, <2>2, <2>3 DEF Conversation!vars
  <2>4. CASE s \notin evicted
    <3>1. InTurn(r) /\ pc[r] = "working"
      BY <1>8 DEF Reply, InTurn
    <3>2. Conversation!Answer(r)
      BY <1>2, <1>3, <1>4, <1>5, <2>1, <2>2, <2>4, <3>1 DEF Conversation!Answer, s
    <3>3. QED
      BY <3>2 DEF Conversation!Next
  <2>5. QED
    BY <2>3, <2>4
<1>9. CASE Leave(r)
  <2>1. TurnOf' = IF s \in evicted THEN TurnOf ELSE [TurnOf EXCEPT ![s] = Nothing]
    BY <1>1, <1>2, <1>9, SetsItsTurn DEF Leave, Released, s
  <2>2. TalkOf' = TalkOf
    BY <1>2, <1>9 DEF Leave, TalkOf
  <2>3. CASE s \in evicted
    BY <1>2, <2>1, <2>2, <2>3 DEF Conversation!vars
  <2>4. CASE s \notin evicted
    <3>1. InTurn(r)
      BY <1>9 DEF Leave, InTurn
    <3>2. Conversation!EndTurn(r)
      BY <1>2, <1>4, <2>1, <2>2, <2>4, <3>1 DEF Conversation!EndTurn, s
    <3>3. QED
      BY <3>2 DEF Conversation!Next
  <2>5. QED
    BY <2>3, <2>4
<1>10. QED
  BY <1>6, <1>7, <1>8, <1>9

LEMMA ConversationStep ==
    StoreInv /\ QuestionInv /\ OrderInv /\ ConversationInv /\ [Next]_vars
        => [Conversation!Next]_Conversation!vars
<1> SUFFICES ASSUME StoreInv, QuestionInv, OrderInv, ConversationInv, [Next]_vars
             PROVE  [Conversation!Next]_Conversation!vars
  OBVIOUS
<1>1. ASSUME NEW r \in Requests, SetupFails(r) \/ SkipFold(r) \/ StartFold(r)
      PROVE  UNCHANGED Conversation!vars
  BY <1>1, NothingSaid DEF SetupFails, SkipFold, StartFold, storeVars, historyVars
<1>2. CASE UNCHANGED vars
  BY <1>2, NothingSaid DEF vars
<1>3. QED
  BY <1>1, <1>2, GetForgets, TurnLockSaysNothing, WorkIsTalk DEF Next, Step

\* The store, its locks and the workers implement what a caller is promised: as long
\* as the store keeps a session, it is one conversation, one whole turn at a time,
\* for any number of requests and sessions and any size of the store.
THEOREM StoreIsConversations == Spec => ImplementsConversations
<1>1. Init => Conversation!Init
  BY DEF Init, Conversation!Init, TurnOf, TalkOf
<1>2. QED
  BY <1>1, ConversationStep, StoreCorrect, QuestionsHold, OrderCorrect, ConversationsHold, PTL
     DEF Spec, ImplementsConversations, Conversation!Spec
=============================================================================
