---------------------------- MODULE SandboxProofs ----------------------------
(***************************************************************************)
(* Theorems about Sandbox, for any cells, sessions and names: types, that  *)
(* in process the variables of a session whose calls do not overlap carry  *)
(* over from call to call, and that nothing but a write leaves a namespace *)
(* that cannot be read.                                                    *)
(***************************************************************************)
EXTENDS Sandbox, TLAPS

\* The types of what the proofs look into.
Types ==
    /\ TypeOK
    /\ \A c \in Cells : phase[c] = "over" <=> outcome[c] # "none"
    /\ \A c \in Cells : phase[c] = "none" <=> caller[c] = "new"
    /\ \A c \in Cells : phase[c] \in {"none", "received", "found"} => seen[c] = Empty

LEMMA EmptyIsANamespace == Empty \in Namespaces
  BY DEF Empty, Namespaces

LEMMA ScopesAreKeys == ASSUME NEW c \in Cells PROVE Scope(c) \in Keys
  BY CellsAssumption DEF Scope, Keys

\* Told never shows the caller of the executor an exception.
LEMMA ToldTyped ==
    ASSUME NEW o \in Outcomes, remote \in BOOLEAN
    PROVE  Told(o) \in Replies /\ (remote => Told(o) \notin Exceptions)
  BY DEF Told, Outcomes, Replies, Exceptions

\* What a cell has changed is changes of a namespace.
LEMMA ChangedTyped ==
    ASSUME NEW c \in Cells, NEW ns \in Namespaces, left[c] \in Namespaces
    PROVE  Changed(c, ns) \in Namespaces
  BY DEF Changed, Namespaces

\* Unlinking a file changes the phase of cells that are saving, and no other.
LEMMA OrphanedOnly ==
    ASSUME NEW k \in Keys, phase \in [Cells -> Phases]
    PROVE  /\ Orphaned(k) \in [Cells -> Phases]
           /\ \A c \in Cells : Orphaned(k)[c] # phase[c] =>
                 phase[c] = "saving" /\ Scope(c) = k /\ Orphaned(k)[c] = "orphaned"
  BY DEF Orphaned, Phases

THEOREM TypesHold == Spec => []Types
<1>1. Init => Types
  BY EmptyIsANamespace, CellsAssumption
     DEF Init, Types, TypeOK, Keys, Outcomes, Replies, Phases, Exceptions
<1>2. Types /\ [Next]_vars => Types'
  <2> SUFFICES ASSUME Types, [Next]_vars PROVE Types'
    OBVIOUS
  <2> USE DEF Types, TypeOK, callerVars, cellVars, history
  <2>1. ASSUME NEW c \in Cells, Call(c) PROVE Types'
    <3>1. phase[c] = "none" /\ seen[c] = Empty /\ outcome[c] = "none"
      BY <2>1 DEF Call
    <3>2. overlapped' \subseteq Sessions
      BY <2>1, CellsAssumption DEF Call, Overlaps
    <3>3. caller' \in [Cells -> {"new", "waiting", "told"}] /\ phase' \in [Cells -> Phases]
      BY <2>1 DEF Call, Phases
    <3> QED
      BY <2>1, <3>1, <3>2, <3>3 DEF Call
  <2>2. ASSUME NEW c \in Cells, Answer(c) PROVE Types'
    <3>1. outcome[c] \in Outcomes
      BY <2>2 DEF Answer
    <3>2. Told(outcome[c]) \in Replies /\ (remote => Told(outcome[c]) \notin Exceptions)
      BY <3>1, ToldTyped
    <3>3. expected' \in [Sessions -> Namespaces]
      <4>1. SessionOf[c] \in Sessions /\ expected[SessionOf[c]] \in Namespaces
        BY CellsAssumption
      <4>2. Changed(c, expected[SessionOf[c]]) \in Namespaces
        BY <4>1, ChangedTyped
      <4> QED
        BY <2>2, <4>1, <4>2, EmptyIsANamespace DEF Answer
    <3>4. reply' \in [Cells -> Replies \cup {"none"}]
          /\ \A d \in Cells : remote => reply'[d] \notin Exceptions
      BY <2>2, <3>2 DEF Answer, Tell
    <3>5. left' \in [Cells -> Namespaces] /\ seen' \in [Cells -> Namespaces]
          /\ \A d \in Cells : phase[d] \in {"none", "received", "found"} => seen'[d] = Empty
      BY <2>2, EmptyIsANamespace DEF Answer
    <3> QED
      BY <2>2, <3>3, <3>4, <3>5 DEF Answer, Tell
  <2>3. ASSUME NEW c \in Cells, GiveUp(c) PROVE Types'
    BY <2>3 DEF GiveUp, Tell, Replies, Exceptions
  <2>4. ASSUME NEW c \in Cells, Unreachable(c) PROVE Types'
    BY <2>4 DEF Unreachable, Tell, Replies, Phases, Exceptions
  <2>5. ASSUME NEW s \in Sessions, Reset(s) PROVE Types'
    <3>1. s \in Sessions /\ s \in Keys
      BY CellsAssumption DEF Keys
    <3>2. /\ phase' \in [Cells -> Phases]
          /\ \A c \in Cells : phase'[c] # phase[c] => phase[c] = "saving" /\ phase'[c] = "orphaned"
      BY <2>5, <3>1, OrphanedOnly DEF Reset
    <3> QED
      BY <2>5, <3>1, <3>2, EmptyIsANamespace DEF Reset, Overlaps
  <2>6. ASSUME NEW c \in Cells, Look(c) PROVE Types'
    BY <2>6 DEF Look, Phases
  <2>7. ASSUME NEW c \in Cells, Load(c) PROVE Types'
    BY <2>7, ScopesAreKeys DEF Load, Phases
  <2>8. ASSUME NEW c \in Cells, LoadRaises(c) PROVE Types'
    BY <2>8 DEF LoadRaises, EndsWith, Outcomes, Phases, Exceptions
  <2>9. ASSUME NEW c \in Cells, Fail(c) PROVE Types'
    BY <2>9 DEF Fail, EndsWith, Outcomes, Phases
  <2>10. ASSUME NEW c \in Cells, Raises(c) PROVE Types'
    BY <2>10 DEF Raises, EndsWith, Outcomes, Phases, Exceptions
  <2>11. ASSUME NEW c \in Cells, Overgrow(c) PROVE Types'
    <3>1. Scope(c) \in Keys /\ phase[c] = "running"
      BY <2>11, ScopesAreKeys DEF Overgrow
    <3>2. /\ phase' \in [Cells -> Phases] /\ phase'[c] = "over"
          /\ \A d \in Cells : d # c /\ phase'[d] # phase[d] => phase[d] = "saving" /\ phase'[d] = "orphaned"
      BY <2>11, <3>1, OrphanedOnly DEF Overgrow, Phases
    <3> QED
      BY <2>11, <3>1, <3>2 DEF Overgrow, KeptOverCap, Outcomes
  <2>12. ASSUME NEW c \in Cells, Open(c) PROVE Types'
    BY <2>12, ScopesAreKeys DEF Open, Leftovers, Phases
  <2>13. ASSUME NEW c \in Cells, Save(c) PROVE Types'
    BY <2>13, ScopesAreKeys DEF Save, EndsWith, Outcomes, Phases
  <2>14. ASSUME NEW c \in Cells, SaveFails(c) PROVE Types'
    BY <2>14, ScopesAreKeys DEF SaveFails, EndsWith, Outcomes, Phases, Exceptions
  <2>15. CASE UNCHANGED vars
    BY <2>15 DEF vars
  <2> QED
    BY <2>1, <2>2, <2>3, <2>4, <2>5, <2>6, <2>7, <2>8, <2>9, <2>10, <2>11, <2>12, <2>13, <2>14,
       <2>15 DEF Next, Execute
<1> QED
  BY <1>1, <1>2, PTL DEF Spec

\* Every variable keeps its type, and callers of the executor see no exception.
THEOREM TypeCorrect == Spec => []TypeOK
<1>1. Types => TypeOK
  BY DEF Types
<1> QED
  BY <1>1, TypesHold, PTL
-----------------------------------------------------------------------------
(* A file is torn from its opening on; a write, or unlinking it, ends that. *)

\* The cell that is to blame for a torn file.
Blame(c, k) == Scope(c) = k /\ (phase[c] = "saving" \/ outcome[c] = "unwritten")

\* The deployment never changes.
LEMMA ScopesStay ==
    ASSUME [Next]_vars PROVE remote' = remote /\ \A c \in Cells : Scope(c)' = Scope(c)
<1>1. remote' = remote
  BY DEF Next, Execute, Call, Answer, GiveUp, Unreachable, Reset, Look, Load, LoadRaises, Fail,
         Raises, Overgrow, Open, Save, SaveFails, vars
<1> QED
  BY <1>1 DEF Scope

\* Nothing but a write leaves a namespace that cannot be read.
THEOREM TornByWrites == Spec => []TornByWritesOnly
<1>1. Init => TornByWritesOnly
  BY MarksAssumption DEF Init, TornByWritesOnly
<1>2. Types /\ TornByWritesOnly /\ [Next]_vars => TornByWritesOnly'
  <2> SUFFICES ASSUME Types, TornByWritesOnly, [Next]_vars, NEW k \in Keys, file'[k] = Torn
               PROVE  \E c \in Cells : Blame(c, k)'
    BY DEF TornByWritesOnly, Blame
  <2> USE DEF Types, TypeOK, callerVars, cellVars, history
  <2>1. \A c \in Cells : Scope(c)' = Scope(c) /\ Scope(c) \in Keys
    BY ScopesStay, ScopesAreKeys
  <2>2. ASSUME file[k] = Torn, \A c \in Cells : Blame(c, k) => Blame(c, k)'
        PROVE  \E c \in Cells : Blame(c, k)'
    BY <2>2 DEF TornByWritesOnly, Blame
  <2>3. ASSUME NEW c \in Cells, Save(c) PROVE \E d \in Cells : Blame(d, k)'
    <3>1. file[k] = Torn /\ (phase[c] = "saving" => k # Scope(c)) /\ outcome[c] = "none"
      BY <2>3, <2>1, MarksAssumption DEF Save
    <3>2. \A d \in Cells : Blame(d, k) => Blame(d, k)'
      BY <2>1, <2>3, <3>1 DEF Save, EndsWith, Blame
    <3> QED
      BY <2>2, <3>1, <3>2
  <2>4. ASSUME NEW c \in Cells, SaveFails(c) PROVE \E d \in Cells : Blame(d, k)'
    <3>1. \A d \in Cells : Blame(d, k) => Blame(d, k)'
      BY <2>1, <2>4 DEF SaveFails, EndsWith, Blame
    <3>2. CASE phase[c] = "saving" /\ k = Scope(c)
      BY <2>1, <2>4, <3>2 DEF SaveFails, EndsWith, Blame
    <3>3. CASE ~(phase[c] = "saving" /\ k = Scope(c))
      <4>1. file[k] = Torn
        BY <2>1, <2>4, <3>3 DEF SaveFails
      <4> QED
        BY <2>2, <3>1, <4>1
    <3> QED
      BY <3>2, <3>3
  <2>5. ASSUME NEW c \in Cells, Open(c) PROVE \E d \in Cells : Blame(d, k)'
    <3>1. phase'[c] = "saving" /\ \A d \in Cells : Blame(d, k) => Blame(d, k)'
      BY <2>1, <2>5 DEF Open, Blame
    <3>2. CASE k = Scope(c)
      BY <3>1, <3>2, <2>1 DEF Blame
    <3>3. CASE k # Scope(c)
      BY <3>1, <3>3, <2>1, <2>2, <2>5 DEF Open
    <3> QED
      BY <3>2, <3>3
  <2>6. ASSUME NEW c \in Cells, Overgrow(c) PROVE \E d \in Cells : Blame(d, k)'
    <3>1. file[k] = Torn /\ k # Scope(c)
      BY <2>1, <2>6, MarksAssumption DEF Overgrow, KeptOverCap
    <3>2. \A d \in Cells : Blame(d, k) => Blame(d, k)'
      BY <2>1, <2>6, <3>1, OrphanedOnly DEF Overgrow, Blame
    <3> QED
      BY <2>2, <3>1, <3>2
  <2>7. ASSUME NEW s \in Sessions, Reset(s) PROVE \E d \in Cells : Blame(d, k)'
    <3>1. s \in Keys
      BY CellsAssumption DEF Keys
    <3>2. file[k] = Torn /\ k # s
      BY <2>7, <3>1, MarksAssumption DEF Reset
    <3>3. \A d \in Cells : Blame(d, k) => Blame(d, k)'
      BY <2>1, <2>7, <3>1, <3>2, OrphanedOnly DEF Reset, Blame
    <3> QED
      BY <2>2, <3>2, <3>3
  <2>8. ASSUME NEW c \in Cells,
               Call(c) \/ Answer(c) \/ GiveUp(c) \/ Unreachable(c) \/ Look(c) \/ Load(c)
                  \/ LoadRaises(c) \/ Fail(c) \/ Raises(c)
        PROVE  \E d \in Cells : Blame(d, k)'
    <3>1. file' = file
      BY <2>8 DEF Call, Answer, GiveUp, Unreachable, Look, Load, LoadRaises, Fail, Raises
    <3>2. \A d \in Cells : Blame(d, k) => Blame(d, k)'
      BY <2>1, <2>8 DEF Call, Answer, GiveUp, Unreachable, Look, Load, LoadRaises, Fail, Raises,
                        EndsWith, Blame
    <3> QED
      BY <2>2, <3>1, <3>2
  <2>9. CASE UNCHANGED vars
    BY <2>1, <2>2, <2>9 DEF vars, Blame
  <2> QED
    BY <2>3, <2>4, <2>5, <2>6, <2>7, <2>8, <2>9 DEF Next, Execute
<1> QED
  BY <1>1, <1>2, TypesHold, PTL DEF Spec
-----------------------------------------------------------------------------
(* In process, the cells of a session whose calls do not overlap run one at *)
(* a time, and between them its file holds what its agent expects, or is    *)
(* torn by a write that failed.                                             *)

OneCallEach ==
    \A c, d \in Cells :
        caller[c] = "waiting" /\ caller[d] = "waiting" /\ SessionOf[c] = SessionOf[d] =>
            c = d \/ SessionOf[c] \in overlapped

\* In process nobody gives up, so a cell that has not ended has its caller.
CalledWhileOn ==
    \A c \in Cells : phase[c] \in {"received", "found", "running", "saving", "orphaned"}
                    => caller[c] = "waiting"

\* What a cell finds in a file: nothing where there is none.
Contents(f) == IF f = Absent THEN Empty ELSE f

AsExpected(s) == file[s] = Torn \/ Contents(file[s]) = expected[s]

\* What the file of a session holds while nobody waits for a cell of it.
FileWhenIdle == \A s \in Sessions \ overlapped : Idle(s) => AsExpected(s)

\* What it holds by how far the cell has come, and what the cell has seen.
FileAsTheCellLeft(c) ==
    LET s == SessionOf[c] IN
    /\ phase[c] \in {"received", "found", "running"} \/ outcome[c] \in {"failure", "raised"}
         => AsExpected(s)
    /\ phase[c] = "saving" \/ outcome[c] = "unwritten" => file[s] = Torn
    /\ phase[c] # "orphaned"
    /\ outcome[c] = "success" => file[s] = left[c] /\ seen[c] = expected[s]
    /\ outcome[c] = "too_large" => file[s] = Absent
    /\ phase[c] \in {"running", "saving"} => seen[c] = expected[s]

FileDuringCall ==
    \A c \in Cells :
        caller[c] = "waiting" /\ SessionOf[c] \notin overlapped => FileAsTheCellLeft(c)

CarryInv ==
    /\ OneCallEach
    /\ ~remote => CalledWhileOn /\ FileWhenIdle /\ FileDuringCall

\* What a cell that loaded the expected namespace has changed is what it left.
LEMMA ChangedIsLeft ==
    ASSUME Types, NEW c \in Cells, NEW ns \in Namespaces, seen[c] = ns
    PROVE  Changed(c, ns) = left[c]
<1>1. left[c] \in Namespaces
  BY DEF Types, TypeOK
<1> QED
  BY <1>1 DEF Changed, Namespaces

\* The exclusion of calls is kept by every step, in either deployment.
LEMMA OneCallKept == Types /\ OneCallEach /\ [Next]_vars => OneCallEach'
<1> SUFFICES ASSUME Types, OneCallEach, [Next]_vars PROVE OneCallEach'
  OBVIOUS
<1> USE CellsAssumption DEF Types, TypeOK, callerVars, cellVars, history
<1>1. ASSUME NEW c \in Cells, Call(c) PROVE OneCallEach'
  BY <1>1 DEF Call, Overlaps, Idle, OneCallEach
<1>2. ASSUME NEW s \in Sessions, Reset(s) PROVE OneCallEach'
  BY <1>2 DEF Reset, Overlaps, OneCallEach
<1>3. ASSUME NEW c \in Cells, Answer(c) \/ GiveUp(c) \/ Unreachable(c) PROVE OneCallEach'
  BY <1>3 DEF Answer, GiveUp, Unreachable, Tell, OneCallEach
<1>4. ASSUME NEW c \in Cells, Execute(c) PROVE OneCallEach'
  BY <1>4 DEF Execute, Look, Load, LoadRaises, Fail, Raises, Overgrow, Open, Save, SaveFails,
              OneCallEach
<1>5. CASE UNCHANGED vars
  BY <1>5 DEF vars, OneCallEach
<1> QED
  BY <1>1, <1>2, <1>3, <1>4, <1>5 DEF Next

\* In process, so is that a running cell has its caller.
LEMMA CalledKept == Types /\ ~remote /\ CalledWhileOn /\ [Next]_vars => CalledWhileOn'
<1> SUFFICES ASSUME Types, ~remote, CalledWhileOn, [Next]_vars PROVE CalledWhileOn'
  OBVIOUS
<1> USE CellsAssumption DEF Types, TypeOK, callerVars, cellVars, history
<1>1. ASSUME NEW s \in Sessions, Reset(s) PROVE CalledWhileOn'
  BY <1>1, OrphanedOnly DEF Reset, Keys, CalledWhileOn
<1>2. ASSUME NEW c \in Cells, Call(c) \/ Answer(c) \/ GiveUp(c) \/ Unreachable(c)
      PROVE  CalledWhileOn'
  BY <1>2 DEF Call, Answer, GiveUp, Unreachable, Tell, CalledWhileOn
<1>3. ASSUME NEW c \in Cells, Overgrow(c) PROVE CalledWhileOn'
  BY <1>3, OrphanedOnly, ScopesAreKeys DEF Overgrow, CalledWhileOn
<1>4. ASSUME NEW c \in Cells,
             Look(c) \/ Load(c) \/ LoadRaises(c) \/ Fail(c) \/ Raises(c) \/ Open(c) \/ Save(c)
                \/ SaveFails(c)
      PROVE  CalledWhileOn'
  BY <1>4 DEF Look, Load, LoadRaises, Fail, Raises, Open, Save, SaveFails, EndsWith, CalledWhileOn
<1>5. CASE UNCHANGED vars
  BY <1>5 DEF vars, CalledWhileOn
<1> QED
  BY <1>1, <1>2, <1>3, <1>4, <1>5 DEF Next, Execute

LEMMA CarryInductive == Types /\ CarryInv /\ [Next]_vars => CarryInv'
<1> SUFFICES ASSUME Types, CarryInv, [Next]_vars PROVE CarryInv'
  OBVIOUS
<1>0. remote' = remote
  BY ScopesStay
<1> SUFFICES ASSUME ~remote PROVE FileWhenIdle' /\ FileDuringCall'
  BY <1>0, OneCallKept, CalledKept DEF CarryInv
<1> USE CellsAssumption DEF Types, TypeOK, callerVars, cellVars, history
<1>1. \A c \in Cells : Scope(c) = SessionOf[c]
  BY DEF Scope
<1>2. OneCallEach /\ CalledWhileOn /\ FileWhenIdle /\ FileDuringCall
  BY DEF CarryInv
\* A cell's step leaves alone what is said of sessions other than its own.
<1>3. ASSUME NEW c \in Cells,
             \A s \in Sessions : s # SessionOf[c] =>
                file'[s] = file[s] /\ expected'[s] = expected[s] /\ (s \in overlapped' <=> s \in overlapped),
             \A d \in Cells : SessionOf[d] # SessionOf[c] =>
                /\ caller'[d] = caller[d] /\ phase'[d] = phase[d] /\ seen'[d] = seen[d]
                /\ left'[d] = left[d] /\ outcome'[d] = outcome[d],
             SessionOf[c] \notin overlapped' =>
                /\ Idle(SessionOf[c])' => AsExpected(SessionOf[c])'
                /\ \A d \in Cells : SessionOf[d] = SessionOf[c] /\ caller'[d] = "waiting" =>
                      FileAsTheCellLeft(d)'
      PROVE  FileWhenIdle' /\ FileDuringCall'
  <2>1. FileWhenIdle'
    BY <1>2, <1>3 DEF FileWhenIdle, Idle, AsExpected
  <2>2. ASSUME NEW d \in Cells, caller'[d] = "waiting", SessionOf[d] \notin overlapped'
        PROVE  FileAsTheCellLeft(d)'
    <3>1. CASE SessionOf[d] = SessionOf[c]
      BY <1>3, <2>2, <3>1
    <3>2. CASE SessionOf[d] # SessionOf[c]
      <4>1. FileAsTheCellLeft(d)
        BY <1>2, <1>3, <2>2, <3>2 DEF FileDuringCall
      <4> QED
        BY <1>3, <3>2, <4>1 DEF FileAsTheCellLeft, AsExpected
    <3> QED
      BY <3>1, <3>2
  <2> QED
    BY <2>1, <2>2 DEF FileDuringCall
\* It is enough to look at the cell itself: its session has no other.
<1>4. ASSUME NEW c \in Cells, caller[c] = "waiting", caller' = caller, overlapped' = overlapped,
             expected' = expected,
             \A s \in Sessions : s # SessionOf[c] => file'[s] = file[s],
             \A d \in Cells : SessionOf[d] # SessionOf[c] =>
                /\ phase'[d] = phase[d] /\ seen'[d] = seen[d]
                /\ left'[d] = left[d] /\ outcome'[d] = outcome[d],
             SessionOf[c] \notin overlapped /\ FileAsTheCellLeft(c) => FileAsTheCellLeft(c)'
      PROVE  FileWhenIdle' /\ FileDuringCall'
  <2>1. ~Idle(SessionOf[c])'
    BY <1>4 DEF Idle
  <2>2. ASSUME SessionOf[c] \notin overlapped', NEW d \in Cells, SessionOf[d] = SessionOf[c],
               caller'[d] = "waiting"
        PROVE  FileAsTheCellLeft(d)'
    <3>1. d = c
      BY <1>2, <1>4, <2>2 DEF OneCallEach
    <3>2. FileAsTheCellLeft(c)
      BY <1>2, <1>4, <2>2 DEF FileDuringCall
    <3> QED
      BY <1>4, <2>2, <3>1, <3>2
  <2> QED
    BY <1>3, <1>4, <2>1, <2>2
<1>5. ASSUME NEW c \in Cells, Call(c) PROVE FileWhenIdle' /\ FileDuringCall'
  <2>1. ASSUME SessionOf[c] \notin overlapped'
        PROVE  /\ ~Idle(SessionOf[c])'
               /\ \A d \in Cells : SessionOf[d] = SessionOf[c] /\ caller'[d] = "waiting" =>
                     FileAsTheCellLeft(d)'
    <3>1. Idle(SessionOf[c]) /\ SessionOf[c] \notin overlapped
      BY <1>5, <2>1 DEF Call, Overlaps
    <3>2. AsExpected(SessionOf[c])
      BY <1>2, <3>1 DEF FileWhenIdle
    <3>3. \A d \in Cells : SessionOf[d] = SessionOf[c] /\ caller'[d] = "waiting" => d = c
      BY <1>5, <3>1 DEF Call, Idle
    <3>4. phase'[c] = "received" /\ outcome'[c] = "none" /\ caller'[c] = "waiting"
      BY <1>5 DEF Call
    <3>5. FileAsTheCellLeft(c)'
      BY <1>5, <3>2, <3>4 DEF Call, FileAsTheCellLeft, AsExpected
    <3> QED
      BY <3>3, <3>4, <3>5 DEF Idle
  <2> QED
    BY <1>3, <1>5, <2>1 DEF Call, Overlaps
<1>6. ASSUME NEW c \in Cells, Answer(c) PROVE FileWhenIdle' /\ FileDuringCall'
  <2>1. ASSUME SessionOf[c] \notin overlapped'
        PROVE  /\ AsExpected(SessionOf[c])'
               /\ \A d \in Cells : ~(SessionOf[d] = SessionOf[c] /\ caller'[d] = "waiting")
    <3>1. SessionOf[c] \notin overlapped /\ caller[c] = "waiting" /\ phase[c] = "over"
      BY <1>6, <2>1 DEF Answer
    <3>2. FileAsTheCellLeft(c)
      BY <1>2, <3>1 DEF FileDuringCall
    <3>3. \A d \in Cells : ~(SessionOf[d] = SessionOf[c] /\ caller'[d] = "waiting")
      BY <1>2, <1>6, <3>1 DEF OneCallEach, Answer, Tell
    <3>4. SessionOf[c] \in Sessions /\ expected[SessionOf[c]] \in Namespaces
      OBVIOUS
    <3>5. file' = file /\ outcome[c] \in Outcomes
      BY <1>6 DEF Answer
    <3>6. CASE outcome[c] = "success"
      <4>1. Changed(c, expected[SessionOf[c]]) = left[c] /\ file[SessionOf[c]] = left[c]
        BY <3>2, <3>4, <3>6, ChangedIsLeft DEF FileAsTheCellLeft
      <4>2. expected'[SessionOf[c]] = left[c] /\ left[c] \in Namespaces
        BY <1>6, <3>4, <3>6, <4>1 DEF Answer
      <4> QED
        BY <3>3, <3>5, <4>1, <4>2, MarksAssumption DEF AsExpected, Contents
    <3>7. CASE outcome[c] = "too_large"
      <4>1. expected'[SessionOf[c]] = Empty /\ file[SessionOf[c]] = Absent
        BY <1>6, <3>2, <3>4, <3>7 DEF Answer, FileAsTheCellLeft
      <4> QED
        BY <3>3, <3>5, <4>1 DEF AsExpected, Contents
    <3>8. CASE outcome[c] \in {"failure", "raised", "unwritten"}
      <4>1. expected'[SessionOf[c]] = expected[SessionOf[c]]
        BY <1>6, <3>4, <3>8 DEF Answer
      <4>2. AsExpected(SessionOf[c])
        BY <3>2, <3>8 DEF FileAsTheCellLeft, AsExpected
      <4> QED
        BY <3>3, <3>5, <4>1, <4>2 DEF AsExpected
    <3> QED
      BY <3>5, <3>6, <3>7, <3>8 DEF Outcomes, Exceptions
  <2>2. \A s \in Sessions : s # SessionOf[c] => expected'[s] = expected[s]
    BY <1>6 DEF Answer
  <2>3. \A d \in Cells : SessionOf[d] # SessionOf[c] =>
          /\ caller'[d] = caller[d] /\ phase'[d] = phase[d] /\ seen'[d] = seen[d]
          /\ left'[d] = left[d] /\ outcome'[d] = outcome[d]
    BY <1>6 DEF Answer, Tell
  <2>4. file' = file /\ overlapped' = overlapped
    BY <1>6 DEF Answer
  <2> QED
    BY <1>3, <2>1, <2>2, <2>3, <2>4
<1>7. ASSUME NEW c \in Cells, GiveUp(c) \/ Unreachable(c) PROVE FALSE
  BY <1>7 DEF GiveUp, Unreachable
<1>8. ASSUME NEW s \in Sessions, Reset(s) PROVE FileWhenIdle' /\ FileDuringCall'
  <2>1. s \in Sessions /\ s \in Keys /\ caller' = caller
    BY <1>8 DEF Reset, Keys
  <2>2. \A d \in Cells : SessionOf[d] # s => phase'[d] = phase[d]
    BY <1>1, <1>8, <2>1, OrphanedOnly DEF Reset
  <2>3. \A r \in Sessions : r # s =>
           file'[r] = file[r] /\ expected'[r] = expected[r] /\ (r \in overlapped' <=> r \in overlapped)
    BY <1>8 DEF Reset, Overlaps
  <2>4. s \notin overlapped' => Idle(s) /\ file'[s] = Absent /\ expected'[s] = Empty
    BY <1>8, <2>1 DEF Reset, Overlaps
  <2>5. FileWhenIdle'
    BY <1>2, <2>1, <2>3, <2>4 DEF FileWhenIdle, Idle, AsExpected, Contents
  <2>6. ASSUME NEW d \in Cells, caller'[d] = "waiting", SessionOf[d] \notin overlapped'
        PROVE  FileAsTheCellLeft(d)'
    <3>1. SessionOf[d] # s
      BY <2>1, <2>4, <2>6 DEF Idle
    <3>2. FileAsTheCellLeft(d)
      BY <1>2, <2>1, <2>3, <2>6, <3>1 DEF FileDuringCall
    <3>3. seen' = seen /\ left' = left /\ outcome' = outcome
      BY <1>8 DEF Reset
    <3> QED
      BY <2>2, <2>3, <3>1, <3>2, <3>3 DEF FileAsTheCellLeft, AsExpected
  <2> QED
    BY <2>5, <2>6 DEF FileDuringCall
<1>9. ASSUME NEW c \in Cells, Look(c) PROVE FileWhenIdle' /\ FileDuringCall'
  <2>1. caller[c] = "waiting" /\ seen[c] = Empty /\ outcome[c] = "none"
    BY <1>2, <1>9 DEF Look, CalledWhileOn
  <2>2. FileAsTheCellLeft(c) => FileAsTheCellLeft(c)'
    BY <1>1, <1>9, <2>1, MarksAssumption DEF Look, FileAsTheCellLeft, AsExpected, Contents
  <2> QED
    BY <1>4, <1>9, <2>1, <2>2 DEF Look
<1>10. ASSUME NEW c \in Cells, Load(c) PROVE FileWhenIdle' /\ FileDuringCall'
  <2>1. caller[c] = "waiting" /\ outcome[c] = "none"
    BY <1>2, <1>10 DEF Load, CalledWhileOn
  <2>2. FileAsTheCellLeft(c) => FileAsTheCellLeft(c)'
    BY <1>1, <1>10, <2>1 DEF Load, FileAsTheCellLeft, AsExpected, Contents
  <2> QED
    BY <1>4, <1>10, <2>1, <2>2 DEF Load
<1>11. ASSUME NEW c \in Cells, LoadRaises(c) \/ Fail(c) \/ Raises(c)
       PROVE  FileWhenIdle' /\ FileDuringCall'
  <2>1. caller[c] = "waiting" /\ outcome[c] = "none"
    BY <1>2, <1>11 DEF LoadRaises, Fail, Raises, CalledWhileOn
  <2>2. FileAsTheCellLeft(c) => FileAsTheCellLeft(c)'
    BY <1>11, <2>1 DEF LoadRaises, Fail, Raises, EndsWith, FileAsTheCellLeft, AsExpected
  <2> QED
    BY <1>4, <1>11, <2>1, <2>2 DEF LoadRaises, Fail, Raises, EndsWith
<1>12. ASSUME NEW c \in Cells, Overgrow(c) PROVE FileWhenIdle' /\ FileDuringCall'
  <2>1. caller[c] = "waiting" /\ outcome[c] = "none" /\ Scope(c) \in Keys
    BY <1>2, <1>12, ScopesAreKeys DEF Overgrow, CalledWhileOn
  <2>2. phase'[c] = "over" /\ \A d \in Cells : SessionOf[d] # SessionOf[c] => phase'[d] = phase[d]
    BY <1>1, <1>12, <2>1, OrphanedOnly DEF Overgrow, Phases
  <2>3. FileAsTheCellLeft(c)'
    BY <1>1, <1>12, <2>1, <2>2 DEF Overgrow, KeptOverCap, FileAsTheCellLeft
  <2> QED
    BY <1>1, <1>4, <1>12, <2>1, <2>2, <2>3 DEF Overgrow
<1>13. ASSUME NEW c \in Cells, Open(c) PROVE FileWhenIdle' /\ FileDuringCall'
  <2>1. caller[c] = "waiting" /\ outcome[c] = "none" /\ Scope(c) \in Keys
    BY <1>2, <1>13, ScopesAreKeys DEF Open, CalledWhileOn
  <2>2. FileAsTheCellLeft(c) => FileAsTheCellLeft(c)'
    BY <1>1, <1>13, <2>1 DEF Open, FileAsTheCellLeft
  <2> QED
    BY <1>1, <1>4, <1>13, <2>1, <2>2 DEF Open
<1>14. ASSUME NEW c \in Cells, Save(c) \/ SaveFails(c) PROVE FileWhenIdle' /\ FileDuringCall'
  <2>1. caller[c] = "waiting" /\ outcome[c] = "none" /\ Scope(c) \in Keys
    BY <1>2, <1>14, ScopesAreKeys DEF Save, SaveFails, CalledWhileOn
  <2>2. FileAsTheCellLeft(c) => FileAsTheCellLeft(c)'
    BY <1>1, <1>14, <2>1 DEF Save, SaveFails, EndsWith, FileAsTheCellLeft
  <2>3. Scope(c) = SessionOf[c] /\ \A s \in Sessions : s # SessionOf[c] => file'[s] = file[s]
    BY <1>1, <1>14, <2>1 DEF Save, SaveFails, Keys
  <2>4. \A d \in Cells : d # c =>
          /\ phase'[d] = phase[d] /\ seen'[d] = seen[d]
          /\ left'[d] = left[d] /\ outcome'[d] = outcome[d]
    BY <1>14 DEF Save, SaveFails, EndsWith
  <2>5. caller' = caller /\ overlapped' = overlapped /\ expected' = expected
    BY <1>14 DEF Save, SaveFails
  <2> QED
    BY <1>4, <2>1, <2>2, <2>3, <2>4, <2>5
<1>15. CASE UNCHANGED vars
  BY <1>2, <1>15 DEF vars, FileWhenIdle, FileDuringCall, FileAsTheCellLeft, AsExpected, Idle
<1> QED
  BY <1>5, <1>6, <1>7, <1>8, <1>9, <1>10, <1>11, <1>12, <1>13, <1>14, <1>15 DEF Next, Execute

-----------------------------------------------------------------------------
(* In process, overlapping or not, a session's file, and what its cells load *)
(* and leave, hold variables of that session only.                           *)

OwnNames(ns, s) == \A n \in Names : ns[n] # Unset => SessionOf[ns[n]] = s

OwnVariables ==
    ~remote =>
        /\ \A s \in Sessions : file[s] \in Namespaces => OwnNames(file[s], s)
        /\ \A c \in Cells : OwnNames(seen[c], SessionOf[c]) /\ OwnNames(left[c], SessionOf[c])

LEMMA EmptyIsOwn == ASSUME NEW s PROVE OwnNames(Empty, s)
  BY DEF OwnNames, Empty

\* A cell adds nothing but names of its own.
LEMMA LeftoversAreOwn ==
    ASSUME NEW c \in Cells, NEW ns \in Namespaces, OwnNames(ns, SessionOf[c]),
           NEW after \in Leftovers(c, ns)
    PROVE  OwnNames(after, SessionOf[c])
  BY DEF OwnNames, Leftovers

LEMMA OwnKept == Types /\ OwnVariables /\ [Next]_vars => OwnVariables'
<1> SUFFICES ASSUME Types, OwnVariables, [Next]_vars, ~remote PROVE OwnVariables'
  BY ScopesStay DEF OwnVariables
<1> USE CellsAssumption DEF Types, TypeOK, callerVars, cellVars, history
<1>1. remote' = remote /\ \A c \in Cells : Scope(c) = SessionOf[c] /\ SessionOf[c] \in Sessions
  BY ScopesStay DEF Scope
<1>2. /\ \A s \in Sessions : file[s] \in Namespaces => OwnNames(file[s], s)
      /\ \A c \in Cells : OwnNames(seen[c], SessionOf[c]) /\ OwnNames(left[c], SessionOf[c])
  BY DEF OwnVariables
<1>3. Absent \notin Namespaces /\ Torn \notin Namespaces
  BY MarksAssumption
\* It is enough that a step adds a file that is own, and changes one cell to own.
<1>4. ASSUME \A s \in Sessions :
                file'[s] = file[s] \/ file'[s] \notin Namespaces \/ OwnNames(file'[s], s),
             \A c \in Cells :
                /\ seen'[c] = seen[c] \/ OwnNames(seen'[c], SessionOf[c])
                /\ left'[c] = left[c] \/ OwnNames(left'[c], SessionOf[c])
      PROVE  OwnVariables'
  <2>1. \A s \in Sessions : file'[s] \in Namespaces => OwnNames(file'[s], s)
    BY <1>2, <1>4
  <2>2. \A c \in Cells : OwnNames(seen'[c], SessionOf[c]) /\ OwnNames(left'[c], SessionOf[c])
    BY <1>2, <1>4
  <2> QED
    BY <2>1, <2>2 DEF OwnVariables, OwnNames
<1>5. ASSUME NEW c \in Cells, Answer(c) PROVE OwnVariables'
  BY <1>4, <1>5, EmptyIsOwn DEF Answer
<1>6. ASSUME NEW s \in Sessions, Reset(s) PROVE OwnVariables'
  BY <1>3, <1>4, <1>6 DEF Reset, Keys
<1>7. ASSUME NEW c \in Cells, Load(c) PROVE OwnVariables'
  <2>1. file[SessionOf[c]] \in Namespaces
    BY <1>1, <1>7 DEF Load, Keys
  <2>2. OwnNames(file[SessionOf[c]], SessionOf[c])
    BY <1>1, <1>2, <2>1
  <2> QED
    BY <1>1, <1>4, <1>7, <2>2 DEF Load
<1>8. ASSUME NEW c \in Cells, Overgrow(c) PROVE OwnVariables'
  BY <1>1, <1>3, <1>4, <1>8 DEF Overgrow, KeptOverCap, Keys
<1>9. ASSUME NEW c \in Cells, Open(c) PROVE OwnVariables'
  <2>1. PICK ns \in Leftovers(c, seen[c]) : left' = [left EXCEPT ![c] = ns]
    BY <1>9 DEF Open
  <2>2. OwnNames(ns, SessionOf[c])
    BY <1>2, <2>1, LeftoversAreOwn
  <2> QED
    BY <1>1, <1>3, <1>4, <1>9, <2>1, <2>2 DEF Open, Keys
<1>10. ASSUME NEW c \in Cells, Save(c) PROVE OwnVariables'
  BY <1>1, <1>2, <1>4, <1>10 DEF Save, Keys
<1>11. ASSUME NEW c \in Cells, SaveFails(c) PROVE OwnVariables'
  BY <1>1, <1>3, <1>4, <1>11 DEF SaveFails, Keys
<1>12. ASSUME NEW c \in Cells,
              Call(c) \/ GiveUp(c) \/ Unreachable(c) \/ Look(c) \/ LoadRaises(c) \/ Fail(c)
                 \/ Raises(c)
       PROVE  OwnVariables'
  BY <1>4, <1>12 DEF Call, GiveUp, Unreachable, Look, LoadRaises, Fail, Raises
<1>13. CASE UNCHANGED vars
  BY <1>4, <1>13 DEF vars
<1> QED
  BY <1>5, <1>6, <1>7, <1>8, <1>9, <1>10, <1>11, <1>12, <1>13 DEF Next, Execute

\* In process, no cell finds another session's variables, and a cell of a session
\* whose calls do not overlap finds what the results of its session's calls have told.
THEOREM CarriesOver == Spec => []VariablesCarryOver
<1>1. Init => CarryInv
  BY CellsAssumption
     DEF Init, CarryInv, OneCallEach, CalledWhileOn, FileWhenIdle, FileDuringCall, AsExpected,
         Contents, Keys
<1>2. Init => OwnVariables
  <2> SUFFICES ASSUME Init PROVE OwnVariables
    OBVIOUS
  <2>1. \A s \in Sessions : file[s] \notin Namespaces
    BY MarksAssumption DEF Init, Keys
  <2> QED
    BY <2>1, EmptyIsOwn DEF Init, OwnVariables
<1>3. Types /\ CarryInv /\ OwnVariables => VariablesCarryOver
  <2> SUFFICES ASSUME Types, CarryInv, OwnVariables, ~remote PROVE VariablesCarryOver
    BY DEF VariablesCarryOver
  <2>1. OneNamespacePerSession
    BY DEF OneNamespacePerSession, OwnVariables, OwnNames
  <2>2. \A c \in Cells :
           SessionOf[c] \notin overlapped /\ phase[c] \in {"running", "saving"}
              => seen[c] = expected[SessionOf[c]]
    BY CellsAssumption DEF CarryInv, CalledWhileOn, FileDuringCall, FileAsTheCellLeft
  <2> QED
    BY <2>1, <2>2 DEF VariablesCarryOver
<1> QED
  BY <1>1, <1>2, <1>3, CarryInductive, OwnKept, TypesHold, PTL DEF Spec
==============================================================================
