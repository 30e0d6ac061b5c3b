-------------------------- MODULE ChatServiceProofs --------------------------
(***************************************************************************)
(* Theorems about ChatService, for any number of requests, permits and     *)
(* threads: types, the conservation of permits, what a client is told, the *)
(* counters, and that the endpoint implements Streams.                     *)
(***************************************************************************)
EXTENDS ChatService, FiniteSetTheorems, SequenceTheorems, TLAPS

Holders == {r \in Requests : HoldsPermit(r)}

LEMMA RequestsFinite ==
    ASSUME NEW S \in SUBSET Requests PROVE IsFiniteSet(S) /\ Cardinality(S) \in Nat
<1>1. IsFiniteSet(Requests)
  BY ServiceAssumption
<1>2. IsFiniteSet(S)
  BY <1>1, FS_Subset
<1> QED
  BY <1>2, FS_CardinalityType

LEMMA HoldersFinite ==
    /\ IsFiniteSet(Holders) /\ Cardinality(Holders) \in Nat
    /\ IsFiniteSet(Holders') /\ Cardinality(Holders') \in Nat
<1>1. Holders \in SUBSET Requests /\ Holders' \in SUBSET Requests
  BY DEF Holders
<1> QED
  BY <1>1, RequestsFinite

StageType == stage \in [Requests -> Stages]

THEOREM StagesTyped == Spec => []StageType
<1>1. Init => StageType
  BY DEF Init, StageType, Stages
<1>2. StageType /\ [Next]_vars => StageType'
  <2> SUFFICES ASSUME StageType, [Next]_vars PROVE StageType'
    OBVIOUS
  <2> USE DEF StageType, Stages
  <2>1. ASSUME NEW r \in Requests,
               Refuse(r) \/ Admit(r) \/ StartStream(r) \/ NeverStarted(r) \/ HangUp(r)
                  \/ CancelledAgain(r) \/ StreamEnds(r) \/ Drained(r)
        PROVE  StageType'
    BY <2>1 DEF Refuse, Admit, StartStream, NeverStarted, HangUp, CancelledAgain, StreamEnds,
                Drained, Move
  <2>2. ASSUME NEW r \in Requests, Deliver(r) \/ WorkOn(r) PROVE StageType'
    BY <2>2 DEF Deliver, WorkOn, StartWork, SetupFails, TakeTurn, Emit, Return, Raise, Conclude,
                EndWork, endpointVars
  <2>3. CASE UNCHANGED vars
    BY <2>3 DEF vars
  <2> QED
    BY <2>1, <2>2, <2>3 DEF Next, Serve
<1> QED
  BY <1>1, <1>2, PTL DEF Spec
-----------------------------------------------------------------------------
(* Permits. *)

\* The counter of the semaphore, and the conservation.
PermitInv == permits \in Nat /\ permits + Cardinality(Holders) = MaxConcurrent

LEMMA PermitsInductive == StageType /\ PermitInv /\ [Next]_vars => PermitInv'
<1> SUFFICES ASSUME StageType, PermitInv, [Next]_vars PROVE PermitInv'
  OBVIOUS
<1> USE HoldersFinite, ServiceAssumption DEF StageType, PermitInv
<1>1. ASSUME Holders' = Holders, permits' = permits PROVE PermitInv'
  BY <1>1
<1>2. ASSUME NEW r \in Requests, Admit(r) PROVE PermitInv'
  <2>1. r \notin Holders
    BY <1>2 DEF Admit, Holders, HoldsPermit
  <2>2. Holders' = Holders \cup {r}
    BY <1>2 DEF Admit, Move, Holders, HoldsPermit
  <2>3. Cardinality(Holders') = Cardinality(Holders) + 1
    BY <2>1, <2>2, FS_AddElement
  <2>4. permits' = permits - 1 /\ permits > 0
    BY <1>2 DEF Admit
  <2> QED
    BY <2>3, <2>4
<1>3. ASSUME NEW r \in Requests, Drained(r) \/ CancelledAgain(r) PROVE PermitInv'
  <2>1. r \in Holders
    BY <1>3 DEF Drained, CancelledAgain, Holders, HoldsPermit
  <2>2. Holders' = Holders \ {r}
    BY <1>3 DEF Drained, CancelledAgain, Move, Holders, HoldsPermit
  <2>3. Cardinality(Holders') = Cardinality(Holders) - 1
    BY <2>1, <2>2, FS_RemoveElement
  <2>4. permits' = permits + 1
    BY <1>3 DEF Drained, CancelledAgain, Released
  <2> QED
    BY <2>3, <2>4
<1>4. ASSUME NEW r \in Requests,
             Refuse(r) \/ StartStream(r) \/ NeverStarted(r) \/ HangUp(r) \/ StreamEnds(r)
      PROVE  PermitInv'
  <2>1. permits' = permits
    BY <1>4 DEF Refuse, StartStream, NeverStarted, HangUp, StreamEnds
  <2>2. Holders' = Holders
    BY <1>4 DEF Refuse, StartStream, NeverStarted, HangUp, StreamEnds, Move, Holders, HoldsPermit
  <2> QED
    BY <1>1, <2>1, <2>2
<1>5. ASSUME NEW r \in Requests, Deliver(r) \/ WorkOn(r) PROVE PermitInv'
  <2>1. permits' = permits /\ stage' = stage
    BY <1>5 DEF Deliver, WorkOn, StartWork, SetupFails, TakeTurn, Emit, Return, Raise, Conclude,
                EndWork, endpointVars
  <2>2. Holders' = Holders
    BY <2>1 DEF Holders, HoldsPermit
  <2> QED
    BY <1>1, <2>1, <2>2
<1>6. CASE UNCHANGED vars
  <2>1. permits' = permits /\ Holders' = Holders
    BY <1>6 DEF vars, Holders, HoldsPermit
  <2> QED
    BY <1>1, <2>1
<1> QED
  BY <1>2, <1>3, <1>4, <1>5, <1>6 DEF Next, Serve

LEMMA PermitsHold == Spec => []PermitInv
<1>1. Init => PermitInv
  <2> SUFFICES ASSUME Init PROVE PermitInv
    OBVIOUS
  <2>1. Holders = {}
    BY DEF Init, Holders, HoldsPermit
  <2> QED
    BY <2>1, FS_EmptySet, ServiceAssumption DEF Init, PermitInv
<1> QED
  BY <1>1, PermitsInductive, StagesTyped, PTL DEF Spec

\* Permits are neither lost nor made.
THEOREM PermitsConserved == Spec => []PermitsAreConserved
<1>1. PermitInv => PermitsAreConserved
  BY DEF PermitInv, PermitsAreConserved, Holders
<1> QED
  BY <1>1, PermitsHold, PTL
-----------------------------------------------------------------------------
(* Cancellation. *)

ToldInv == OrphansAreTold /\ cancel \in [Requests -> BOOLEAN]

LEMMA ToldHolds == Spec => []ToldInv
<1>1. Init => ToldInv
  BY DEF Init, ToldInv, OrphansAreTold
<1>2. StageType /\ ToldInv /\ [Next]_vars => ToldInv'
  <2> SUFFICES ASSUME StageType, ToldInv, [Next]_vars PROVE ToldInv'
    OBVIOUS
  <2> USE DEF StageType, ToldInv, OrphansAreTold
  <2>1. ASSUME NEW r \in Requests,
               Refuse(r) \/ Admit(r) \/ StartStream(r) \/ NeverStarted(r) \/ Drained(r)
                  \/ CancelledAgain(r)
        PROVE  ToldInv'
    BY <2>1 DEF Refuse, Admit, StartStream, NeverStarted, Drained, CancelledAgain, Move, sharedVars
  <2>2. ASSUME NEW r \in Requests, HangUp(r) \/ StreamEnds(r) PROVE ToldInv'
    BY <2>2 DEF HangUp, StreamEnds, Move, Signalled
  <2>3. ASSUME NEW r \in Requests, Deliver(r) \/ WorkOn(r) PROVE ToldInv'
    BY <2>3 DEF Deliver, WorkOn, StartWork, SetupFails, TakeTurn, Emit, Return, Raise, Conclude,
                EndWork, endpointVars, sharedVars
  <2>4. CASE UNCHANGED vars
    BY <2>4 DEF vars
  <2> QED
    BY <2>1, <2>2, <2>3, <2>4 DEF Next, Serve
<1> QED
  BY <1>1, <1>2, StagesTyped, PTL DEF Spec

\* No worker runs on for a closing stream without having been told.
THEOREM OrphansTold == Spec => []OrphansAreTold
<1>1. ToldInv => OrphansAreTold
  BY DEF ToldInv
<1> QED
  BY <1>1, ToldHolds, PTL
-----------------------------------------------------------------------------
(* What the client is told. *)

\* How the run ended, as the last event says it.
Final(r) == IF verdict[r] = "raised" THEN "error" ELSE "done"

Last(seq) == seq[Len(seq)]

StreamTypes ==
    /\ sent \in [Requests -> Seq(Events)]
    /\ queue \in [Requests -> Seq(Events \cup {Sentinel})]
    /\ worker \in [Requests -> WorkerPhases]
    /\ verdict \in [Requests -> {"none", "returned", "raised"}]
    /\ gone \in [Requests -> BOOLEAN]

Over(r) == worker[r] \in {"ending", "ended"}

\* The last event is on its way: nothing but the sentinel comes after it.
LastIsSent(r) ==
    \A i \in DOMAIN sent[r] : sent[r][i] # "progress" =>
        /\ i = Len(sent[r]) /\ sent[r][i] = Final(r) /\ Over(r)
        /\ \A j \in DOMAIN queue[r] : queue[r][j] = Sentinel

LastIsQueued(r) ==
    \A i \in DOMAIN queue[r] : queue[r][i] \notin {"progress", Sentinel} =>
        /\ queue[r][i] = Final(r) /\ Over(r)
        /\ \A j \in DOMAIN queue[r] : j > i => queue[r][j] = Sentinel

\* The sentinel is the end of the queue, and the last event is before it.
SentinelEnds(r) ==
    \A i \in DOMAIN queue[r] : queue[r][i] = Sentinel =>
        /\ i = Len(queue[r]) /\ worker[r] = "ended"
        /\ i > 1 => queue[r][i - 1] = Final(r)
        /\ i = 1 => sent[r] # <<>> /\ Last(sent[r]) = Final(r)

\* Between the last event and the sentinel.
LastIsSomewhere(r) ==
    worker[r] = "ending" =>
        \/ queue[r] # <<>> /\ Last(queue[r]) = Final(r)
        \/ queue[r] = <<>> /\ sent[r] # <<>> /\ Last(sent[r]) = Final(r)

\* A stream nobody hung up on has ended with the sentinel.
ClosedKnows(r) ==
    stage[r] \in {"draining", "closed"} /\ ~gone[r] =>
        sent[r] # <<>> /\ Last(sent[r]) = Final(r) /\ worker[r] = "ended"

\* No worker exists before the stream starts.
NothingYet(r) ==
    stage[r] \in {"new", "refused", "admitted", "unstarted"} => worker[r] = "none"

StreamFacts(r) == /\ NothingYet(r) /\ LastIsSent(r) /\ LastIsQueued(r) /\ SentinelEnds(r)
                  /\ LastIsSomewhere(r) /\ ClosedKnows(r)

StreamInv == StreamTypes /\ \A r \in Requests : StreamFacts(r)

\* Sequences, indexed.
LEMMA Appended ==
    ASSUME NEW S, NEW seq \in Seq(S), NEW e \in S
    PROVE  /\ Append(seq, e) \in Seq(S) /\ Len(seq) \in Nat
           /\ Len(Append(seq, e)) = Len(seq) + 1
           /\ DOMAIN seq = 1..Len(seq) /\ DOMAIN Append(seq, e) = 1..(Len(seq) + 1)
           /\ \A i \in 1..Len(seq) : Append(seq, e)[i] = seq[i]
           /\ Append(seq, e)[Len(seq) + 1] = e
           /\ Append(seq, e) # <<>>
  OBVIOUS

LEMMA Beheaded ==
    ASSUME NEW S, NEW seq \in Seq(S), seq # <<>>
    PROVE  /\ Tail(seq) \in Seq(S) /\ Head(seq) \in S /\ Head(seq) = seq[1]
           /\ Len(seq) \in Nat \ {0} /\ Len(Tail(seq)) = Len(seq) - 1
           /\ DOMAIN seq = 1..Len(seq) /\ DOMAIN Tail(seq) = 1..(Len(seq) - 1)
           /\ \A i \in 1..(Len(seq) - 1) : Tail(seq)[i] = seq[i + 1]
           /\ (Tail(seq) = <<>>) <=> (Len(seq) = 1)
<1>1. /\ Tail(seq) \in Seq(S) /\ Head(seq) \in S /\ Head(seq) = seq[1]
      /\ Len(seq) \in Nat \ {0} /\ Len(Tail(seq)) = Len(seq) - 1
  OBVIOUS
<1>2. (Tail(seq) = <<>>) <=> (Len(Tail(seq)) = 0)
  BY <1>1, EmptySeq
<1>3. \A i \in 1..(Len(seq) - 1) : Tail(seq)[i] = seq[i + 1]
  OBVIOUS
<1> QED
  BY <1>1, <1>2, <1>3

\* A step of another request leaves the facts of this one alone.
LEMMA OthersUntouched ==
    ASSUME NEW q \in Requests, StreamFacts(q),
           sent'[q] = sent[q], queue'[q] = queue[q], worker'[q] = worker[q],
           verdict'[q] = verdict[q], stage'[q] = stage[q], gone'[q] = gone[q]
    PROVE  StreamFacts(q)'
  BY DEF StreamFacts, LastIsSent, LastIsQueued, SentinelEnds, LastIsSomewhere, ClosedKnows,
         NothingYet, Final, Over, Last

LEMMA StreamTyped == StageType /\ StreamTypes /\ [Next]_vars => StreamTypes'
<1> SUFFICES ASSUME StageType, StreamTypes, [Next]_vars PROVE StreamTypes'
  OBVIOUS
<1> USE DEF StreamTypes, Events, WorkerPhases, workerVars, sharedVars, endpointVars
<1>1. ASSUME NEW r \in Requests,
             Refuse(r) \/ Admit(r) \/ StartStream(r) \/ NeverStarted(r) \/ HangUp(r)
                \/ CancelledAgain(r) \/ Drained(r)
      PROVE  StreamTypes'
  BY <1>1 DEF Refuse, Admit, StartStream, NeverStarted, HangUp, CancelledAgain, Drained, Work
<1>2. ASSUME NEW r \in Requests, Deliver(r) \/ StreamEnds(r) PROVE StreamTypes'
  <2>1. queue[r] \in Seq(Events \cup {Sentinel}) /\ queue[r] # <<>>
    BY <1>2 DEF Deliver, StreamEnds
  <2>2. Tail(queue[r]) \in Seq(Events \cup {Sentinel}) /\ Head(queue[r]) \in Events \cup {Sentinel}
    BY <2>1
  <2>3. Head(queue[r]) # Sentinel => Append(sent[r], Head(queue[r])) \in Seq(Events)
    BY <2>2
  <2> QED
    BY <1>2, <2>2, <2>3 DEF Deliver, StreamEnds, Push
<1>3. ASSUME NEW r \in Requests, StartWork(r) \/ TakeTurn(r) \/ Emit(r) \/ EndWork(r)
      PROVE  StreamTypes'
  <2>1. /\ Append(queue[r], "progress") \in Seq(Events \cup {Sentinel})
        /\ Append(queue[r], Sentinel) \in Seq(Events \cup {Sentinel})
    BY Appended
  <2> QED
    BY <1>3, <2>1 DEF StartWork, TakeTurn, Emit, EndWork, Work, Push, Terminated
<1>4. ASSUME NEW r \in Requests, NEW result \in Results, Conclude(r, result) PROVE StreamTypes'
  <2>1. Append(queue[r], LastEvent(result)) \in Seq(Events \cup {Sentinel})
    BY Appended DEF LastEvent
  <2> QED
    BY <1>4, <2>1 DEF Conclude, Work, Push
<1>5. ASSUME NEW r \in Requests, SetupFails(r) \/ Return(r) \/ Raise(r) PROVE StreamTypes'
  BY <1>4, <1>5 DEF SetupFails, Return, Raise, Results
<1>6. CASE UNCHANGED vars
  BY <1>6 DEF vars
<1> QED
  BY <1>1, <1>2, <1>3, <1>5, <1>6 DEF Next, Serve, WorkOn

LEMMA StreamKept ==
    ASSUME StageType, StreamTypes, StreamTypes', NEW r \in Requests, StreamFacts(r), [Next]_vars
    PROVE  StreamFacts(r)'
<1> USE DEF StreamTypes, StageType, Events, workerVars, sharedVars, endpointVars
<1>0. /\ queue[r] \in Seq(Events \cup {Sentinel}) /\ sent[r] \in Seq(Events)
      /\ Sentinel \notin Events
  BY DEF Sentinel
<1>1. ASSUME NEW q \in Requests, q # r,
             \/ Refuse(q) \/ Admit(q) \/ StartStream(q) \/ NeverStarted(q) \/ HangUp(q)
             \/ CancelledAgain(q) \/ Drained(q) \/ Deliver(q) \/ StreamEnds(q)
             \/ StartWork(q) \/ TakeTurn(q) \/ Emit(q) \/ EndWork(q)
             \/ \E result \in Results : Conclude(q, result)
      PROVE  StreamFacts(r)'
  <2>1. /\ sent'[r] = sent[r] /\ queue'[r] = queue[r] /\ worker'[r] = worker[r]
        /\ verdict'[r] = verdict[r] /\ stage'[r] = stage[r] /\ gone'[r] = gone[r]
    BY <1>1 DEF Refuse, Admit, StartStream, NeverStarted, HangUp, CancelledAgain, Drained,
                Deliver, StreamEnds, StartWork, TakeTurn, Emit, EndWork, Conclude, Move, Work, Push
  <2> QED
    BY <2>1, OthersUntouched
<1> USE DEF StreamFacts, LastIsSent, LastIsQueued, SentinelEnds, LastIsSomewhere, ClosedKnows,
            NothingYet, Final, Over, Last, Sentinel
<1>2. CASE Refuse(r) \/ Admit(r) \/ NeverStarted(r) \/ HangUp(r) \/ Drained(r)
  BY <1>2 DEF Refuse, Admit, NeverStarted, HangUp, Drained, Move
<1>3. CASE StartWork(r) \/ TakeTurn(r) \/ CancelledAgain(r)
  BY <1>3 DEF StartWork, TakeTurn, CancelledAgain, Move, Work
<1>4. CASE StartStream(r)
  BY <1>4 DEF StartStream, Move, Work
<1>5. CASE Emit(r)
  BY <1>0, <1>5 DEF Emit, Push
<1>6. CASE EndWork(r)
  BY <1>0, <1>6 DEF EndWork, Push, Work, Terminated
<1>7. ASSUME NEW result \in Results, Conclude(r, result), worker[r] \in {"queued", "running"}
      PROVE  StreamFacts(r)'
  <2> DEFINE e == LastEvent(result)
  <2>1. /\ e \in Events \cup {Sentinel} /\ e \notin {"progress", Sentinel}
        /\ queue'[r] = Append(queue[r], e) /\ sent'[r] = sent[r]
        /\ worker'[r] = "ending" /\ stage'[r] = stage[r] /\ gone'[r] = gone[r]
        /\ verdict'[r] = IF e = "error" THEN "raised" ELSE "returned"
        /\ e \in {"error", "done"}
    BY <1>0, <1>7 DEF Conclude, Push, Work, LastEvent
  <2>2. /\ \A i \in DOMAIN sent[r] : sent[r][i] = "progress"
        /\ \A i \in DOMAIN queue[r] : queue[r][i] = "progress"
        /\ stage[r] \notin {"new", "refused", "admitted", "unstarted"}
        /\ ~(stage[r] \in {"draining", "closed"} /\ ~gone[r])
    BY <1>0, <1>7
  <2> HIDE DEF e
  <2> QED
    BY <1>0, <2>1, <2>2, Appended
<1>8. CASE Deliver(r)
  <2>1. /\ queue[r] # <<>> /\ queue[r][1] # Sentinel
        /\ sent'[r] = Append(sent[r], queue[r][1]) /\ queue'[r] = Tail(queue[r])
        /\ worker'[r] = worker[r] /\ verdict'[r] = verdict[r]
        /\ stage'[r] = "streaming" /\ stage[r] = "streaming" /\ gone'[r] = gone[r]
    BY <1>0, <1>8, Beheaded DEF Deliver, Push
  <2>2. queue[r][1] \in Events /\ 1 \in DOMAIN queue[r]
    BY <1>0, <2>1, Beheaded
  <2>3. /\ Len(sent'[r]) = Len(sent[r]) + 1 /\ Len(sent[r]) \in Nat
        /\ \A i \in 1..Len(sent[r]) : sent'[r][i] = sent[r][i]
        /\ sent'[r][Len(sent[r]) + 1] = queue[r][1]
        /\ DOMAIN sent'[r] = 1..(Len(sent[r]) + 1) /\ DOMAIN sent[r] = 1..Len(sent[r])
        /\ sent'[r] # <<>>
    <3> DEFINE s == sent[r]
               e == queue[r][1]
    <3>1. s \in Seq(Events) /\ e \in Events /\ sent'[r] = Append(s, e)
      BY <1>0, <2>1, <2>2
    <3> HIDE DEF s, e, Events
    <3>2. /\ Append(s, e) \in Seq(Events) /\ Len(s) \in Nat
          /\ Len(Append(s, e)) = Len(s) + 1
          /\ DOMAIN s = 1..Len(s) /\ DOMAIN Append(s, e) = 1..(Len(s) + 1)
          /\ \A i \in 1..Len(s) : Append(s, e)[i] = s[i]
          /\ Append(s, e)[Len(s) + 1] = e
          /\ Append(s, e) # <<>>
      BY <3>1, Appended, Zenon
    <3> QED
      BY <3>1, <3>2 DEF s, e
  <2>4. /\ Len(queue[r]) \in Nat \ {0} /\ Len(queue'[r]) = Len(queue[r]) - 1
        /\ DOMAIN queue[r] = 1..Len(queue[r]) /\ DOMAIN queue'[r] = 1..(Len(queue[r]) - 1)
        /\ \A i \in 1..(Len(queue[r]) - 1) : queue'[r][i] = queue[r][i + 1]
        /\ (queue'[r] = <<>>) <=> (Len(queue[r]) = 1)
    <3> DEFINE q == queue[r]
               S == Events \cup {Sentinel}
    <3>1. q \in Seq(S) /\ q # <<>> /\ queue'[r] = Tail(q)
      BY <1>0, <2>1
    <3> HIDE DEF q, S
    <3>2. /\ Len(q) \in Nat \ {0} /\ Len(Tail(q)) = Len(q) - 1
          /\ DOMAIN q = 1..Len(q) /\ DOMAIN Tail(q) = 1..(Len(q) - 1)
          /\ \A i \in 1..(Len(q) - 1) : Tail(q)[i] = q[i + 1]
          /\ (Tail(q) = <<>>) <=> (Len(q) = 1)
      BY <3>1, Beheaded
    <3> QED
      BY <3>1, <3>2 DEF q
  <2>5. \A i \in DOMAIN sent[r] : sent[r][i] = "progress"
    BY <2>1, <2>2
  <2>6. queue[r][1] # "progress" =>
            /\ queue[r][1] = Final(r) /\ Over(r)
            /\ \A j \in DOMAIN queue[r] : j > 1 => queue[r][j] = Sentinel
    BY <2>1, <2>2
  <2>7. LastIsSent(r)'
    BY <2>1, <2>3, <2>4, <2>5, <2>6
  <2>8. LastIsQueued(r)'
    BY <2>1, <2>4
  <2>9. SentinelEnds(r)'
    <3>1. ASSUME NEW i \in 1..(Len(queue[r]) - 1), queue[r][i + 1] = Sentinel
          PROVE  /\ i = Len(queue[r]) - 1 /\ worker[r] = "ended"
                 /\ queue[r][i] = Final(r)
      <4> DEFINE k == i + 1
      <4>1. k \in DOMAIN queue[r] /\ k > 1 /\ k - 1 = i
        BY <2>4
      <4>2. queue[r][k] = Sentinel
        BY <3>1
      <4>3. SentinelEnds(r)
        OBVIOUS
      <4> HIDE DEF k, Final, Sentinel
      <4>4. k = Len(queue[r]) /\ worker[r] = "ended" /\ queue[r][k - 1] = Final(r)
        BY <4>1, <4>2, <4>3
      <4> QED
        BY <4>1, <4>4, <2>4
    <3>2. ASSUME NEW i \in DOMAIN queue'[r], queue'[r][i] = Sentinel
          PROVE  /\ i = Len(queue'[r]) /\ worker'[r] = "ended"
                 /\ i > 1 => queue'[r][i - 1] = Final(r)
                 /\ i = 1 => sent'[r] # <<>> /\ sent'[r][Len(sent'[r])] = Final(r)
      <4>1. i \in 1..(Len(queue[r]) - 1) /\ queue[r][i + 1] = Sentinel
        BY <2>4, <3>2
      <4>2. i = Len(queue[r]) - 1 /\ worker[r] = "ended" /\ queue[r][i] = Final(r)
        BY <3>1, <4>1
      <4>3. i > 1 => queue'[r][i - 1] = queue[r][i]
        BY <2>4, <4>1
      <4> HIDE DEF Final
      <4> QED
        BY <2>1, <2>3, <2>4, <4>1, <4>2, <4>3
    <3>3. Final(r)' = Final(r)
      BY <2>1
    <3> HIDE DEF Final
    <3> QED
      BY <3>2, <3>3
  <2>10. LastIsSomewhere(r)'
    BY <2>1, <2>3, <2>4
  <2> QED
    BY <2>1, <2>7, <2>8, <2>9, <2>10
<1>9. CASE StreamEnds(r)
  BY <1>0, <1>9 DEF StreamEnds, Push, Move
<1>10. CASE UNCHANGED vars
  BY <1>10 DEF vars
<1>11. ASSUME NEW q \in Requests, SetupFails(q) \/ Return(q) \/ Raise(q)
       PROVE  worker[q] \in {"queued", "running"} /\ \E result \in Results : Conclude(q, result)
  BY <1>11 DEF SetupFails, Return, Raise, Results
<1> QED
  BY <1>1, <1>2, <1>3, <1>4, <1>5, <1>6, <1>7, <1>8, <1>9, <1>10, <1>11 DEF Next, Serve, WorkOn

LEMMA StreamHolds == Spec => []StreamInv
<1>1. Init => StreamInv
  BY DEF Init, StreamInv, StreamTypes, StreamFacts, LastIsSent, LastIsQueued, SentinelEnds,
         LastIsSomewhere, ClosedKnows, NothingYet, WorkerPhases, Sentinel
<1>2. StageType /\ StreamInv /\ [Next]_vars => StreamInv'
  BY StreamTyped, StreamKept DEF StreamInv
<1> QED
  BY <1>1, <1>2, StagesTyped, PTL DEF Spec

\* A client that stayed has been told how the run ended when its stream closes.
THEOREM OutcomeTold == Spec => []StreamTellsTheOutcome
<1>1. StreamInv => StreamTellsTheOutcome
  BY DEF StreamInv, StreamFacts, LastIsSent, ClosedKnows, Final, Last, StreamTellsTheOutcome
<1> QED
  BY <1>1, StreamHolds, PTL
-----------------------------------------------------------------------------
(* The counters. *)

Pending == {r \in Requests : Uncounted(r)}
Refused == {r \in Requests : stage[r] = "refused"}

CountsTyped == metrics \in [Counters -> Nat] /\ progress \in [Requests -> 0..MaxProgress]

CountInv == CountsTyped /\ CountersAddUp

\* What the counting of one step needs of the others: types, and that a worker
\* has a stream.
Staged == StageType /\ StreamTypes /\ \A r \in Requests : NothingYet(r)

LEMMA SetsFinite ==
    /\ IsFiniteSet(Pending) /\ Cardinality(Pending) \in Nat
    /\ IsFiniteSet(Refused) /\ Cardinality(Refused) \in Nat
<1>1. Pending \in SUBSET Requests /\ Refused \in SUBSET Requests
  BY DEF Pending, Refused
<1> QED
  BY <1>1, RequestsFinite

LEMMA CountsStayTyped == CountsTyped /\ [Next]_vars => CountsTyped'
<1> SUFFICES ASSUME CountsTyped, [Next]_vars PROVE CountsTyped'
  OBVIOUS
<1> USE ServiceAssumption DEF CountsTyped, Counted, workerVars, endpointVars
<1>1. ASSUME NEW r \in Requests,
             Refuse(r) \/ Admit(r) \/ StartStream(r) \/ NeverStarted(r) \/ HangUp(r)
                \/ CancelledAgain(r) \/ Serve(r)
      PROVE  CountsTyped'
  BY <1>1 DEF Refuse, Admit, StartStream, NeverStarted, HangUp, CancelledAgain, Serve, Deliver,
              StreamEnds, Drained
<1>2. ASSUME NEW r \in Requests, NEW result, Conclude(r, result) PROVE CountsTyped'
  BY <1>2 DEF Conclude
<1>3. ASSUME NEW r \in Requests, WorkOn(r) PROVE CountsTyped'
  BY <1>2, <1>3 DEF WorkOn, StartWork, SetupFails, TakeTurn, Emit, Return, Raise, EndWork
<1>4. CASE UNCHANGED vars
  BY <1>4 DEF vars
<1> QED
  BY <1>1, <1>3, <1>4 DEF Next

\* The equations, over the two sets.
Balanced ==
    /\ metrics["requests"] = metrics["answers"] + metrics["clarifications"]
                               + metrics["cancelled"] + metrics["errors"] + Cardinality(Pending)
    /\ metrics["ungrounded_blocked"] <= metrics["errors"]
    /\ metrics["overloaded"] = Cardinality(Refused)

LEMMA BalanceIsAddingUp == (CountersAddUp <=> Balanced) /\ (CountersAddUp' <=> Balanced')
BY DEF CountersAddUp, Balanced, Pending, Refused

LEMMA CountedAre ==
    ASSUME CountsTyped, NEW names, metrics' = Counted(names)
    PROVE  \A c \in Counters : /\ metrics[c] \in Nat
                               /\ metrics'[c] = IF c \in names THEN metrics[c] + 1 ELSE metrics[c]
BY DEF CountsTyped, Counted

LEMMA CounterNames ==
    {"requests", "overloaded", "answers", "clarifications", "cancelled", "errors",
     "ungrounded_blocked"} \subseteq Counters
BY DEF Counters

\* A step that counts nothing and moves nobody in or out of the two sets.
LEMMA NothingCounted ==
    ASSUME CountersAddUp, metrics' = metrics, Pending' = Pending, Refused' = Refused
    PROVE  CountersAddUp'
BY DEF CountersAddUp, Pending, Refused

LEMMA RefusalCounted ==
    ASSUME Staged, CountInv, NEW r \in Requests, Refuse(r) PROVE CountersAddUp'
<1>1. stage[r] = "new" /\ stage' = [stage EXCEPT ![r] = "refused"] /\ worker' = worker
  BY DEF Refuse, Move, workerVars
<1>2. Pending' = Pending
  BY <1>1 DEF Pending, Uncounted, Staged, StageType
<1>3. Refused' = Refused \cup {r} /\ r \notin Refused
  BY <1>1 DEF Refused, Staged, StageType
<1>4. Cardinality(Refused') = Cardinality(Refused) + 1
  BY <1>3, SetsFinite, FS_AddElement
<1>5. \A c \in Counters : metrics'[c] = IF c = "overloaded" THEN metrics[c] + 1 ELSE metrics[c]
  BY DEF Refuse, Counted
<1> QED
  BY <1>2, <1>4, <1>5 DEF CountInv, CountersAddUp, Pending, Refused, Counters

LEMMA AdmissionCounted ==
    ASSUME Staged, CountInv, NEW r \in Requests, Admit(r) PROVE CountersAddUp'
<1>1. /\ stage[r] = "new" /\ stage' = [stage EXCEPT ![r] = "admitted"] /\ worker' = worker
      /\ worker[r] = "none"
  BY DEF Admit, Move, workerVars, Staged, NothingYet
<1>2. Pending' = Pending \cup {r} /\ r \notin Pending
  BY <1>1 DEF Pending, Uncounted, Staged, StageType
<1>3. Refused' = Refused
  BY <1>1 DEF Refused, Staged, StageType
<1>4. Cardinality(Pending') = Cardinality(Pending) + 1 /\ Cardinality(Pending) \in Nat
  BY <1>2, SetsFinite, FS_AddElement
<1>5. metrics' = Counted({"requests"})
  BY DEF Admit
<1>6. Balanced
  BY BalanceIsAddingUp DEF CountInv
<1>7. Balanced'
  <2>1. \A c \in Counters :
           /\ metrics[c] \in Nat
           /\ metrics'[c] = IF c \in {"requests"} THEN metrics[c] + 1 ELSE metrics[c]
    BY <1>5, CountedAre DEF CountInv
  <2>2. /\ metrics'["requests"] = metrics["requests"] + 1
        /\ \A c \in Counters \ {"requests"} : metrics'[c] = metrics[c]
    BY <2>1, CounterNames
  <2>3. Cardinality(Refused') = Cardinality(Refused)
    BY <1>3
  <2> QED
    BY <1>4, <1>6, <2>1, <2>2, <2>3, CounterNames DEF Balanced
<1> QED
  BY <1>7, BalanceIsAddingUp

\* A result is one of four kinds, and only an error can have been blocked.
LEMMA OneKind ==
    ASSUME NEW result \in Results
    PROVE  \/ CountersOf(result) = {"answers"}
           \/ CountersOf(result) = {"clarifications"}
           \/ CountersOf(result) = {"cancelled"}
           \/ CountersOf(result) = {"errors"}
           \/ CountersOf(result) = {"errors", "ungrounded_blocked"}
BY DEF CountersOf, Results

LEMMA OutcomeCounted ==
    ASSUME Staged, CountInv, NEW r \in Requests, NEW result \in Results,
           worker[r] \in {"queued", "running"}, Conclude(r, result)
    PROVE  CountersAddUp'
<1>1. worker' = [worker EXCEPT ![r] = "ending"] /\ stage' = stage
  BY DEF Conclude, Work, endpointVars
<1>2. Pending' = Pending \ {r} /\ r \in Pending
  BY <1>1 DEF Pending, Uncounted, Staged, StreamTypes, NothingYet
<1>3. Refused' = Refused
  BY <1>1 DEF Refused
<1>4. Cardinality(Pending') = Cardinality(Pending) - 1 /\ Cardinality(Pending) \in Nat
  BY <1>2, SetsFinite, FS_RemoveElement
<1>5. metrics' = Counted(CountersOf(result))
  BY DEF Conclude
<1>6. Balanced
  BY BalanceIsAddingUp DEF CountInv
<1> DEFINE names == CountersOf(result)
<1>7. \A c \in Counters : /\ metrics[c] \in Nat
                          /\ metrics'[c] = IF c \in names THEN metrics[c] + 1 ELSE metrics[c]
  BY <1>5, CountedAre DEF CountInv
<1> HIDE DEF names
<1>8. Balanced'
  <2> USE <1>3, <1>4, <1>6, <1>7, CounterNames DEF Balanced
  <2>1. CASE names = {"answers"}
    BY <2>1
  <2>2. CASE names = {"clarifications"}
    BY <2>2
  <2>3. CASE names = {"cancelled"}
    BY <2>3
  <2>4. CASE names = {"errors"}
    BY <2>4
  <2>5. CASE names = {"errors", "ungrounded_blocked"}
    <3>1. /\ metrics'["errors"] = metrics["errors"] + 1
          /\ metrics'["ungrounded_blocked"] = metrics["ungrounded_blocked"] + 1
          /\ \A c \in Counters \ names : metrics'[c] = metrics[c]
      BY <2>5
    <3>2. Cardinality(Refused') = Cardinality(Refused)
      OBVIOUS
    <3> QED
      BY <2>5, <3>1, <3>2
  <2> QED
    BY <2>1, <2>2, <2>3, <2>4, <2>5, OneKind DEF names
<1> QED
  BY <1>8, BalanceIsAddingUp

LEMMA CountsKept == Staged /\ CountInv /\ [Next]_vars => CountersAddUp'
<1> SUFFICES ASSUME Staged, CountInv, [Next]_vars PROVE CountersAddUp'
  OBVIOUS
<1> USE DEF Staged, StageType, StreamTypes
<1>1. ASSUME NEW r \in Requests,
             StartStream(r) \/ NeverStarted(r) \/ HangUp(r) \/ CancelledAgain(r) \/ Serve(r)
      PROVE  CountersAddUp'
  <2>1. metrics' = metrics
    BY <1>1 DEF StartStream, NeverStarted, HangUp, CancelledAgain, Serve, Deliver, StreamEnds,
                Drained
  <2>2. Pending' = Pending
    BY <1>1 DEF StartStream, NeverStarted, HangUp, CancelledAgain, Serve, Deliver, StreamEnds,
                Drained, Move, Work, workerVars, Pending, Uncounted, NothingYet
  <2>3. Refused' = Refused
    BY <1>1 DEF StartStream, NeverStarted, HangUp, CancelledAgain, Serve, Deliver, StreamEnds,
                Drained, Move, Refused
  <2> QED
    BY <2>1, <2>2, <2>3, NothingCounted DEF CountInv
<1>2. ASSUME NEW r \in Requests, StartWork(r) \/ TakeTurn(r) \/ Emit(r) \/ EndWork(r)
      PROVE  CountersAddUp'
  <2>1. metrics' = metrics /\ stage' = stage
    BY <1>2 DEF StartWork, TakeTurn, Emit, EndWork, endpointVars
  <2>2. Pending' = Pending
    BY <1>2, <2>1 DEF StartWork, TakeTurn, Emit, EndWork, Work, Pending, Uncounted
  <2> QED
    BY <2>1, <2>2, NothingCounted DEF CountInv, Refused
<1>3. ASSUME NEW r \in Requests, SetupFails(r) \/ Return(r) \/ Raise(r) PROVE CountersAddUp'
  <2>1. PICK result \in Results : Conclude(r, result)
    BY <1>3 DEF SetupFails, Return, Raise, Results
  <2>2. worker[r] \in {"queued", "running"}
    BY <1>3 DEF SetupFails, Return, Raise
  <2> QED
    BY <2>1, <2>2, OutcomeCounted
<1>4. CASE UNCHANGED vars
  BY <1>4, NothingCounted DEF vars, CountInv, Pending, Uncounted, Refused
<1> QED
  BY <1>1, <1>2, <1>3, <1>4, RefusalCounted, AdmissionCounted DEF Next, WorkOn

LEMMA CountsHold == Spec => []CountInv
<1>1. Init => CountInv
  <2> SUFFICES ASSUME Init PROVE CountInv
    OBVIOUS
  <2>1. Pending = {} /\ Refused = {}
    BY DEF Init, Pending, Refused, Uncounted
  <2>2. Cardinality(Pending) = 0 /\ Cardinality(Refused) = 0
    BY <2>1, FS_EmptySet
  <2> QED
    BY <2>2, ServiceAssumption DEF Init, CountInv, CountsTyped, CountersAddUp, Counters,
                                   Pending, Refused
<1>2. StageType /\ StreamInv => Staged
  BY DEF StreamInv, Staged, StreamFacts
<1>3. Staged /\ CountInv /\ [Next]_vars => CountInv'
  BY CountsKept, CountsStayTyped DEF CountInv
<1> QED
  BY <1>1, <1>2, <1>3, StagesTyped, StreamHolds, PTL DEF Spec

\* Every admitted request is counted once, by the kind of its outcome, however
\* requests, workers and clients interleave.
THEOREM CountersCorrect == Spec => []CountersAddUp
<1>1. CountInv => CountersAddUp
  BY DEF CountInv
<1> QED
  BY <1>1, CountsHold, PTL

\* Every variable has its type; a permit is never released beyond the limit.
THEOREM TypeCorrect == Spec => []TypeOK
<1>1. PermitInv => permits \in 0..MaxConcurrent
  BY HoldersFinite, ServiceAssumption DEF PermitInv
<1>2. StageType /\ PermitInv /\ ToldInv /\ StreamInv /\ CountInv => TypeOK
  BY <1>1 DEF StageType, ToldInv, StreamInv, StreamTypes, CountInv, CountsTyped, TypeOK
<1> QED
  BY <1>2, StagesTyped, PermitsHold, ToldHolds, StreamHolds, CountsHold, PTL
-----------------------------------------------------------------------------
(* The endpoint implements Streams. *)

\* A client is gone only from a stream that ends or never began, and the run has
\* an outcome exactly when its worker is past it.
Ways(r) ==
    /\ gone[r] => stage[r] \in {"unstarted", "draining", "closed"}
    /\ stage[r] = "unstarted" => gone[r]
    /\ verdict[r] # "none" <=> Over(r)

WaysInv == \A r \in Requests : Ways(r)

LEMMA WaysKept ==
    ASSUME StageType, StreamInv, WaysInv, [Next]_vars PROVE WaysInv'
<1> USE DEF StageType, StreamInv, StreamTypes, WaysInv, Ways, Over
<1>1. ASSUME NEW r \in Requests,
             Refuse(r) \/ Admit(r) \/ StartStream(r) \/ NeverStarted(r) \/ HangUp(r) \/ StreamEnds(r)
                \/ Drained(r) \/ Deliver(r)
      PROVE  WaysInv'
  BY <1>1 DEF Refuse, Admit, StartStream, NeverStarted, HangUp, StreamEnds, Drained, Deliver,
              Move, Work, workerVars, StreamFacts, NothingYet
<1>2. ASSUME NEW r \in Requests,
             StartWork(r) \/ TakeTurn(r) \/ Emit(r) \/ EndWork(r) \/ CancelledAgain(r)
      PROVE  WaysInv'
  BY <1>2 DEF StartWork, TakeTurn, Emit, EndWork, CancelledAgain, Move, Work, endpointVars
<1>3. ASSUME NEW r \in Requests, SetupFails(r) \/ Return(r) \/ Raise(r) PROVE WaysInv'
  <2>1. PICK result : Conclude(r, result)
    BY <1>3 DEF SetupFails, Return, Raise
  <2> QED
    BY <2>1 DEF Conclude, Work, endpointVars
<1>4. CASE UNCHANGED vars
  BY <1>4 DEF vars
<1> QED
  BY <1>1, <1>2, <1>3, <1>4 DEF Next, Serve, WorkOn

StreamsInv == StageType /\ PermitInv /\ StreamInv /\ WaysInv

LEMMA StreamsHolds == Spec => []StreamsInv
<1>1. Init => WaysInv
  BY DEF Init, WaysInv, Ways, Over
<1>2. StageType /\ StreamInv /\ WaysInv /\ [Next]_vars => WaysInv'
  BY WaysKept
<1> QED
  BY <1>1, <1>2, StagesTyped, PermitsHold, StreamHolds, PTL DEF Spec, StreamsInv

\* Who occupies the capacity is who holds a permit.
LEMMA OccupiedAreHolders ==
    ASSUME StreamsInv PROVE Stream!Occupied = Holders
BY DEF StreamsInv, StageType, Stages, Stream!Occupied, StateOf, Holders, HoldsPermit

\* Streams counts as ChatService does.
LEMMA SameCardinality ==
    ASSUME NEW S PROVE Stream!Cardinality(S) = Cardinality(S)
BY DEF Stream!Cardinality, Cardinality

LEMMA AdmissionIsStreams ==
    ASSUME StreamsInv, NEW r \in Requests, Refuse(r) \/ Admit(r) PROVE Stream!Next
<1> USE DEF StreamsInv, StageType
<1>1. /\ StateOf[r] = "new" /\ sent' = sent /\ verdict' = verdict /\ gone' = gone
      /\ permits \in Nat /\ permits + Cardinality(Stream!Occupied) = MaxConcurrent
      /\ Cardinality(Stream!Occupied) \in Nat
  BY OccupiedAreHolders, HoldersFinite DEF Refuse, Admit, StateOf, workerVars, PermitInv
<1>2. CASE Refuse(r)
  <2>1. StateOf' = [StateOf EXCEPT ![r] = "refused"]
    BY <1>1, <1>2 DEF Refuse, Move, StateOf
  <2>2. Cardinality(Stream!Occupied) = MaxConcurrent
    BY <1>1, <1>2 DEF Refuse
  <2>3. Stream!Refuse(r)
    BY <1>1, <2>1, <2>2, SameCardinality DEF Stream!Refuse, Stream!Move
  <2> QED
    BY <2>3 DEF Stream!Next
<1>3. CASE Admit(r)
  <2>1. StateOf' = [StateOf EXCEPT ![r] = "served"]
    BY <1>1, <1>3 DEF Admit, Move, StateOf, StreamsInv, WaysInv, Ways
  <2>2. Cardinality(Stream!Occupied) < MaxConcurrent
    BY <1>1, <1>3, ServiceAssumption DEF Admit
  <2>3. Stream!Admit(r)
    BY <1>1, <2>1, <2>2, SameCardinality DEF Stream!Admit, Stream!Move
  <2> QED
    BY <2>3 DEF Stream!Next
<1> QED
  BY <1>2, <1>3

LEMMA DepartureIsStreams ==
    ASSUME StreamsInv, NEW r \in Requests, NeverStarted(r) \/ HangUp(r) PROVE Stream!Next
<1> USE DEF StreamsInv, StageType, WaysInv, Ways
<1>1. /\ StateOf[r] = "served" /\ sent' = sent /\ verdict' = verdict
  BY DEF NeverStarted, HangUp, StateOf, workerVars
<1>2. StateOf' = [StateOf EXCEPT ![r] = "left"]
  BY DEF NeverStarted, HangUp, Move, StateOf, StreamInv, StreamTypes
<1>3. Stream!Leave(r)
  BY <1>1, <1>2 DEF Stream!Leave, Stream!Move
<1> QED
  BY <1>3 DEF Stream!Next

LEMMA ClosingIsStreams ==
    ASSUME StreamsInv, NEW r \in Requests, Drained(r) \/ CancelledAgain(r) PROVE Stream!Next
<1> USE DEF StreamsInv, StageType
<1>1. sent' = sent /\ verdict' = verdict /\ gone' = gone /\ stage[r] = "draining"
  BY DEF Drained, CancelledAgain, workerVars
<1>2. StateOf' = [StateOf EXCEPT ![r] = "closed"]
  BY <1>1 DEF Drained, CancelledAgain, Move, StateOf
<1>3. StateOf[r] = IF gone[r] THEN "left" ELSE "served"
  BY <1>1 DEF StateOf
<1>4. CASE gone[r]
  <2>1. Stream!Close(r)
    BY <1>1, <1>2, <1>3, <1>4 DEF Stream!Close, Stream!Move
  <2> QED
    BY <2>1 DEF Stream!Next
<1>5. CASE ~gone[r]
  <2>1. sent[r] \in Seq(Events) /\ sent[r] # <<>> /\ sent[r][Len(sent[r])] = Final(r)
    BY <1>1, <1>5 DEF StreamInv, StreamTypes, StreamFacts, ClosedKnows, Last
  <2>2. Len(sent[r]) \in DOMAIN sent[r]
    BY <2>1
  <2>3. Stream!Knows(r)
    BY <2>1, <2>2 DEF Stream!Knows, Final
  <2>4. Stream!Close(r)
    BY <1>1, <1>2, <1>3, <1>5, <2>3 DEF Stream!Close, Stream!Move
  <2> QED
    BY <2>4 DEF Stream!Next
<1> QED
  BY <1>4, <1>5

\* What a client receives is progress or the outcome, and nothing after that.
LEMMA DeliveryIsStreams ==
    ASSUME StreamsInv, NEW r \in Requests, Deliver(r) PROVE Stream!Next
<1> USE DEF StreamsInv, StageType
<1>1. /\ stage[r] = "streaming" /\ stage' = stage /\ gone' = gone /\ verdict' = verdict
      /\ sent' = [sent EXCEPT ![r] = Append(@, Head(queue[r]))]
      /\ queue[r] # <<>> /\ Head(queue[r]) # Sentinel
  BY DEF Deliver, workerVars
<1>2. /\ queue[r] \in Seq(Events \cup {Sentinel}) /\ StreamFacts(r)
      /\ verdict[r] \in {"none", "returned", "raised"}
  BY DEF StreamInv, StreamTypes
<1>3. 1 \in DOMAIN queue[r] /\ Head(queue[r]) = queue[r][1]
  BY <1>1, <1>2, Beheaded
<1>4. StateOf[r] = "served" /\ StateOf' = StateOf
  BY <1>1 DEF StateOf, WaysInv, Ways
<1>5. ~Stream!Knows(r)
  BY <1>1, <1>2, <1>3 DEF Stream!Knows, StreamFacts, LastIsSent
<1>6. Head(queue[r]) \in {"progress"} \cup (IF verdict[r] = "none" THEN {} ELSE {Stream!News(r)})
  <2>1. CASE queue[r][1] = "progress"
    BY <1>3, <2>1
  <2>2. CASE queue[r][1] # "progress"
    <3>1. queue[r][1] = Final(r) /\ Over(r)
      BY <1>1, <1>2, <1>3, <2>2 DEF StreamFacts, LastIsQueued
    <3>2. verdict[r] # "none"
      BY <3>1 DEF WaysInv, Ways
    <3> QED
      BY <1>3, <3>1, <3>2 DEF Final, Stream!News
  <2> QED
    BY <2>1, <2>2
<1>7. Stream!Tell(r)
  BY <1>1, <1>4, <1>5, <1>6 DEF Stream!Tell
<1> QED
  BY <1>7 DEF Stream!Next

LEMMA EndingIsStreams ==
    ASSUME StreamsInv, NEW r \in Requests, SetupFails(r) \/ Return(r) \/ Raise(r)
    PROVE  Stream!Next
<1> USE DEF StreamsInv, StageType
<1>1. PICK result : Conclude(r, result)
  BY DEF SetupFails, Return, Raise
<1>2. worker[r] \in {"queued", "running"}
  BY DEF SetupFails, Return, Raise
<1>3. stage[r] \notin {"new", "refused"} /\ verdict[r] = "none"
  BY <1>2 DEF StreamInv, StreamFacts, NothingYet, WaysInv, Ways, Over
<1>4. stage' = stage /\ gone' = gone /\ sent' = sent
  BY <1>1 DEF Conclude, endpointVars
<1>5. StateOf' = StateOf /\ StateOf[r] \in {"served", "left", "closed"}
  BY <1>3, <1>4 DEF StateOf, Stages
<1>6. \E how \in {"returned", "raised"} : verdict' = [verdict EXCEPT ![r] = how]
  BY <1>1 DEF Conclude
<1>7. Stream!EndRun(r)
  BY <1>3, <1>4, <1>5, <1>6 DEF Stream!EndRun
<1> QED
  BY <1>7 DEF Stream!Next

\* Threads, turns, progress on its way and the sentinel are inside.
LEMMA InsideIsStreams ==
    ASSUME StreamsInv, NEW r \in Requests,
           \/ StartStream(r) \/ StreamEnds(r) \/ StartWork(r) \/ TakeTurn(r) \/ Emit(r) \/ EndWork(r)
    PROVE  UNCHANGED Stream!vars
<1>1. sent' = sent /\ verdict' = verdict /\ gone' = gone
  BY DEF StartStream, StreamEnds, StartWork, TakeTurn, Emit, EndWork, endpointVars, workerVars
<1>2. StateOf' = StateOf
  BY <1>1 DEF StreamsInv, StageType, StartStream, StreamEnds, StartWork, TakeTurn, Emit, EndWork,
              Move, StateOf, endpointVars
<1> QED
  BY <1>1, <1>2 DEF Stream!vars

\* Seen from its clients and from its capacity, the endpoint is Streams.
THEOREM EndpointIsStreams == Spec => ImplementsStreams
<1>1. Init => Stream!Init
  BY DEF Init, Stream!Init, StateOf
<1>2. StreamsInv /\ [Next]_vars => [Stream!Next]_(Stream!vars)
  <2> SUFFICES ASSUME StreamsInv, [Next]_vars PROVE [Stream!Next]_(Stream!vars)
    OBVIOUS
  <2>1. CASE UNCHANGED vars
    BY <2>1 DEF vars, Stream!vars, StateOf
  <2>2. ASSUME NEW r \in Requests,
               \/ Refuse(r) \/ Admit(r) \/ NeverStarted(r) \/ HangUp(r)
               \/ Drained(r) \/ CancelledAgain(r) \/ Deliver(r)
               \/ SetupFails(r) \/ Return(r) \/ Raise(r)
        PROVE  Stream!Next
    BY <2>2, AdmissionIsStreams, DepartureIsStreams, ClosingIsStreams, DeliveryIsStreams,
       EndingIsStreams
  <2> QED
    BY <2>1, <2>2, InsideIsStreams DEF Next, Serve, WorkOn
<1> QED
  BY <1>1, <1>2, StreamsHolds, PTL DEF Spec, ImplementsStreams, Stream!Spec
==============================================================================
