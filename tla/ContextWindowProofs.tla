------------------------- MODULE ContextWindowProofs -------------------------
(***************************************************************************)
(* Theorems about ContextWindow, for every window, every set of keys and   *)
(* every limit on the pins: a pinned fact reaches the model at every step  *)
(* until it is retracted, remember keeps the pins within their number, and *)
(* what render() sends fits, holds the question and the summary, and       *)
(* leaves out only what does not fit beside the newer messages.            *)
(***************************************************************************)
EXTENDS ContextWindow, FiniteSetTheorems, SequenceTheorems, WellFoundedInduction, TLAPS

\* What remember confirmed and nobody retracted is pinned, and what a step was
\* rendered from is still what is pinned.
PinsStand ==
    /\ pinned \in [Keys -> PinSizes \cup {0}]
    /\ standing \in SUBSET Keys
    /\ \A k \in standing : pinned[k] # 0
    /\ phase = "plan" => view.pins = pinned

LEMMA PinsStep == PinsStand /\ [Next]_vars => PinsStand'
<1> SUFFICES ASSUME PinsStand, [Next]_vars PROVE PinsStand'
  OBVIOUS
<1> USE DEF PinsStand, memoryVars
<1>1. ASSUME NEW size \in TextSizes, Ask(size) PROVE PinsStand'
  <2>1. pinned' = pinned /\ standing' = standing /\ phase' = "step"
    BY <1>1 DEF Ask, PinsAfterFold
  <2>2. QED
    BY <2>1
<1>2. ASSUME NEW size \in TextSizes, Reply(size) PROVE PinsStand'
  BY <1>2 DEF Reply
<1>3. CASE Render
  <2>1. pinned' = pinned /\ standing' = standing /\ view'.pins = pinned
    BY <1>3 DEF Render
  <2>2. QED
    BY <2>1
<1>4. CASE Overflow \/ Continue \/ End
  BY <1>4 DEF Overflow, Continue, End
<1>5. ASSUME NEW key \in Keys, Forget(key) PROVE PinsStand'
  BY <1>5 DEF Forget
<1>6. ASSUME NEW key \in Keys, NEW size \in PinSizes, Remember(key, size) PROVE PinsStand'
  <2>1. size # 0
    BY SizesAssumption
  <2>2. QED
    BY <1>6, <2>1 DEF Remember
<1>7. CASE UNCHANGED vars
  BY <1>7 DEF vars
<1>8. QED
  BY <1>1, <1>2, <1>3, <1>4, <1>5, <1>6, <1>7 DEF Next

LEMMA PinsHold == Spec => []PinsStand
<1>1. Init => PinsStand
  BY DEF Init, PinsStand
<1>2. QED
  BY <1>1, PinsStep, PTL DEF Spec

\* A fact that remember confirmed is in the system prompt of every later step
\* until it is retracted, through folding, eviction and any number of turns.
THEOREM PinsReach == Spec => []PinsReachTheModel
<1>1. PinsStand => PinsReachTheModel
  BY DEF PinsStand, PinsReachTheModel
<1>2. QED
  BY <1>1, PinsHold, PTL
-----------------------------------------------------------------------------
PinsBounded == IsFiniteSet(Present(pinned)) /\ Cardinality(Present(pinned)) <= MaxPins

LEMMA BoundKept == PinsStand /\ PinsBounded /\ [Next]_vars => PinsBounded'
<1> SUFFICES ASSUME PinsStand, PinsBounded, [Next]_vars PROVE PinsBounded'
  OBVIOUS
<1> USE DEF PinsBounded
<1>0. Cardinality(Present(pinned)) \in Nat
  BY FS_CardinalityType
<1>1. CASE pinned' = pinned
  BY <1>1
<1>2. ASSUME NEW key \in Keys, Forget(key) PROVE PinsBounded'
  <2>1. Present(pinned') \subseteq Present(pinned)
    BY <1>2 DEF Forget, Present, PinsStand
  <2>2. IsFiniteSet(Present(pinned')) /\ Cardinality(Present(pinned')) <= Cardinality(Present(pinned))
        /\ Cardinality(Present(pinned')) \in Nat
    BY <2>1, FS_Subset, FS_CardinalityType
  <2>3. QED
    BY <1>0, <2>2, CountsAssumption
<1>3. ASSUME NEW key \in Keys, NEW size \in PinSizes, Remember(key, size) PROVE PinsBounded'
  <2>1. Present(pinned') = Present(pinned) \cup {key}
    BY <1>3, SizesAssumption DEF Remember, Present, PinsStand
  <2>2. CASE key \in Present(pinned)
    BY <2>1, <2>2
  <2>3. CASE key \notin Present(pinned) /\ Cardinality(Present(pinned)) < MaxPins
    <3>1. /\ IsFiniteSet(Present(pinned'))
          /\ Cardinality(Present(pinned')) = Cardinality(Present(pinned)) + 1
      BY <2>1, <2>3, FS_AddElement
    <3>2. QED
      BY <1>0, <2>3, <3>1, CountsAssumption
  <2>4. QED
    BY <1>3, <2>2, <2>3 DEF Remember, RoomForPin
<1>4. QED
  <2>1. ASSUME NEW size \in TextSizes, Ask(size) \/ Reply(size) PROVE pinned' = pinned
    BY <2>1 DEF Ask, Reply, PinsAfterFold
  <2>2. ASSUME Render \/ Overflow \/ Continue \/ End PROVE pinned' = pinned
    BY <2>2 DEF Render, Overflow, Continue, End, memoryVars
  <2>3. QED
    BY <1>1, <1>2, <1>3, <2>1, <2>2 DEF Next, vars

LEMMA PinBoundHolds == Spec => []PinsBounded
<1>1. Init => PinsBounded
  <2>1. Init => Present(pinned) = {}
    BY DEF Init, Present
  <2>2. QED
    BY <2>1, FS_EmptySet, CountsAssumption DEF PinsBounded
<1>2. QED
  BY <1>1, BoundKept, PinsHold, PTL DEF Spec

\* remember keeps the pins within MAX_PINNED_FACTS, whatever is overwritten and
\* retracted in between.
THEOREM PinsWithinLimit == Spec => [](Cardinality(Present(pinned)) <= MaxPins)
<1>1. PinsBounded => Cardinality(Present(pinned)) <= MaxPins
  BY DEF PinsBounded
<1>2. QED
  BY <1>1, PinBoundHolds, PTL
-----------------------------------------------------------------------------
(* Sums and walks are functions defined by recursion on a number.  What they *)
(* compute is proved by induction, stated for a set of numbers.              *)

LEMMA LeastNumber ==
    ASSUME NEW T \in SUBSET Nat, T # {}
    PROVE  \E m \in T : \A k \in T : m <= k
<1> DEFINE R == OpToRel(<, Nat)
<1>1. IsWellFoundedOn(R, Nat)
  BY NatLessThanWellFounded
<1>2. \A k, m \in Nat : k < m => <<k, m>> \in R
  BY Zenon DEF OpToRel
<1> HIDE DEF R
<1>3. PICK m \in T : \A k \in T : ~(<<k, m>> \in R)
  BY <1>1, WFMin
<1>4. \A k \in T : ~(k < m)
  BY <1>2, <1>3
<1>5. \A k \in T : k \in Nat
  OBVIOUS
<1>6. QED
  BY <1>4, <1>5

LEMMA InductionUpTo ==
    ASSUME NEW n \in Nat, NEW T, 0 \in T, \A k \in 1..n : k - 1 \in T => k \in T
    PROVE  0..n \subseteq T
<1> DEFINE Others == (0..n) \ T
<1>1. ASSUME Others # {} PROVE FALSE
  <2>1. Others \in SUBSET Nat
    OBVIOUS
  <2>2. PICK m \in Others : \A k \in Others : m <= k
    BY <1>1, <2>1, LeastNumber
  <2>3. m \in 1..n /\ m - 1 \in 0..n /\ ~(m <= m - 1)
    BY <2>2
  <2>4. QED
    BY <2>2, <2>3
<1>2. QED
  BY <1>1

\* The function that starts with base and goes on with the steps exists.
Steps(n, S) == [(1..n) \X S -> S]

Iterations(n, S, base, step) ==
    {f \in [0..n -> S] : f[0] = base /\ \A k \in 1..n : f[k] = step[<<k, f[k - 1]>>]}

LEMMA IterationExists ==
    ASSUME NEW n \in Nat, NEW S, NEW base \in S, NEW step \in Steps(n, S)
    PROVE  Iterations(n, S, base, step) # {}
<1> USE DEF Steps
<1> DEFINE Upto(m) == {f \in [0..m -> S] :
                          f[0] = base /\ \A k \in 1..m : f[k] = step[<<k, f[k - 1]>>]}
           T == {m \in 0..n : Upto(m) # {}}
<1>1. 0 \in T
  <2>1. [k \in 0..0 |-> base] \in Upto(0)
    OBVIOUS
  <2>2. QED
    BY <2>1
<1>2. ASSUME NEW m \in 1..n, m - 1 \in T PROVE m \in T
  <2>1. PICK f \in [0..(m - 1) -> S] :
            f[0] = base /\ \A k \in 1..(m - 1) : f[k] = step[<<k, f[k - 1]>>]
    BY <1>2
  <2> DEFINE g == [k \in 0..m |-> IF k = m THEN step[<<m, f[m - 1]>>] ELSE f[k]]
  <2>2. f[m - 1] \in S /\ step[<<m, f[m - 1]>>] \in S
    BY <2>1
  <2>3. g \in [0..m -> S] /\ g[0] = base
    BY <2>1, <2>2
  <2>4. ASSUME NEW k \in 1..m PROVE g[k] = step[<<k, g[k - 1]>>]
    <3>1. k - 1 \in 0..(m - 1) /\ g[k - 1] = f[k - 1]
      OBVIOUS
    <3>2. CASE k = m
      <4>1. g[k] = step[<<m, f[m - 1]>>]
        BY <3>2
      <4>2. step[<<m, f[m - 1]>>] = step[<<k, g[k - 1]>>]
        BY <3>1, <3>2
      <4>3. QED
        BY <4>1, <4>2
    <3>3. CASE k # m
      BY <2>1, <3>1, <3>3
    <3>4. QED
      BY <3>2, <3>3
  <2> HIDE DEF g
  <2>5. g \in Upto(m)
    BY <2>3, <2>4
  <2>6. QED
    BY <2>5
<1> HIDE DEF T
<1>3. n \in T
  BY <1>1, <1>2, InductionUpTo
<1>4. QED
  BY <1>3 DEF T, Iterations
-----------------------------------------------------------------------------
(* Sizes. *)

Texts == [role : {"user", "assistant", "summary", "pin", "none"}, size : Nat]

LEMMA TotalSizeType ==
    ASSUME NEW texts \in Seq(Texts)
    PROVE  TotalSize(texts) \in Nat
<1> DEFINE n == Len(texts)
           IsTotal(f) == f = [k \in 0..n |-> IF k = 0 THEN 0 ELSE f[k - 1] + texts[k].size]
           total == CHOOSE f : IsTotal(f)
           step == [p \in (1..n) \X Nat |-> p[2] + texts[p[1]].size]
<1>1. n \in Nat /\ \A k \in 1..n : texts[k].size \in Nat
  <2>1. n \in Nat /\ \A k \in 1..n : texts[k] \in Texts
    OBVIOUS
  <2>2. QED
    BY <2>1 DEF Texts
<1>2. TotalSize(texts) = total[n]
  BY DEF TotalSize
<1> HIDE DEF n
<1>3. \E f : IsTotal(f)
  <2>1. step \in Steps(n, Nat)
    BY <1>1 DEF Steps
  <2> HIDE DEF step
  <2>2. PICK f : f \in Iterations(n, Nat, 0, step)
    BY <1>1, <2>1, IterationExists
  <2>3. ASSUME NEW k \in 1..n PROVE f[k] = f[k - 1] + texts[k].size
    <3>1. k - 1 \in 0..n /\ f[k - 1] \in Nat
      BY <1>1, <2>2 DEF Iterations
    <3>2. QED
      BY <2>2, <3>1 DEF Iterations, step
  <2>4. IsTotal(f)
    BY <2>2, <2>3 DEF Iterations
  <2>5. QED
    BY <2>4
<1>4. IsTotal(total)
  BY <1>3
<1> HIDE DEF total
<1> DEFINE T == {k \in 0..n : total[k] \in Nat}
<1>5. 0 \in T /\ \A k \in 1..n : k - 1 \in T => k \in T
  BY <1>1, <1>4
<1> HIDE DEF T
<1>6. 0..n \subseteq T
  BY <1>1, <1>5, InductionUpTo
<1>7. QED
  BY <1>1, <1>2, <1>6 DEF T

LEMMA UsedType ==
    ASSUME NEW history \in Seq(Texts), NEW places
    PROVE  Used(history, places) \in Nat
<1>1. Text("none", 0) \in Texts
  BY DEF Text, Texts
<1>2. At(history, places) \in Seq(Texts)
  BY <1>1 DEF At
<1>3. QED
  BY <1>2, TotalSizeType DEF Used

LEMMA PinnedBlockType ==
    ASSUME NEW pins \in [Keys -> Nat], IsFiniteSet(Present(pins))
    PROVE  PinnedBlock(pins) \in Nat
<1> DEFINE keys  == SetToSeq(Present(pins))
           lines == [i \in DOMAIN keys |-> Text("pin", pins[keys[i]])]
           c     == Cardinality(Present(pins))
<1>1. c \in Nat /\ \E f \in [1..c -> Present(pins)] : IsInjective(f)
  BY FS_CardinalityType DEF ExistsBijection, Bijection, Injection
<1>2. keys \in [1..c -> Present(pins)]
  BY <1>1 DEF SetToSeq
<1> HIDE DEF keys, c
<1>3. \A i \in 1..c : Text("pin", pins[keys[i]]) \in Texts
  BY <1>2 DEF Present, Text, Texts
<1>4. lines \in Seq(Texts)
  BY <1>1, <1>2, <1>3
<1> HIDE DEF lines
<1>5. TotalSize(lines) \in Nat
  BY <1>4, TotalSizeType
<1>6. QED
  BY <1>5, SizesAssumption DEF PinnedBlock, lines, keys
-----------------------------------------------------------------------------
(* The walk of fit(). *)

Walk(history, room, kept) ==
    /\ kept \in [0..Len(history) -> SUBSET DOMAIN history]
    /\ kept[0] = MustKeep(history)
    /\ \A n \in 1..Len(history) :
          kept[n] = WithIfFits(history, room, kept[n - 1], Len(history) + 1 - n)

LEMMA MustKeepType == \A history : MustKeep(history) \subseteq DOMAIN history
BY DEF MustKeep, LastUser

LEMMA NewestFirstIsWalk ==
    ASSUME NEW history \in Seq(Texts), NEW room \in Int
    PROVE  \E kept : Walk(history, room, kept) /\ NewestFirst(history, room) = kept[Len(history)]
<1> DEFINE len == Len(history)
           S   == SUBSET (1..len)
           next(k, n) == WithIfFits(history, room, k, len + 1 - n)
           IsWalk(f) == f = [n \in 0..len |-> IF n = 0 THEN MustKeep(history)
                                             ELSE next(f[n - 1], n)]
           walk == CHOOSE f : IsWalk(f)
           step == [p \in (1..len) \X S |-> next(p[2], p[1])]
<1>1. len \in Nat /\ DOMAIN history = 1..len /\ MustKeep(history) \in S
  BY MustKeepType
<1>2. NewestFirst(history, room) = walk[len]
  BY DEF NewestFirst
<1>3. ASSUME NEW n \in 1..len, NEW k \in S PROVE next(k, n) \in S
  <2>1. len + 1 - n \in 1..len
    BY <1>1
  <2>2. QED
    BY <2>1 DEF WithIfFits
<1> HIDE DEF len, S, next
<1>4. \E f : IsWalk(f)
  <2>1. step \in Steps(len, S)
    BY <1>3 DEF Steps
  <2> HIDE DEF step
  <2>2. PICK f : f \in Iterations(len, S, MustKeep(history), step)
    BY <1>1, <2>1, IterationExists
  <2>3. ASSUME NEW n \in 1..len PROVE f[n] = next(f[n - 1], n)
    <3>1. n - 1 \in 0..len /\ f[n - 1] \in S
      BY <1>1, <2>2 DEF Iterations
    <3>2. QED
      BY <2>2, <3>1 DEF Iterations, step
  <2>4. IsWalk(f)
    BY <1>1, <2>2, <2>3 DEF Iterations
  <2>5. QED
    BY <2>4
<1>5. IsWalk(walk)
  BY <1>4
<1> HIDE DEF walk
<1> DEFINE T == {n \in 0..len : walk[n] \in S}
<1>6. 0 \in T /\ \A n \in 1..len : n - 1 \in T => n \in T
  BY <1>1, <1>3, <1>5
<1> HIDE DEF T
<1>7. 0..len \subseteq T
  BY <1>1, <1>6, InductionUpTo
<1>8. walk \in [0..len -> S]
  BY <1>5, <1>7 DEF T
<1>9. walk[0] = MustKeep(history) /\ \A n \in 1..len : walk[n] = next(walk[n - 1], n)
  BY <1>1, <1>5
<1>10. Walk(history, room, walk)
  BY <1>1, <1>8, <1>9 DEF Walk, len, S, next
<1>11. QED
  BY <1>2, <1>10 DEF len

\* If the protected messages fit, what the walk keeps fits.
LEMMA WalkFits ==
    ASSUME NEW history \in Seq(Texts), NEW room \in Int, ~Overflows(history, room)
    PROVE  Used(history, NewestFirst(history, room)) <= room
<1> DEFINE len == Len(history)
<1>1. PICK kept : Walk(history, room, kept) /\ NewestFirst(history, room) = kept[len]
  BY NewestFirstIsWalk
<1> DEFINE T == {n \in 0..len : Used(history, kept[n]) <= room}
<1>2. len \in Nat
  OBVIOUS
<1>3. 0 \in T
  BY <1>1, <1>2, UsedType DEF Overflows, Walk
<1>4. ASSUME NEW n \in 1..len, n - 1 \in T PROVE n \in T
  <2>1. kept[n] = WithIfFits(history, room, kept[n - 1], len + 1 - n)
    BY <1>1 DEF Walk
  <2>2. Used(history, kept[n]) <= room
    BY <1>4, <2>1 DEF WithIfFits
  <2>3. QED
    BY <1>2, <2>2
<1> HIDE DEF T
<1>5. 0..len \subseteq T
  BY <1>2, <1>3, <1>4, InductionUpTo
<1>6. QED
  BY <1>1, <1>2, <1>5 DEF T

\* The walk only adds messages, and only the one it looks at: what it has kept
\* after n messages is what it keeps in the end of the newest n, and what is
\* protected.
LEMMA WalkGrows ==
    ASSUME NEW history \in Seq(Texts), NEW room \in Int,
           NEW kept, Walk(history, room, kept), NEW n \in 0..Len(history)
    PROVE  kept[n] = MustKeep(history) \cup
                         {j \in kept[Len(history)] : j > Len(history) - n}
<1> DEFINE len  == Len(history)
           keep == MustKeep(history)
<1>1. len \in Nat /\ DOMAIN history = 1..len /\ keep \subseteq 1..len
  BY MustKeepType
<1>2. \A m \in 0..len : kept[m] \subseteq 1..len
  BY <1>1 DEF Walk
<1>3. ASSUME NEW m \in 1..len
      PROVE  kept[m - 1] \subseteq kept[m] /\ kept[m] \subseteq kept[m - 1] \cup {len + 1 - m}
  BY <1>1, <1>3 DEF Walk, WithIfFits
<1>4. kept[0] = keep
  BY DEF Walk
<1> HIDE DEF len, keep
<1> DEFINE T == {m \in 0..len : \A j \in kept[m] : j > len - m \/ j \in keep}
<1>5. 0 \in T
  BY <1>1, <1>4
<1>6. ASSUME NEW m \in 1..len, m - 1 \in T PROVE m \in T
  <2>1. ASSUME NEW j \in kept[m] PROVE j > len - m \/ j \in keep
    <3>1. j \in 1..len
      BY <1>2
    <3>2. CASE j \in kept[m - 1]
      BY <1>1, <1>6, <3>1, <3>2
    <3>3. CASE j = len + 1 - m
      BY <1>1, <3>3
    <3>4. QED
      BY <1>3, <3>2, <3>3
  <2>2. QED
    BY <2>1
<1> HIDE DEF T
<1>7. 0..len \subseteq T
  BY <1>1, <1>5, <1>6, InductionUpTo
<1>8. \A j \in kept[n] : j > len - n \/ j \in keep
  BY <1>7 DEF T, len
<1> DEFINE L == {m \in 0..len : m >= n => /\ kept[n] \subseteq kept[m]
                                          /\ \A j \in kept[m] : j \in kept[n] \/ j <= len - n}
<1>9. 0 \in L
  BY <1>1 DEF len
<1>10. ASSUME NEW m \in 1..len, m - 1 \in L PROVE m \in L
  <2>1. CASE m <= n
    BY <1>10, <2>1
  <2>2. CASE m > n
    <3>1. /\ m - 1 >= n /\ kept[n] \subseteq kept[m - 1]
          /\ \A j \in kept[m - 1] : j \in kept[n] \/ j <= len - n
      BY <1>10, <2>2
    <3>2. len + 1 - m <= len - n
      BY <1>1, <2>2
    <3>3. QED
      BY <1>3, <3>1, <3>2
  <2>3. QED
    BY <2>1, <2>2
<1> HIDE DEF L
<1>11. 0..len \subseteq L
  BY <1>1, <1>9, <1>10, InductionUpTo
<1>12. /\ kept[n] \subseteq kept[len]
       /\ \A j \in kept[len] : j \in kept[n] \/ j <= len - n
  <2>1. len \in L /\ len >= n
    BY <1>1, <1>11 DEF len
  <2>2. QED
    BY <2>1 DEF L
<1> DEFINE K == {m \in 0..len : keep \subseteq kept[m]}
<1>13. 0 \in K /\ \A m \in 1..len : m - 1 \in K => m \in K
  BY <1>1, <1>3, <1>4
<1> HIDE DEF K
<1>14. 0..len \subseteq K
  BY <1>1, <1>13, InductionUpTo
<1>15. keep \subseteq kept[n]
  BY <1>14 DEF K, len
<1>16. kept[n] = keep \cup {j \in kept[len] : j > len - n}
  <2>1. \A j \in kept[len] : j \in 1..len
    BY <1>1, <1>2
  <2>2. \A j \in kept[len] : j > len - n => j \in kept[n]
    BY <1>1, <1>12, <2>1
  <2>3. QED
    BY <1>8, <1>12, <1>15, <2>2
<1>17. QED
  BY <1>16 DEF len, keep

LEMMA WalkKeeps ==
    ASSUME NEW history \in Seq(Texts), NEW room \in Int
    PROVE  /\ MustKeep(history) \subseteq NewestFirst(history, room)
           /\ NewestFirst(history, room) \subseteq DOMAIN history
<1> DEFINE len == Len(history)
<1>1. PICK kept : Walk(history, room, kept) /\ NewestFirst(history, room) = kept[len]
  BY NewestFirstIsWalk
<1>2. len \in 0..len
  OBVIOUS
<1>3. MustKeep(history) \subseteq kept[len]
  BY <1>1, <1>2, WalkGrows
<1>4. kept[len] \subseteq DOMAIN history
  BY <1>1, <1>2 DEF Walk
<1>5. QED
  BY <1>1, <1>3, <1>4

\* A message is left out only when it does not fit beside the protected ones
\* and what is newer than it.
LEMMA WalkPassesOver ==
    ASSUME NEW history \in Seq(Texts), NEW room \in Int,
           NEW i \in DOMAIN history, i \notin NewestFirst(history, room)
    PROVE  LET newer == {j \in NewestFirst(history, room) : j > i} \cup MustKeep(history)
           IN  Used(history, newer \cup {i}) > room
<1> DEFINE len   == Len(history)
           newer == {j \in NewestFirst(history, room) : j > i} \cup MustKeep(history)
<1>1. PICK kept : Walk(history, room, kept) /\ NewestFirst(history, room) = kept[len]
  BY NewestFirstIsWalk
<1>2. len \in Nat /\ i \in 1..len
  OBVIOUS
<1>3. PICK n \in 1..len : len + 1 - n = i /\ len - (n - 1) = i /\ n - 1 \in 0..len
  <2>1. len + 1 - i \in 1..len
    BY <1>2
  <2>2. QED
    BY <1>2, <2>1
<1>4. kept[n - 1] = newer
  BY <1>1, <1>3, WalkGrows
<1>5. kept[n] \subseteq kept[len]
  <2>1. n \in 0..len /\ len \in 0..len
    BY <1>2
  <2>2. MustKeep(history) \subseteq kept[len]
    BY <1>1, WalkKeeps
  <2>3. QED
    BY <1>1, <2>1, <2>2, WalkGrows
<1>6. i \notin MustKeep(history) /\ i \notin kept[n]
  BY <1>1, <1>5, WalkKeeps
<1>7. kept[n] = WithIfFits(history, room, newer, i)
  BY <1>1, <1>3, <1>4 DEF Walk
<1> HIDE DEF newer
<1>8. ~(Used(history, newer \cup {i}) <= room)
  BY <1>6, <1>7 DEF WithIfFits
<1>9. Used(history, newer \cup {i}) \in Nat
  BY UsedType
<1>10. QED
  BY <1>8, <1>9 DEF newer
-----------------------------------------------------------------------------
(* The view.  While a turn runs its question is the last turn, and what a    *)
(* plan is made from is what the walk keeps of the history as it stands.     *)

WindowInv ==
    /\ summary \in Nat
    /\ turns \in Seq(Sizes)
    /\ phase \in {"idle", "step", "plan"}
    /\ asked \in 0..MaxAsked
    /\ phase # "idle" => Len(turns) > 0 /\ turns[Len(turns)].role = "user"
    /\ view.kept \subseteq DOMAIN view.history
    /\ phase = "plan" =>
          /\ ~Overflows(History, Available(pinned))
          /\ view = [kept |-> NewestFirst(History, Available(pinned)),
                     history |-> History, pins |-> pinned]

LEMMA SizesAreTexts == \A old \in Seq(Sizes) : old \in Seq(Texts)
<1>1. Sizes \subseteq Texts
  BY SizesAssumption DEF Sizes, Texts
<1>2. QED
  BY <1>1

LEMMA HistoryType ==
    ASSUME WindowInv
    PROVE  /\ History \in Seq(Texts)
           /\ summary = 0 => History = turns
           /\ summary # 0 => /\ Len(History) = Len(turns) + 1
                             /\ History[1] = Text("summary", summary)
           /\ Len(turns) > 0 => History[Len(History)] = turns[Len(turns)]
<1>1. turns \in Seq(Texts) /\ Text("summary", summary) \in Texts
  BY SizesAreTexts DEF WindowInv, Text, Texts
<1>2. CASE summary = 0
  BY <1>1, <1>2 DEF History
<1>3. CASE summary # 0
  <2> DEFINE m == Text("summary", summary)
  <2>1. History = <<m>> \o turns
    BY <1>3 DEF History
  <2> HIDE DEF m
  <2>2. <<m>> \in Seq(Texts) /\ Len(<<m>>) = 1 /\ <<m>>[1] = m
    BY <1>1 DEF m
  <2>3. /\ History \in Seq(Texts) /\ Len(History) = 1 + Len(turns)
        /\ \A i \in 1..(1 + Len(turns)) :
              History[i] = IF i <= 1 THEN <<m>>[i] ELSE turns[i - 1]
    BY <1>1, <2>1, <2>2, ConcatProperties
  <2>4. Len(turns) \in Nat
    BY <1>1
  <2>5. QED
    BY <1>3, <2>2, <2>3, <2>4 DEF m
<1>4. QED
  BY <1>2, <1>3

LEMMA AvailableType ==
    ASSUME PinsStand, PinsBounded
    PROVE  /\ PinnedBlock(pinned) \in Nat
           /\ Available(pinned) \in Int
           /\ Available(pinned) + SystemSize + PinnedBlock(pinned) = Room
<1>1. pinned \in [Keys -> Nat] /\ IsFiniteSet(Present(pinned))
  <2>1. PinSizes \cup {0} \subseteq Nat
    BY SizesAssumption
  <2>2. QED
    BY <2>1 DEF PinsStand, PinsBounded
<1>2. PinnedBlock(pinned) \in Nat
  BY <1>1, PinnedBlockType
<1>3. QED
  BY <1>2, SizesAssumption DEF Available

\* A fold leaves a summary and the verbatim window, which ends with the question.
LEMMA AskKeepsWindow ==
    ASSUME WindowInv, NEW size \in TextSizes, Ask(size) PROVE WindowInv'
<1> DEFINE history == Append(turns, Text("user", size))
           cut     == Len(history) - VerbatimTurns
           old     == SubSeq(history, 1, cut)
           recent  == SubSeq(history, cut + 1, Len(history))
<1>1. /\ asked < MaxAsked /\ asked' = asked + 1 /\ phase' = "step" /\ view' = NoView
      /\ \/ turns' = history /\ summary' = summary
         \/ /\ Len(history) > VerbatimTurns /\ turns' = recent
            /\ summary' \in SummarySizes \cup {FallbackSize(old)}
  BY DEF Ask, NeedsCompression
<1>2. /\ history \in Seq(Sizes) /\ Len(history) > 0
      /\ history[Len(history)].role = "user"
  BY DEF WindowInv, Sizes, Text
<1> HIDE DEF history
<1>3. asked' \in 0..MaxAsked /\ view'.kept \subseteq DOMAIN view'.history
  BY <1>1, CountsAssumption DEF WindowInv, NoView
<1>4. CASE turns' = history /\ summary' = summary
  BY <1>1, <1>2, <1>3, <1>4 DEF WindowInv
<1>5. CASE /\ Len(history) > VerbatimTurns /\ turns' = recent
           /\ summary' \in SummarySizes \cup {FallbackSize(old)}
  <2> DEFINE n == Len(history)
  <2>1. n \in Nat /\ cut \in 1..n /\ n = cut + VerbatimTurns /\ VerbatimTurns \in Nat \ {0}
    BY <1>2, <1>5, CountsAssumption
  <2> HIDE DEF cut
  <2>2. recent \in Seq(Sizes) /\ old \in Seq(Sizes)
    BY <1>2, <2>1
  <2>3. Len(recent) = VerbatimTurns
    BY <1>2, <2>1
  <2>4. recent[VerbatimTurns] = history[n]
    <3>1. VerbatimTurns \in 1..(n - (cut + 1) + 1) /\ (cut + 1) + VerbatimTurns - 1 = n
      BY <2>1
    <3>2. QED
      BY <1>2, <2>1, <3>1
  <2> HIDE DEF old, recent
  <2>5. FallbackSize(old) \in Nat
    <3>1. \A places : Used(old, places) \in Nat
      BY <2>2, SizesAreTexts, UsedType
    <3>2. QED
      BY <3>1 DEF FallbackSize, WindowInv
  <2>6. summary' \in Nat
    BY <1>5, <2>5, SizesAssumption
  <2>7. QED
    BY <1>1, <1>2, <1>3, <1>5, <2>1, <2>2, <2>3, <2>4, <2>6 DEF WindowInv
<1>6. QED
  BY <1>1, <1>4, <1>5

LEMMA RenderKeepsWindow ==
    ASSUME PinsStand, PinsBounded, WindowInv, Render PROVE WindowInv'
<1>1. /\ phase = "step" /\ phase' = "plan"
      /\ ~Overflows(History, Available(pinned))
      /\ view' = [kept |-> NewestFirst(History, Available(pinned)),
                  history |-> History, pins |-> pinned]
      /\ pinned' = pinned /\ summary' = summary /\ turns' = turns /\ asked' = asked
  BY DEF Render, memoryVars
<1>2. History' = History
  BY <1>1 DEF History
<1>3. NewestFirst(History, Available(pinned)) \subseteq DOMAIN History
  BY HistoryType, AvailableType, WalkKeeps
<1>4. QED
  BY <1>1, <1>2, <1>3 DEF WindowInv

LEMMA WindowStep == PinsStand /\ PinsBounded /\ WindowInv /\ [Next]_vars => WindowInv'
<1> SUFFICES ASSUME PinsStand, PinsBounded, WindowInv, [Next]_vars PROVE WindowInv'
  OBVIOUS
<1>1. ASSUME NEW size \in TextSizes, Reply(size) PROVE WindowInv'
  <2>1. Text("assistant", size) \in Sizes
    BY DEF Text, Sizes
  <2>2. turns' \in Seq(Sizes)
    BY <1>1, <2>1 DEF Reply, WindowInv
  <2>3. QED
    BY <1>1, <2>2 DEF Reply, WindowInv
<1>2. CASE Overflow
  BY <1>2 DEF Overflow, WindowInv, memoryVars, NoView
<1>3. CASE Continue \/ End
  BY <1>3 DEF Continue, End, WindowInv, memoryVars
<1>4. ASSUME NEW key \in Keys, Forget(key) PROVE WindowInv'
  BY <1>4 DEF Forget, WindowInv
<1>5. ASSUME NEW key \in Keys, NEW size \in PinSizes, Remember(key, size) PROVE WindowInv'
  BY <1>5 DEF Remember, WindowInv
<1>6. CASE UNCHANGED vars
  BY <1>6 DEF vars, WindowInv, History
<1>7. QED
  BY <1>1, <1>2, <1>3, <1>4, <1>5, <1>6, AskKeepsWindow, RenderKeepsWindow DEF Next

LEMMA WindowHolds == Spec => [](PinsStand /\ PinsBounded /\ WindowInv)
<1>1. Init => WindowInv
  BY CountsAssumption DEF Init, WindowInv, NoView
<1>2. QED
  BY <1>1, PinsHold, PinBoundHolds, WindowStep, PTL DEF Spec

\* What is sent fits the window beside the system prompt and the pins, for
\* every window, prompt and size of the texts.
THEOREM ViewsFit == Spec => []ViewFits
<1>1. PinsStand /\ PinsBounded /\ WindowInv => ViewFits
  <2> SUFFICES ASSUME PinsStand, PinsBounded, WindowInv, phase = "plan"
               PROVE  SystemSize + PinnedBlock(view.pins) + Used(view.history, view.kept) <= Room
    BY DEF ViewFits
  <2>1. /\ ~Overflows(History, Available(pinned))
        /\ view.kept = NewestFirst(History, Available(pinned))
        /\ view.history = History /\ view.pins = pinned
    BY DEF WindowInv
  <2>2. Used(view.history, view.kept) <= Available(pinned)
    BY <2>1, HistoryType, AvailableType, WalkFits
  <2>3. Used(view.history, view.kept) \in Nat
    BY <2>1, HistoryType, UsedType
  <2>4. QED
    BY <2>1, <2>2, <2>3, AvailableType, SizesAssumption
<1>2. QED
  BY <1>1, WindowHolds, PTL

\* Whatever else is evicted, the model sees the question it is to answer and
\* the summary of what was folded.
THEOREM QuestionsAndSummariesInView == Spec => []QuestionAndSummaryInView
<1>1. PinsStand /\ PinsBounded /\ WindowInv => QuestionAndSummaryInView
  <2> SUFFICES ASSUME PinsStand, PinsBounded, WindowInv, phase = "plan"
               PROVE  /\ Len(view.history) \in view.kept
                      /\ view.history[Len(view.history)].role = "user"
                      /\ summary # 0 => /\ 1 \in view.kept
                                        /\ view.history[1] = Text("summary", summary)
    BY DEF QuestionAndSummaryInView
  <2>1. /\ view.kept = NewestFirst(History, Available(pinned))
        /\ view.history = History
        /\ Len(turns) > 0 /\ turns[Len(turns)].role = "user"
    BY DEF WindowInv
  <2>2. MustKeep(History) \subseteq view.kept
    BY <2>1, HistoryType, AvailableType, WalkKeeps
  <2>3. History \in Seq(Texts) /\ History[Len(History)].role = "user"
    BY <2>1, HistoryType
  <2>4. Len(History) > 0 /\ Len(History) \in Nat
    BY <2>1, <2>3, HistoryType DEF WindowInv
  <2>5. Len(History) \in MustKeep(History)
    BY <2>3, <2>4 DEF MustKeep, LastUser
  <2>6. ASSUME summary # 0 PROVE 1 \in MustKeep(History) /\ History[1] = Text("summary", summary)
    BY <2>3, <2>4, <2>6, HistoryType DEF MustKeep, Text
  <2>7. QED
    BY <2>1, <2>2, <2>3, <2>5, <2>6
<1>2. QED
  BY <1>1, WindowHolds, PTL

\* A message is left out only when it does not fit beside the protected
\* messages and what is newer than it.
THEOREM NewestKept == Spec => []NewestAreKept
<1>1. PinsStand /\ PinsBounded /\ WindowInv => NewestAreKept
  <2> SUFFICES ASSUME PinsStand, PinsBounded, WindowInv, phase = "plan",
                      NEW i \in DOMAIN view.history \ view.kept
               PROVE  LET newer == {j \in view.kept : j > i} \cup MustKeep(view.history)
                      IN  Used(view.history, newer \cup {i}) > Available(view.pins)
    BY DEF NewestAreKept
  <2>1. /\ view.kept = NewestFirst(History, Available(pinned))
        /\ view.history = History /\ view.pins = pinned
    BY DEF WindowInv
  <2>2. i \in DOMAIN History /\ i \notin NewestFirst(History, Available(pinned))
    BY <2>1
  <2>3. QED
    BY <2>1, <2>2, HistoryType, AvailableType, WalkPassesOver
<1>2. QED
  BY <1>1, WindowHolds, PTL

\* Every variable has its type, and the pins stay within their number.
THEOREM TypesCorrect == Spec => []TypeOK
<1>1. PinsStand /\ PinsBounded /\ WindowInv => TypeOK
  BY DEF PinsStand, PinsBounded, WindowInv, TypeOK
<1>2. QED
  BY <1>1, WindowHolds, PTL
=============================================================================
