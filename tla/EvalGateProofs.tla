---------------------------- MODULE EvalGateProofs ----------------------------
(***************************************************************************)
(* Theorems about EvalGate, for every registry, every dataset and every    *)
(* number of edits: what the gate promises without asking anything of the  *)
(* datasets, and what it promises for datasets like the repository's.      *)
(***************************************************************************)
EXTENDS EvalGate, FiniteSetTheorems, WellFoundedInduction, TLAPS

(* Sums over a finite set are numbers. *)

LEMMA LeastNumber ==
    ASSUME NEW T \in SUBSET Nat, T # {}
    PROVE  \E m \in T : \A k \in T : m <= k
<1> DEFINE R == OpToRel(<, Nat)
<1>1. IsWellFoundedOn(R, Nat)
  BY NatLessThanWellFounded
<1>2. \A k, m \in Nat : k < m => <<k, m>> \in R
  BY Zenon DEF OpToRel
<1> HIDE DEF R
<1>3. PICK m \in T : \A k \in T : ~(<<k, m>> \in R)
  BY <1>1, WFMin
<1>4. \A k \in T : ~(k < m)
  BY <1>2, <1>3
<1>5. \A k \in T : k \in Nat
  OBVIOUS
<1>6. QED
  BY <1>4, <1>5

LEMMA InductionUpTo ==
    ASSUME NEW n \in Nat, NEW T, 0 \in T, \A k \in 1..n : k - 1 \in T => k \in T
    PROVE  0..n \subseteq T
<1> DEFINE Others == (0..n) \ T
<1>1. ASSUME Others # {} PROVE FALSE
  <2>1. Others \in SUBSET Nat
    OBVIOUS
  <2>2. PICK m \in Others : \A k \in Others : m <= k
    BY <1>1, <2>1, LeastNumber
  <2>3. m \in 1..n /\ m - 1 \in 0..n /\ ~(m <= m - 1)
    BY <2>2
  <2>4. QED
    BY <2>2, <2>3
<1>2. QED
  BY <1>1

\* A sum over a set is defined by recursion on its subsets: the element CHOOSE
\* takes, and the sum of the others.
Pick(s) == CHOOSE x \in s : TRUE
PartialSum(w, f, s) == IF s = {} THEN 0 ELSE w[Pick(s)] + f[s \ {Pick(s)}]
IsSum(w, f, S) == f = [s \in SUBSET S |-> PartialSum(w, f, s)]

LEMMA WithoutPick ==
    ASSUME NEW S, IsFiniteSet(S), NEW s \in SUBSET S, s # {}
    PROVE  /\ Pick(s) \in S /\ s \ {Pick(s)} \in SUBSET S
           /\ Cardinality(s) \in 1..Cardinality(S)
           /\ Cardinality(s \ {Pick(s)}) = Cardinality(s) - 1
<1>1. Pick(s) \in s
  BY DEF Pick
<1>2. IsFiniteSet(s) /\ Cardinality(s) \in Nat /\ Cardinality(S) \in Nat /\ Cardinality(s) <= Cardinality(S)
  BY FS_Subset, FS_CardinalityType
<1>3. Cardinality(s \ {Pick(s)}) = Cardinality(s) - 1
  BY <1>1, <1>2, FS_RemoveElement
<1>4. Cardinality(s) # 0
  BY <1>2, FS_EmptySet
<1>5. QED
  BY <1>1, <1>2, <1>3, <1>4

LEMMA SumExists ==
    ASSUME NEW S, IsFiniteSet(S), NEW w \in [S -> Nat]
    PROVE  \E f : IsSum(w, f, S)
<1> DEFINE n == Cardinality(S)
           Upto(k) == {f \in [SUBSET S -> Nat] :
                          \A s \in SUBSET S : Cardinality(s) <= k => f[s] = PartialSum(w, f, s)}
           T == {k \in 0..n : Upto(k) # {}}
<1>1. n \in Nat
  BY FS_CardinalityType
<1>2. 0 \in T
  <2> DEFINE f == [s \in SUBSET S |-> 0]
  <2>1. ASSUME NEW s \in SUBSET S, Cardinality(s) <= 0 PROVE s = {}
    <3>1. s # {} => Cardinality(s) \in 1..n
      BY WithoutPick
    <3>2. QED
      BY <1>1, <2>1, <3>1
  <2>2. f \in Upto(0)
    BY <2>1 DEF PartialSum
  <2> HIDE DEF f
  <2>3. 0 \in 0..n /\ Upto(0) # {}
    BY <1>1, <2>2
  <2>4. QED
    BY <2>3
<1>3. ASSUME NEW k \in 1..n, k - 1 \in T PROVE k \in T
  <2>1. PICK f \in [SUBSET S -> Nat] :
            \A s \in SUBSET S : Cardinality(s) <= k - 1 => f[s] = PartialSum(w, f, s)
    BY <1>3
  <2> DEFINE g == [s \in SUBSET S |-> IF Cardinality(s) = k THEN PartialSum(w, f, s) ELSE f[s]]
  <2>2. ASSUME NEW s \in SUBSET S PROVE PartialSum(w, f, s) \in Nat
    <3>1. CASE s = {}
      BY <3>1 DEF PartialSum
    <3>2. CASE s # {}
      <4>1. Pick(s) \in S /\ s \ {Pick(s)} \in SUBSET S
        BY <3>2, WithoutPick
      <4>2. w[Pick(s)] \in Nat /\ f[s \ {Pick(s)}] \in Nat
        BY <4>1
      <4>3. QED
        BY <3>2, <4>2 DEF PartialSum
    <3>3. QED
      BY <3>1, <3>2
  <2>3. g \in [SUBSET S -> Nat]
    BY <2>2
  <2>4. ASSUME NEW s \in SUBSET S, Cardinality(s) <= k PROVE g[s] = PartialSum(w, g, s)
    <3>1. PartialSum(w, g, s) = PartialSum(w, f, s)
      <4>1. CASE s = {}
        BY <4>1 DEF PartialSum
      <4>2. CASE s # {}
        <5>1. s \ {Pick(s)} \in SUBSET S /\ Cardinality(s \ {Pick(s)}) # k
          BY <2>4, <4>2, <1>1, WithoutPick
        <5>2. g[s \ {Pick(s)}] = f[s \ {Pick(s)}]
          BY <5>1
        <5> HIDE DEF g
        <5>3. QED
          BY <4>2, <5>2 DEF PartialSum
      <4>3. QED
        BY <4>1, <4>2
    <3>2. CASE Cardinality(s) = k
      BY <3>1, <3>2
    <3>3. CASE Cardinality(s) # k
      <4>1. Cardinality(s) \in Nat
        BY FS_Subset, FS_CardinalityType
      <4>2. Cardinality(s) <= k - 1
        BY <2>4, <3>3, <4>1, <1>1
      <4>3. QED
        BY <2>1, <3>1, <3>3, <4>2
    <3>4. QED
      BY <3>2, <3>3
  <2> HIDE DEF g
  <2>5. g \in Upto(k)
    BY <2>3, <2>4
  <2>6. QED
    BY <2>5
<1> HIDE DEF T
<1>4. n \in T
  BY <1>1, <1>2, <1>3, InductionUpTo
<1>5. PICK f \in [SUBSET S -> Nat] :
          \A s \in SUBSET S : Cardinality(s) <= n => f[s] = PartialSum(w, f, s)
  BY <1>4 DEF T
<1>6. \A s \in SUBSET S : Cardinality(s) <= n
  BY FS_Subset
<1>7. QED
  BY <1>5, <1>6 DEF IsSum

LEMMA SumsAreNumbers ==
    ASSUME NEW S, IsFiniteSet(S), NEW w \in [S -> Nat], NEW f, IsSum(w, f, S)
    PROVE  f[S] \in Nat
<1> DEFINE n == Cardinality(S)
           T == {k \in 0..n : \A s \in SUBSET S : Cardinality(s) = k => f[s] \in Nat}
<1>1. n \in Nat
  BY FS_CardinalityType
<1>2. \A s \in SUBSET S : f[s] = PartialSum(w, f, s)
  BY DEF IsSum
<1>3. 0 \in T
  <2>1. ASSUME NEW s \in SUBSET S, Cardinality(s) = 0 PROVE f[s] \in Nat
    <3>1. s # {} => Cardinality(s) \in 1..n
      BY WithoutPick
    <3>2. QED
      BY <1>1, <1>2, <2>1, <3>1 DEF PartialSum
  <2>2. QED
    BY <1>1, <2>1
<1>4. ASSUME NEW k \in 1..n, k - 1 \in T PROVE k \in T
  <2>1. ASSUME NEW s \in SUBSET S, Cardinality(s) = k PROVE f[s] \in Nat
    <3>1. s # {}
      BY <2>1, FS_EmptySet
    <3>2. /\ Pick(s) \in S /\ s \ {Pick(s)} \in SUBSET S
          /\ Cardinality(s \ {Pick(s)}) = k - 1
      BY <2>1, <3>1, WithoutPick
    <3>3. w[Pick(s)] \in Nat /\ f[s \ {Pick(s)}] \in Nat
      BY <1>4, <3>2
    <3>4. f[s] = w[Pick(s)] + f[s \ {Pick(s)}]
      BY <1>2, <3>1 DEF PartialSum
    <3>5. QED
      BY <3>3, <3>4
  <2>2. QED
    BY <1>1, <2>1
<1> HIDE DEF T
<1>5. n \in T
  BY <1>1, <1>3, <1>4, InductionUpTo
<1>6. QED
  BY <1>5 DEF T

LEMMA SumOfIs ==
    ASSUME NEW S, NEW w, DOMAIN w = S
    PROVE  SumOf(w) = (CHOOSE f : IsSum(w, f, S))[S]
BY DEF SumOf, FoldFunction, FoldFunctionOnSet, MapThenFoldSet, IsSum, PartialSum, Pick

LEMMA SumIsNumber ==
    ASSUME NEW S, IsFiniteSet(S), NEW w \in [S -> Nat]
    PROVE  SumOf(w) \in Nat
<1> DEFINE f == CHOOSE f : IsSum(w, f, S)
<1>1. IsSum(w, f, S)
  BY SumExists
<1>2. f[S] \in Nat
  BY <1>1, SumsAreNumbers
<1>3. QED
  BY <1>2, SumOfIs
-----------------------------------------------------------------------------
(* The figures of the report are numbers. *)

LEMMA QuotientIsNumber ==
    ASSUME NEW a \in Nat, NEW b \in Nat, b # 0
    PROVE  a \div b \in Nat
OBVIOUS

LEMMA RateIsNumber ==
    ASSUME NEW part \in Nat, NEW whole \in Nat
    PROVE  Mean(part, whole) \in Nat /\ Rate(part, whole) \in Nat
<1>1. ASSUME NEW sum \in Nat PROVE Mean(sum, whole) \in Nat
  <2>1. CASE whole = 0
    BY <2>1 DEF Mean
  <2>2. CASE whole # 0
    <3>1. 2 * sum + whole \in Nat /\ 2 * whole \in Nat /\ 2 * whole # 0
      BY <2>2
    <3>2. (2 * sum + whole) \div (2 * whole) \in Nat
      BY <3>1, QuotientIsNumber
    <3>3. QED
      BY <2>2, <3>2 DEF Mean
  <2>3. QED
    BY <2>1, <2>2
<1>2. 10000 * part \in Nat
  OBVIOUS
<1>3. QED
  BY <1>1, <1>2 DEF Rate

LEMMA CountIsNumber ==
    ASSUME NEW records, Numbered(records), NEW S \in SUBSET DOMAIN records
    PROVE  SumOf([i \in S |-> records[i].n]) \in Nat
<1>1. IsFiniteSet(S) /\ [i \in S |-> records[i].n] \in [S -> Nat]
  BY FS_Subset DEF Numbered
<1>2. QED
  BY <1>1, SumIsNumber

LEMMA F1IsNumber ==
    ASSUME NEW P, NEW predicted \in Seq(P), NEW gold \in Seq(STRING)
    PROVE  MultisetF1(predicted, gold) \in Nat
<1> DEFINE Count(seq, x) == Cardinality({i \in DOMAIN seq : seq[i] = x})
           least == [x \in Range(gold) |-> IF Count(predicted, x) < Count(gold, x)
                                           THEN Count(predicted, x) ELSE Count(gold, x)]
           both == Len(predicted) + Len(gold)
<1>1. IsFiniteSet(DOMAIN predicted) /\ IsFiniteSet(DOMAIN gold)
  <2>1. DOMAIN predicted = 1..Len(predicted) /\ DOMAIN gold = 1..Len(gold)
    OBVIOUS
  <2>2. QED
    BY <2>1, FS_Interval
<1>2. \A x : Count(predicted, x) \in Nat /\ Count(gold, x) \in Nat
  BY <1>1, FS_Subset, FS_CardinalityType
<1>3. IsFiniteSet(Range(gold))
  <2>1. gold \in Surjection(DOMAIN gold, Range(gold))
    BY DEF Surjection, Range
  <2>2. QED
    BY <1>1, <2>1, FS_Surjection
<1> HIDE DEF Count
<1>4. least \in [Range(gold) -> Nat]
  BY <1>2
<1>5. SumOf(least) \in Nat
  BY <1>3, <1>4, SumIsNumber
<1>6. CASE predicted = <<>> /\ gold = <<>>
  BY <1>6 DEF MultisetF1
<1>7. CASE ~(predicted = <<>> /\ gold = <<>>)
  <2>1. both \in Nat /\ both # 0
    BY <1>7
  <2>2. 20000 * SumOf(least) \in Nat
    BY <1>5
  <2> HIDE DEF both
  <2>3. (20000 * SumOf(least)) \div both \in Nat
    BY <2>1, <2>2, QuotientIsNumber
  <2>4. QED
    BY <1>7, <2>3 DEF MultisetF1, least, both, Count
<1>8. QED
  BY <1>6, <1>7

LEMMA ToolsAreASequence ==
    ASSUME NEW case, NEW policy, NEW ablation, NEW source
    PROVE  LET run == GoldenRun(case, policy, ablation, source)
           IN  \E P : [i \in DOMAIN run.calls |-> run.calls[i].tool] \in Seq(P)
<1> DEFINE run == GoldenRun(case, policy, ablation, source)
           tools == [i \in DOMAIN run.calls |-> run.calls[i].tool]
<1>1. run.calls = IF Asks(policy, case) THEN <<>> ELSE Calls(policy, case)
  BY DEF GoldenRun
<1>2. \E call : Calls(policy, case) = <<call>>
  BY DEF Calls, OracleCalls
<1>3. DOMAIN run.calls = 1..0 \/ DOMAIN run.calls = 1..1
  BY <1>1, <1>2
<1> HIDE DEF run
<1>4. tools \in Seq({tools[i] : i \in DOMAIN tools})
  BY <1>3
<1>5. QED
  BY <1>4 DEF run

LEMMA SuitesNumbered ==
    ASSUME NEW source \in SUBSET Controls, NEW key \in Keys
    PROVE  /\ Numbered(Suite[source][key].golden)
           /\ Numbered(Suite[source][key].multi)
           /\ Numbered(Suite[source][key].adversarial)
           /\ \A i \in DOMAIN Suite[source][key].golden : Suite[source][key].golden[i].f1 \in Nat
<1> DEFINE ablation == Grid[key][1]
           Run(i) == GoldenRun(Golden[i], Grid[key][2], ablation, source)
           suite == Suite[source][key]
<1>1. \A i \in DOMAIN Golden : Runs[source][key].golden[i] = Run(i)
  BY DEF Runs
<1>2. suite.golden = [i \in DOMAIN Golden |-> RunGolden(Golden[i], Run(i), ablation, source)]
  BY <1>1 DEF Suite
<1>3. suite.multi = [i \in DOMAIN MultiTurn |->
                       RunMultiTurn(MultiTurn[i], Runs[source][key].multi[i], source)]
  BY DEF Suite
<1>4. suite.adversarial = [i \in DOMAIN Adversarial |->
                             [n |-> Adversarial[i].n, blocked |-> Blocked(Adversarial[i], ablation, source)]]
  BY DEF Suite
<1> HIDE DEF suite, Run
<1>5. Numbered(suite.golden)
  BY <1>2, SuitesAssumption DEF Numbered, RunGolden
<1>6. Numbered(suite.multi)
  BY <1>3, SuitesAssumption DEF Numbered, RunMultiTurn
<1>7. Numbered(suite.adversarial)
  BY <1>4, SuitesAssumption DEF Numbered
<1>8. ASSUME NEW i \in DOMAIN Golden PROVE suite.golden[i].f1 \in Nat
  <2>1. suite.golden[i].f1 = MultisetF1([j \in DOMAIN Run(i).calls |-> Run(i).calls[j].tool],
                                        Golden[i].goldTools)
    BY <1>2 DEF RunGolden
  <2>2. PICK P : [j \in DOMAIN Run(i).calls |-> Run(i).calls[j].tool] \in Seq(P)
    BY ToolsAreASequence DEF Run
  <2>3. Golden[i].goldTools \in Seq(STRING)
    BY SuitesAssumption
  <2>4. QED
    BY <2>1, <2>2, <2>3, F1IsNumber
<1>9. QED
  BY <1>2, <1>5, <1>6, <1>7, <1>8 DEF suite

\* Every figure of every row is a number that can be compared.
LEMMA FiguresAreNumbers ==
    \A source \in SUBSET Controls : \A key \in Keys :
        \A figure \in DOMAIN Tolerances \cup Counters : GridOf[source][key][figure] \in Nat
<1> SUFFICES ASSUME NEW source \in SUBSET Controls, NEW key \in Keys
             PROVE  \A figure \in DOMAIN Tolerances \cup Counters : GridOf[source][key][figure] \in Nat
  OBVIOUS
<1> DEFINE suite == Suite[source][key]
           g == suite.golden
           m == suite.multi
           v == suite.adversarial
           row == ReportRow(suite)
<1>1. GridOf[source][key] = row
  BY DEF GridOf
<1>2. /\ Numbered(g) /\ Numbered(m) /\ Numbered(v)
      /\ \A i \in DOMAIN g : g[i].f1 \in Nat
  BY SuitesNumbered
<1> DEFINE Count(records, S) == SumOf([i \in S |-> records[i].n])
<1>3. /\ \A S \in SUBSET DOMAIN g : Count(g, S) \in Nat
      /\ \A S \in SUBSET DOMAIN m : Count(m, S) \in Nat
      /\ \A S \in SUBSET DOMAIN v : Count(v, S) \in Nat
  BY <1>2, CountIsNumber
<1> DEFINE answerable == {i \in DOMAIN g : ~g[i].clarify}
<1>4. SumOf([i \in answerable |-> g[i].n * g[i].f1]) \in Nat
  <2>1. IsFiniteSet(answerable)
    BY <1>2, FS_Subset DEF Numbered
  <2>2. [i \in answerable |-> g[i].n * g[i].f1] \in [answerable -> Nat]
    <3>1. ASSUME NEW i \in answerable PROVE g[i].n * g[i].f1 \in Nat
      <4>1. g[i].n \in Nat /\ g[i].f1 \in Nat
        BY <1>2 DEF Numbered
      <4>2. QED
        BY <4>1
    <3>2. QED
      BY <3>1
  <2>3. QED
    BY <2>1, <2>2, SumIsNumber
<1> HIDE DEF suite
<1>5. /\ row.ungrounded_answers_shipped = Count(g, {i \in DOMAIN g : g[i].ungrounded})
      /\ row.wrong_but_grounded = Count(g, {i \in DOMAIN g : /\ ~g[i].clarify /\ g[i].shipped
                                                                       /\ ~g[i].ungrounded /\ ~g[i].match})
      /\ row.pinned_fact_failures = Count(m, {i \in DOMAIN m : ~m[i].pinned})
  BY DEF ReportRow, CountIf
<1>6. /\ row.schema_validity_rate = 10000
      /\ row.execution_accuracy =
            Rate(Count(g, {i \in DOMAIN g : ~g[i].clarify /\ g[i].match}), Count(g, answerable))
      /\ row.tool_call_f1 = Mean(SumOf([i \in answerable |-> g[i].n * g[i].f1]), Count(g, answerable))
  BY DEF ReportRow, CountIf
<1>7. /\ row.grounding_rate = Rate(Count(g, {i \in DOMAIN g : g[i].shipped /\ ~g[i].ungrounded}),
                                   Count(g, {i \in DOMAIN g : g[i].shipped}))
      /\ row.clarification_recall = Rate(Count(g, {i \in DOMAIN g : g[i].clarify /\ g[i].clarified}),
                                         Count(g, {i \in DOMAIN g : g[i].clarify}))
  BY DEF ReportRow, CountIf
<1>8. /\ row.injection_block_rate = Rate(Count(v, {i \in DOMAIN v : v[i].blocked}),
                                         Count(v, {i \in DOMAIN v : TRUE}))
      /\ row.multi_turn_pass_rate = Rate(Count(m, {i \in DOMAIN m : m[i].passed}),
                                         Count(m, {i \in DOMAIN m : TRUE}))
  BY DEF ReportRow, CountIf, CountOf
<1> HIDE DEF row, Count, answerable, g, m, v
<1> USE <1>3
<1>9. \A figure \in Counters : row[figure] \in Nat
  BY <1>5 DEF Counters
<1>10. row.schema_validity_rate \in Nat /\ row.execution_accuracy \in Nat /\ row.tool_call_f1 \in Nat
  <2>1. Count(g, answerable) \in Nat
    BY DEF answerable
  <2>2. Count(g, {i \in DOMAIN g : ~g[i].clarify /\ g[i].match}) \in Nat
    OBVIOUS
  <2>3. row.schema_validity_rate \in Nat
    BY <1>6
  <2>4. QED
    BY <1>4, <1>6, <2>1, <2>2, <2>3, RateIsNumber
<1>11. row.grounding_rate \in Nat /\ row.clarification_recall \in Nat
  BY <1>7, RateIsNumber
<1>12. row.injection_block_rate \in Nat /\ row.multi_turn_pass_rate \in Nat
  BY <1>8, RateIsNumber
<1>13. QED
  BY <1>1, <1>9, <1>10, <1>11, <1>12 DEF Tolerances
-----------------------------------------------------------------------------
(* An ablation of a control that the source does not have changes nothing. *)

\* Under either ablation, tools and gate do the same.
SameAgent(a, b, source) ==
    /\ \A call : Dispatch(call, a, source) = Dispatch(call, b, source)
    /\ \A claim, results : Ships(claim, results, a, source) <=> Ships(claim, results, b, source)
    /\ "semantic_layer" \in a.off <=> "semantic_layer" \in b.off

LEMMA SameOutcomes ==
    ASSUME NEW a, NEW b, NEW source, SameAgent(a, b, source), NEW calls
    PROVE  Outcomes(calls, a, source) = Outcomes(calls, b, source)
BY DEF Outcomes, SameAgent

LEMMA SameGolden ==
    ASSUME NEW a, NEW b, NEW source, SameAgent(a, b, source), NEW case, NEW policy
    PROVE  GoldenRun(case, policy, a, source) = GoldenRun(case, policy, b, source)
BY SameOutcomes DEF GoldenRun, SameAgent

LEMMA SameRecord ==
    ASSUME NEW a, NEW b, NEW source, SameAgent(a, b, source), NEW case, NEW run
    PROVE  RunGolden(case, run, a, source) = RunGolden(case, run, b, source)
<1>1. ScoredRows(run.calls, run.results, a, source) = ScoredRows(run.calls, run.results, b, source)
  BY DEF ScoredRows, SameAgent
<1>2. QED
  BY <1>1 DEF RunGolden

LEMMA SameConversation ==
    ASSUME NEW a, NEW b, NEW source, SameAgent(a, b, source), NEW case
    PROVE  MultiTurnRun(case, a, source) = MultiTurnRun(case, b, source)
<1> DEFINE talk == FlattenSeq([t \in DOMAIN case.turns |-> TurnCalls(case, t)])
           Results(x, t) == Outcomes(TurnCalls(case, t), x, source)
           ClaimOf(x, t) == IF case.turns[t] = NoSql THEN NoFigure ELSE LastNumber(Last(Results(x, t)))
<1>1. Outcomes(talk, a, source) = Outcomes(talk, b, source)
  BY SameOutcomes
<1>2. \A t : Results(a, t) = Results(b, t)
  BY SameOutcomes
<1>3. \A t : ClaimOf(a, t) = ClaimOf(b, t)
  BY <1>2
<1>4. (\A t \in DOMAIN case.turns : Ships(ClaimOf(a, t), Results(a, t), a, source))
        = (\A t \in DOMAIN case.turns : Ships(ClaimOf(b, t), Results(b, t), b, source))
  BY <1>2, <1>3 DEF SameAgent
<1>5. QED
  BY <1>1, <1>3, <1>4 DEF MultiTurnRun

LEMMA SameBlocking ==
    ASSUME NEW a, NEW b, NEW source, SameAgent(a, b, source), NEW case
    PROVE  Blocked(case, a, source) = Blocked(case, b, source)
<1>1. Outcomes(AttackPlan(case), a, source) = Outcomes(AttackPlan(case), b, source)
  BY SameOutcomes
<1>2. QED
  BY <1>1 DEF Blocked

LEMMA SameVerdict ==
    ASSUME NEW a, NEW b, NEW present, NEW s,
           \A rule \in present : Breaks(rule, s, a) <=> Breaks(rule, s, b)
    PROVE  Verdict(s, a, present) = Verdict(s, b, present)
BY DEF Verdict

LEMMA SameDispatch ==
    ASSUME NEW a, NEW b, NEW source, NEW call,
           "semantic_layer" \in a.off <=> "semantic_layer" \in b.off,
           Verdict(call.argument, GuardPolicy(a), RulesIn(source))
             = Verdict(call.argument, GuardPolicy(b), RulesIn(source))
    PROVE  Dispatch(call, a, source) = Dispatch(call, b, source)
<1>1. RunSql(call.argument, GuardPolicy(a), RulesIn(source))
        = RunSql(call.argument, GuardPolicy(b), RulesIn(source))
  BY DEF RunSql
<1>2. "semantic_layer" \in source \ a.off <=> "semantic_layer" \in source \ b.off
  OBVIOUS
<1>3. QED
  BY <1>1, <1>2 DEF Dispatch

LEMMA NoGroundingIsNaive ==
    ASSUME NEW source, "grounding" \notin source
    PROVE  SameAgent(NoGrounding, AllControls, source)
<1>1. GuardPolicy(NoGrounding) = GuardPolicy(AllControls)
  BY DEF GuardPolicy, NoGrounding, AllControls, Ablation
<1>2. "semantic_layer" \notin NoGrounding.off /\ "semantic_layer" \notin AllControls.off
  BY DEF NoGrounding, AllControls, Ablation
<1>3. \A claim, facts : Checked(claim, facts, source)
  BY DEF Checked
<1>4. \A call : Dispatch(call, NoGrounding, source) = Dispatch(call, AllControls, source)
  BY <1>1, <1>2, SameDispatch
<1>5. QED
  BY <1>2, <1>3, <1>4 DEF SameAgent, Ships

LEMMA NoAtomsIsNaive ==
    ASSUME NEW source, "metric_atoms" \notin source
    PROVE  SameAgent(NoMetricAtoms, AllControls, source)
<1>1. \A s : \A rule \in RulesIn(source) :
         Breaks(rule, s, GuardPolicy(NoMetricAtoms)) <=> Breaks(rule, s, GuardPolicy(AllControls))
  <2> SUFFICES ASSUME NEW s, NEW rule \in RulesIn(source)
               PROVE  Breaks(rule, s, GuardPolicy(NoMetricAtoms))
                        <=> Breaks(rule, s, GuardPolicy(AllControls))
    OBVIOUS
  <2>1. rule # "aggregate"
    BY DEF RulesIn
  <2>2. GuardPolicy(NoMetricAtoms).allowStar = GuardPolicy(AllControls).allowStar
    BY DEF GuardPolicy, NoMetricAtoms, AllControls, Ablation
  <2>3. QED
    BY <2>1, <2>2 DEF Breaks
<1>2. "semantic_layer" \notin NoMetricAtoms.off /\ "semantic_layer" \notin AllControls.off
  BY DEF NoMetricAtoms, AllControls, Ablation
<1>3. "grounding" \notin NoMetricAtoms.off /\ "grounding" \notin AllControls.off
  BY DEF NoMetricAtoms, AllControls, Ablation
<1>4. \A call : Dispatch(call, NoMetricAtoms, source) = Dispatch(call, AllControls, source)
  <2> SUFFICES ASSUME NEW call
               PROVE  Dispatch(call, NoMetricAtoms, source) = Dispatch(call, AllControls, source)
    OBVIOUS
  <2>1. Verdict(call.argument, GuardPolicy(NoMetricAtoms), RulesIn(source))
          = Verdict(call.argument, GuardPolicy(AllControls), RulesIn(source))
    BY <1>1, SameVerdict
  <2>2. QED
    BY <1>2, <2>1, SameDispatch
<1>5. QED
  BY <1>2, <1>3, <1>4 DEF SameAgent, Ships

LEMMA GridShape ==
    /\ Keys = {"oracle", "naive", "no_grounding", "no_metric_atoms", "no_semantic_layer",
               "no_star_check", "nothing_but_sql"}
    /\ Grid["naive"] = <<AllControls, "naive">>
    /\ Grid["no_grounding"] = <<NoGrounding, "naive">>
    /\ Grid["no_metric_atoms"] = <<NoMetricAtoms, "naive">>
BY DEF Keys, Grid

\* Two rows of one policy whose ablations leave the same agent are the same row.
LEMMA SameRow ==
    ASSUME NEW source \in SUBSET Controls, NEW one \in Keys, NEW other \in Keys,
           Grid[one][2] = Grid[other][2],
           SameAgent(Grid[one][1], Grid[other][1], source)
    PROVE  GridOf[source][one] = GridOf[source][other]
<1> DEFINE a == Grid[one][1]
           b == Grid[other][1]
           policy == Grid[one][2]
           RunsOf(key) == Runs[source][key]
<1>1. Runs[source][one] = Runs[source][other]
  <2>1. \A i \in DOMAIN Golden : GoldenRun(Golden[i], policy, a, source)
                                   = GoldenRun(Golden[i], policy, b, source)
    BY SameGolden
  <2>2. \A i \in DOMAIN MultiTurn : MultiTurnRun(MultiTurn[i], a, source)
                                      = MultiTurnRun(MultiTurn[i], b, source)
    BY SameConversation
  <2>3. QED
    BY <2>1, <2>2 DEF Runs
<1>2. Suite[source][one] = Suite[source][other]
  <2>1. \A i \in DOMAIN Golden : RunGolden(Golden[i], Runs[source][one].golden[i], a, source)
                                   = RunGolden(Golden[i], Runs[source][one].golden[i], b, source)
    BY SameRecord
  <2>2. \A i \in DOMAIN Adversarial : Blocked(Adversarial[i], a, source)
                                        = Blocked(Adversarial[i], b, source)
    BY SameBlocking
  <2>3. QED
    BY <1>1, <2>1, <2>2 DEF Suite
<1>3. QED
  BY <1>2 DEF GridOf

LEMMA MissingControl ==
    ASSUME NEW source \in SUBSET Controls
    PROVE  /\ "grounding" \notin source => GridOf[source]["no_grounding"] = GridOf[source]["naive"]
           /\ "metric_atoms" \notin source => GridOf[source]["no_metric_atoms"] = GridOf[source]["naive"]
BY SameRow, GridShape, NoGroundingIsNaive, NoAtomsIsNaive
-----------------------------------------------------------------------------
(* The gate. *)

Reports == [source : SUBSET Controls, rows : SUBSET Keys]
Sides   == [source : SUBSET Controls, rows : SUBSET Keys, baseline : Reports]

\* The reports and the two sides a change can be at.
SidesTyped == merged \in Sides /\ tree \in Sides

LEMMA PairsKnown ==
    /\ Differentials = {<<"no_grounding", "ungrounded_answers_shipped">>,
                        <<"no_metric_atoms", "wrong_but_grounded">>}
    /\ Counters = {"ungrounded_answers_shipped", "wrong_but_grounded", "pinned_fact_failures"}
    /\ "no_grounding" \in Keys /\ "no_metric_atoms" \in Keys /\ "naive" \in Keys
    /\ ControlOf["no_grounding"] = "grounding" /\ ControlOf["no_metric_atoms"] = "metric_atoms"
BY GridShape DEF Differentials, Counters, ControlOf

LEMMA ToleranceOf ==
    /\ DOMAIN Tolerances = {"execution_accuracy", "tool_call_f1", "schema_validity_rate",
                            "grounding_rate", "injection_block_rate", "clarification_recall",
                            "multi_turn_pass_rate"}
    /\ \A metric \in DOMAIN Tolerances : Tolerances[metric] \in Nat
    /\ \A rate \in ExactRates : rate \in DOMAIN Tolerances /\ Tolerances[rate] = 0
BY DEF Tolerances, ExactRates

LEMMA SidesInit == Init => SidesTyped
BY PairsKnown DEF Init, SidesTyped, Sides, Reports, Report

LEMMA SidesStep == SidesTyped /\ [Next]_vars => SidesTyped'
<1> SUFFICES ASSUME SidesTyped, [Next]_vars PROVE SidesTyped'
  OBVIOUS
<1> USE DEF SidesTyped
<1>1. CASE EditControl
  <2>1. PICK c \in Touched : tree' = [tree EXCEPT !.source = Difference(@, {c})] /\ merged' = merged
    BY <1>1 DEF EditControl
  <2>2. Difference(tree.source, {c}) \in SUBSET Controls
    BY TouchedAssumption DEF Difference, Sides
  <2>3. QED
    BY <2>1, <2>2 DEF Sides
<1>2. CASE EditRows
  <2>1. PICK keys \in TouchedRows :
           tree' = [tree EXCEPT !.rows = Difference(@, keys)] /\ merged' = merged
    BY <1>2 DEF EditRows
  <2>2. Difference(tree.rows, keys) \in SUBSET Keys
    BY TouchedAssumption DEF Difference, Sides
  <2>3. QED
    BY <2>1, <2>2 DEF Sides
<1>3. CASE WriteBaseline
  BY <1>3 DEF WriteBaseline, Now, Report, Sides, Reports
<1>4. CASE Merge
  BY <1>4 DEF Merge
<1>5. CASE Abandon
  BY <1>5 DEF Abandon
<1>6. CASE UNCHANGED vars
  BY <1>6 DEF vars
<1>7. QED
  BY <1>1, <1>2, <1>3, <1>4, <1>5, <1>6 DEF Next

LEMMA SidesHold == Spec => []SidesTyped
BY SidesInit, SidesStep, PTL DEF Spec

\* Only a merge changes what is merged, and what it merges has passed.
LEMMA OnlyMerges ==
    ASSUME [Next]_vars
    PROVE  \/ merged' = merged
           \/ merged' = tree /\ ~GateFails(Now(tree), tree.baseline)
BY DEF Next, EditControl, EditRows, WriteBaseline, Merge, Abandon, vars
-----------------------------------------------------------------------------
\* A side that passes the gate has the controls its differentials show.
Bites(side) ==
    \A pair \in Differentials :
        BothRows(pair) \subseteq side.rows => ControlOf[pair[1]] \in side.source

LEMMA PassingBites ==
    ASSUME NEW side \in Sides, ~GateFails(Now(side), side.baseline)
    PROVE  Bites(side)
<1>1. ~NotBiting(RowsOf(Now(side)))
  BY DEF GateFails, CheckRegression
<1> DEFINE rows == RowsOf(Now(side))
<1>2. DOMAIN rows = side.rows /\ \A key \in side.rows : rows[key] = GridOf[side.source][key]
  BY DEF RowsOf, Now, Report, Sides
<1> HIDE DEF rows
<1>3. ASSUME NEW pair \in Differentials, BothRows(pair) \subseteq side.rows
      PROVE  GridOf[side.source][pair[1]] # GridOf[side.source]["naive"]
  <2>1. "naive" \in side.rows /\ pair[1] \in side.rows
    BY <1>3 DEF BothRows
  <2>2. ~(GridOf[side.source][pair[1]][pair[2]] <= GridOf[side.source]["naive"][pair[2]])
    BY <1>1, <1>2, <1>3, <2>1 DEF NotBiting, rows
  <2>3. GridOf[side.source]["naive"][pair[2]] \in Nat
    BY <1>3, PairsKnown, FiguresAreNumbers DEF Sides
  <2>4. QED
    BY <2>2, <2>3
<1>4. QED
  BY <1>3, PairsKnown, MissingControl DEF Bites, Sides

\* BitesWhileItsRowsAreThere: with both rows of its differential in the grid, no number
\* of pull requests takes the control out of main, whatever rows come and go, whatever
\* the datasets, the registry and the guard's limits are, and whether baselines are
\* rewritten on the way or not.
THEOREM ControlsBite == Spec => []BitesWhileItsRowsAreThere
<1>1. Init => Bites(merged)
  BY PairsKnown DEF Init, Bites, Controls
<1>2. SidesTyped /\ Bites(merged) /\ [Next]_vars => Bites(merged)'
  <2> SUFFICES ASSUME SidesTyped, Bites(merged), [Next]_vars
               PROVE  Bites(merged)'
    OBVIOUS
  <2>1. CASE merged' = merged
    BY <2>1 DEF Bites
  <2>2. CASE merged' = tree /\ ~GateFails(Now(tree), tree.baseline)
    <3>1. Bites(tree)
      BY <2>2, PassingBites DEF SidesTyped
    <3>2. QED
      BY <2>2, <3>1 DEF Bites
  <2>3. QED
    BY <2>1, <2>2, OnlyMerges
<1>3. Bites(merged) => BitesWhileItsRowsAreThere
  BY DEF Bites, BitesWhileItsRowsAreThere
<1>4. QED
  BY <1>1, <1>2, <1>3, SidesHold, PTL DEF Spec

\* A row that a report compares with a baseline of all controls, and that passes, shows
\* nothing.
LEMMA PassingShowsNothing ==
    ASSUME NEW side \in Sides, side.baseline.source = Controls,
           ~GateFails(Now(side), side.baseline), NEW key \in side.rows
    PROVE  key \notin Showing(side.source)
<1> DEFINE now  == RowsOf(Now(side))
           then == RowsOf(side.baseline)
<1>1. /\ DOMAIN now = side.rows /\ now[key] = GridOf[side.source][key]
      /\ DOMAIN then = side.baseline.rows
      /\ \A k \in side.baseline.rows : then[k] = GridOf[Controls][k]
  BY DEF RowsOf, Now, Report
<1>2. ~Regressed(now, then)
  BY DEF GateFails, CheckRegression
<1> HIDE DEF now, then
<1>3. key \in DOMAIN then /\ then[key] = GridOf[Controls][key] /\ key \in Keys
  BY <1>1, <1>2 DEF Regressed, Sides
<1>4. ASSUME NEW rate \in ExactRates PROVE ~(GridOf[side.source][key][rate] < GridOf[Controls][key][rate])
  <2>1. now[key][rate] \in Nat /\ then[key][rate] \in Nat
    BY <1>1, <1>3, <1>4, ToleranceOf, FiguresAreNumbers DEF Sides
  <2>2. ~(now[key][rate] < then[key][rate] - Tolerances[rate])
    BY <1>1, <1>2, <1>4, ToleranceOf DEF Regressed
  <2>3. QED
    BY <1>1, <1>3, <1>4, <2>1, <2>2, ToleranceOf
<1>5. ASSUME NEW counter \in Counters
      PROVE  ~(GridOf[side.source][key][counter] > GridOf[Controls][key][counter])
  BY <1>1, <1>2, <1>3, <1>5 DEF Regressed
<1>6. QED
  BY <1>4, <1>5 DEF Showing, Worse

\* NoControlGoesSilently, for datasets in which every control shows somewhere in the
\* whole grid: under a baseline measured with all controls one leaves main only after
\* every row that shows its absence, however much one pull request edits.
THEOREM NoControlGoes == EveryControlShows => (Spec => []NoControlGoesSilently)
<1> SUFFICES ASSUME EveryControlShows PROVE Spec => []NoControlGoesSilently
  OBVIOUS
<1> DEFINE Silent == merged.baseline.source = Controls /\ merged.source # Controls =>
                        \A key \in merged.rows : key \notin Showing(merged.source)
<1>1. Init => Silent
  BY DEF Init, Report
<1>2. SidesTyped /\ Silent /\ [Next]_vars => Silent'
  <2> SUFFICES ASSUME SidesTyped, Silent, [Next]_vars PROVE Silent'
    OBVIOUS
  <2>1. CASE merged' = merged
    BY <2>1 DEF Showing
  <2>2. CASE merged' = tree /\ ~GateFails(Now(tree), tree.baseline)
    <3>1. tree.baseline.source = Controls => \A key \in tree.rows : key \notin Showing(tree.source)
      BY <2>2, PassingShowsNothing DEF SidesTyped
    <3>2. QED
      BY <2>2, <3>1 DEF Showing
  <2>3. QED
    BY <2>1, <2>2, OnlyMerges
<1>3. SidesTyped /\ Silent => NoControlGoesSilently
  <2> SUFFICES ASSUME SidesTyped, Silent, merged.baseline.source = Controls,
                      merged.source # Controls
               PROVE  Showing(merged.source) \in (SUBSET (Keys \ merged.rows)) \ {{}}
    BY DEF NoControlGoesSilently
  <2>1. Showing(merged.source) # {}
    BY DEF EveryControlShows, SidesTyped, Sides
  <2>2. Showing(merged.source) \subseteq Keys /\ \A key \in merged.rows : key \notin Showing(merged.source)
    BY DEF Showing
  <2> HIDE DEF Silent
  <2>3. Showing(merged.source) \subseteq Keys \ merged.rows
    BY <2>2
  <2>4. QED
    BY <2>1, <2>3
<1>4. QED
  BY <1>1, <1>2, <1>3, SidesHold, PTL DEF Spec

\* What is on main passes its own gate.
MainPasses == ~GateFails(Now(merged), merged.baseline)

LEMMA FullGridPasses ==
    ASSUME EveryControlBites, NEW rows \in SUBSET Keys
    PROVE  ~NotBiting(RowsOf(Report(Controls, rows)))
<1> DEFINE now == RowsOf(Report(Controls, rows))
<1>1. DOMAIN now = rows /\ \A key \in rows : now[key] = GridOf[Controls][key]
  BY DEF RowsOf, Report
<1> HIDE DEF now
<1>2. ASSUME NEW pair \in Differentials, {"naive", pair[1]} \subseteq DOMAIN now,
             now[pair[1]][pair[2]] <= now["naive"][pair[2]]
      PROVE  FALSE
  <2>1. /\ now[pair[1]] = GridOf[Controls][pair[1]] /\ now["naive"] = GridOf[Controls]["naive"]
        /\ pair[1] \in Keys /\ "naive" \in Keys /\ pair[2] \in Counters
    BY <1>1, <1>2, PairsKnown
  <2>2. now[pair[1]][pair[2]] \in Nat /\ now["naive"][pair[2]] \in Nat
    BY <2>1, FiguresAreNumbers
  <2>3. QED
    BY <1>2, <2>1, <2>2 DEF EveryControlBites
<1>3. QED
  BY <1>2 DEF NotBiting, now

LEMMA MainPassesHolds == EveryControlBites => (Spec => []MainPasses)
<1> SUFFICES ASSUME EveryControlBites PROVE Spec => []MainPasses
  OBVIOUS
<1>1. Init => MainPasses
  <2> SUFFICES ASSUME Init PROVE MainPasses
    OBVIOUS
  <2> DEFINE full == RowsOf(Report(Controls, Keys))
  <2>1. Now(merged) = Report(Controls, Keys) /\ merged.baseline = Report(Controls, Keys)
    BY DEF Init, Now, Report
  <2>2. \A key \in Keys : full[key] = GridOf[Controls][key]
    BY DEF RowsOf, Report
  <2>3. DOMAIN full = Keys
    BY DEF RowsOf, Report
  <2> HIDE DEF full
  <2>4. \A key \in Keys : \A figure \in DOMAIN Tolerances \cup Counters : full[key][figure] \in Nat
    BY <2>2, FiguresAreNumbers
  <2>5. ~Regressed(full, full)
    BY <2>3, <2>4, ToleranceOf DEF Regressed
  <2>6. ~NotBiting(full)
    BY FullGridPasses DEF full
  <2>7. QED
    BY <2>1, <2>5, <2>6, GridShape DEF Report, MainPasses, GateFails, CheckRegression, full
<1>2. MainPasses /\ [Next]_vars => MainPasses'
  BY OnlyMerges DEF MainPasses, Now, GateFails
<1>3. QED
  BY <1>1, <1>2, PTL DEF Spec

\* RepairPasses: what main passed with some controls missing it passes with all of them,
\* if the datasets are such that another control makes no figure worse.  The rows that
\* were never measured are no obstacle, because main's baseline has every row of main.
THEOREM RepairsPass ==
    EveryControlBites /\ ControlsDoNoHarm => (Spec => []RepairPasses)
<1> SUFFICES ASSUME EveryControlBites, ControlsDoNoHarm PROVE Spec => []RepairPasses
  OBVIOUS
<1>1. SidesTyped /\ BitesWhileItsRowsAreThere /\ MainPasses => RepairPasses
  <2> SUFFICES ASSUME SidesTyped, BitesWhileItsRowsAreThere, MainPasses,
                      \A pair \in Differentials : BothRows(pair) \subseteq merged.rows
               PROVE  ~GateFails(Report(Controls, merged.rows), merged.baseline)
    BY DEF RepairPasses
  <2> DEFINE repaired == RowsOf(Report(Controls, merged.rows))
             now  == RowsOf(Now(merged))
             then == RowsOf(merged.baseline)
  <2>1. /\ DOMAIN now = merged.rows /\ DOMAIN repaired = merged.rows
        /\ \A key \in merged.rows : now[key] = GridOf[merged.source][key]
        /\ \A key \in merged.rows : repaired[key] = GridOf[Controls][key]
        /\ \A key \in DOMAIN then : then[key] = GridOf[merged.baseline.source][key]
        /\ DOMAIN then = merged.baseline.rows
    BY DEF RowsOf, Now, Report
  <2>2. ~Regressed(now, then)
    BY DEF MainPasses, GateFails, CheckRegression
  <2>3. ~NotBiting(repaired)
    BY FullGridPasses DEF SidesTyped, Sides
  <2> HIDE DEF repaired, now, then
  <2>4. \A pair \in Differentials : ControlOf[pair[1]] \in merged.source
    BY DEF BitesWhileItsRowsAreThere
  <2>5. \A key \in merged.rows :
           /\ \A metric \in DOMAIN Tolerances : repaired[key][metric] >= now[key][metric]
           /\ \A counter \in Counters : repaired[key][counter] <= now[key][counter]
    BY <2>1, <2>4 DEF ControlsDoNoHarm, SidesTyped, Sides
  <2>6. merged.rows \subseteq DOMAIN then
    BY <2>1, <2>2 DEF Regressed
  <2>7. \A key \in merged.rows : \A figure \in DOMAIN Tolerances \cup Counters :
           /\ repaired[key][figure] \in Nat /\ now[key][figure] \in Nat /\ then[key][figure] \in Nat
    BY <2>1, <2>6, FiguresAreNumbers DEF SidesTyped, Sides, Reports
  <2>8. \A key \in merged.rows : \A metric \in DOMAIN Tolerances :
           ~(repaired[key][metric] < then[key][metric] - Tolerances[metric])
    <3> SUFFICES ASSUME NEW key \in merged.rows, NEW metric \in DOMAIN Tolerances
                 PROVE  ~(repaired[key][metric] < then[key][metric] - Tolerances[metric])
      OBVIOUS
    <3>1. ~(now[key][metric] < then[key][metric] - Tolerances[metric])
      BY <2>1, <2>2 DEF Regressed
    <3>2. QED
      BY <2>5, <2>7, <3>1, ToleranceOf
  <2>9. \A key \in merged.rows : \A counter \in Counters :
           ~(repaired[key][counter] > then[key][counter])
    <3> SUFFICES ASSUME NEW key \in merged.rows, NEW counter \in Counters
                 PROVE  ~(repaired[key][counter] > then[key][counter])
      OBVIOUS
    <3>1. ~(now[key][counter] > then[key][counter])
      BY <2>1, <2>2 DEF Regressed
    <3>2. QED
      BY <2>5, <2>7, <3>1
  <2>10. ~Regressed(repaired, then)
    BY <2>1, <2>6, <2>8, <2>9 DEF Regressed
  <2>11. "oracle" \in merged.rows
    BY DEF MainPasses, GateFails, Now, Report
  <2>12. QED
    BY <2>3, <2>10, <2>11 DEF Report, GateFails, CheckRegression, repaired, then
<1>2. QED
  BY <1>1, SidesHold, ControlsBite, MainPassesHolds, PTL
===============================================================================
