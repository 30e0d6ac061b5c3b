---------------------------- MODULE WeeklyReport ----------------------------
(***************************************************************************)
(* `python -m campaign_copilot.reporting`: one query after another against *)
(* a warehouse that may be rebuilt between any two of them, figures with   *)
(* their provenance, the narrative and its gate, the verification that     *)
(* runs every query again, and the two files.                              *)
(*                                                                         *)
(* A value is a fraction <<n, d>>; None is SQL's NULL.  A warehouse is     *)
(* what it says of the week, by channel, and of the week before.           *)
(***************************************************************************)
EXTENDS Integers, Sequences, FiniteSets, SequencesExt

CONSTANTS
  Warehouses,   \* [week: channel -> [spend, revenue, transactions], prior: [spend, revenue]]
  MaxRows,      \* the default limit that build_query gives a query: 100
  MaxRefresh    \* bound: how often the warehouse is rebuilt while the report runs

VARIABLES
  history,    \* the warehouses there were since the report started, the present one last
  phase,      \* build, verify, write, done; undefined, ungrounded, unreproducible
  at,         \* how many queries of the phase have run
  figures,    \* id -> [value, derived_from, best], in the order of Registered
  channels,   \* the channel table, none before it is read
  narrative,  \* [cites, spend, revenue]
  files       \* the files written, with what they show
vars == <<history, phase, at, figures, channels, narrative, files>>

Warehouse == Last(history)

None     == <<>>
Infinite == <<1, 0>>
Fraction(n, d) == IF d = 0 THEN None ELSE <<n, d>>
Whole(n)       == <<n, 1>>

\* math.isclose, exactly.
Close(a, b) == a # None /\ b # None /\ a[1] * b[2] = b[1] * a[2]

Larger(a, b) == a[1] * b[2] > b[1] * a[2]

\* SUM over a decimal column is NULL or a number.
ASSUME PriorAssumption ==
    \A db \in Warehouses : \A value \in {db.prior.spend, db.prior.revenue} :
        value = None \/ value \in Int \X {1}
ASSUME RefreshAssumption == MaxRefresh \in Nat
ASSUME RowsAssumption == MaxRows \in Nat \ {0}
ASSUME WeekAssumption ==
    \A db \in Warehouses :
        IsFiniteSet(DOMAIN db.week) /\ db.week = [c \in DOMAIN db.week |-> db.week[c]]
-----------------------------------------------------------------------------
\* The queries, by figure, as build_query compiles them: a sum of no rows and a
\* ratio over zero are NULL.
SumOver(rows, f) == FoldSet(LAMBDA c, sum : sum + rows[c][f], 0, DOMAIN rows)
Sum(db, f)   == SumOver(db.week, f)
SumOf(db, f) == IF DOMAIN db.week = {} THEN None ELSE Whole(Sum(db, f))

Roas(row) == Fraction(row.revenue, row.spend)

\* The channels that the channel query keeps: ordered by spend and cut at the limit,
\* in no order that it fixes where the spend is equal.
TopSpenders(week) ==
    {kept \in SUBSET DOMAIN week :
        /\ Cardinality(kept) <= MaxRows
        /\ kept # DOMAIN week => Cardinality(kept) = MaxRows
        /\ \A c \in kept, other \in DOMAIN week \ kept : week[other].spend <= week[c].spend}

\* The value of a figure's query; F9's is pinned to the channel it was chosen for.
Query(db, id, best) ==
    CASE id = "F1" -> SumOf(db, "spend")
      [] id = "F2" -> SumOf(db, "revenue")
      [] id = "F3" -> Fraction(Sum(db, "revenue"), Sum(db, "spend"))
      [] id = "F4" -> Fraction(Sum(db, "spend"), Sum(db, "transactions"))
      [] id = "F5" -> db.prior.spend
      [] id = "F6" -> db.prior.revenue
      [] id = "F9" -> IF best \in DOMAIN db.week THEN Roas(db.week[best]) ELSE None

Queries    == <<"F1", "F2", "F3", "F4", "F5", "F6">>
Registered == <<"F1", "F2", "F3", "F4", "F5", "F6", "F7", "F8", "F9">>

Abs(n) == IF n < 0 THEN -n ELSE n

\* Faulty variant: the sign is left on.
SignedPct(current, previous) ==
    IF previous[1] = 0 THEN Whole(0) ELSE Fraction(current[1] - previous[1], previous[1])

\* abs(_pct()): no change from nothing.
Pct(current, previous) ==
    IF previous[1] = 0 THEN Whole(0) ELSE Fraction(Abs(current[1] - previous[1]), previous[1])

\* _recompute, abs_pct_change: any change from nothing is infinite.
Recompute(current, previous) ==
    IF previous[1] = 0 THEN (IF current[1] = 0 THEN Whole(0) ELSE Infinite)
                       ELSE Fraction(Abs(current[1] - previous[1]), previous[1])

\* A figure's query, or the figures it follows from; best is the channel that a
\* query is pinned to.
Figure(value, derived_from) ==
    [value |-> value, derived_from |-> derived_from, best |-> "none"]

\* A dictionary with one more entry.
With(entries, key, entry) ==
    [k \in DOMAIN entries \cup {key} |-> IF k = key THEN entry ELSE entries[k]]

\* F7 and F8, from their parents.
WithChanges(figs) ==
    With(With(figs, "F7", Figure(Pct(figs["F1"].value, figs["F5"].value), <<"F1", "F5">>)),
         "F8", Figure(Pct(figs["F2"].value, figs["F6"].value), <<"F2", "F6">>))

\* F9, from a row of the channel table.
WithBest(figs, row, c) ==
    With(figs, "F9", [Figure(Roas(row), <<>>) EXCEPT !.best = c])
-----------------------------------------------------------------------------
\* max() over the rows that have a ROAS: the first of the largest, in the order of the
\* query, which fixes none where the spend is equal too.
Before(one, other) ==
    \/ Larger(Roas(one), Roas(other))
    \/ Close(Roas(one), Roas(other)) /\ one.spend > other.spend

Best == {c \in DOMAIN channels :
            /\ Roas(channels[c]) # None
            /\ \A other \in DOMAIN channels :
                  Roas(channels[other]) # None => ~Before(channels[other], channels[c])}

BestIn(c) == IF Best = {} THEN c = "none" ELSE c \in Best

Init == /\ history \in {<<db>> : db \in Warehouses}
        /\ phase = "build" /\ at = 0
        /\ figures = <<>> /\ channels = <<>> /\ narrative = None /\ files = <<>>

\* scripts/build_warehouse.sh rebuilds the database file under the reader.
Refresh == /\ Len(history) <= MaxRefresh
           /\ phase \in {"build", "verify", "write"}
           /\ \E db \in Warehouses \ {Warehouse} : history' = Append(history, db)
           /\ UNCHANGED <<phase, at, figures, channels, narrative, files>>

\* The headline figures, one query each; an undefined one ends the run.
ReadFigure ==
    /\ phase = "build" /\ at < Len(Queries)
    /\ LET id    == Queries[at + 1]
           value == Query(Warehouse, id, "none")
       IN  IF value = None THEN phase' = "undefined" /\ UNCHANGED <<at, figures>>
           ELSE /\ figures' = With(figures, id, Figure(value, <<>>))
                /\ at' = at + 1
                /\ UNCHANGED phase
    /\ UNCHANGED <<history, channels, narrative, files>>

\* F7 and F8 from their parents, then the channel table with these channels in it,
\* and F9 from the table.
WithTable(kept) ==
    /\ channels' = [c \in kept |-> Warehouse.week[c]]
    /\ \E c \in kept \cup {"none"} :
          /\ BestIn(c)'
          /\ figures' = IF c = "none" THEN WithChanges(figures)
                        ELSE WithBest(WithChanges(figures), Warehouse.week[c], c)
    /\ at' = at + 1
    /\ UNCHANGED <<history, phase, narrative, files>>

\* Faulty variant: a channel without a ROAS is left out of the table.
ReadRatedChannels ==
    /\ phase = "build" /\ at = Len(Queries)
    /\ \E kept \in TopSpenders(Warehouse.week) :
          WithTable({c \in kept : Roas(Warehouse.week[c]) # None})

\* The channel query names no limit and gets the default one: a longer table is cut
\* and says nothing of it.
ReadChannels ==
    /\ phase = "build" /\ at = Len(Queries)
    /\ \E kept \in TopSpenders(Warehouse.week) : WithTable(kept)

\* The daily series, which nothing rendered uses.
ReadDaily ==
    /\ phase = "build" /\ at = Len(Queries) + 1
    /\ at' = at + 1
    /\ UNCHANGED <<history, phase, figures, channels, narrative, files>>

\* facts(): what the narrative may state.
Facts == {figures[id].value : id \in {i \in DOMAIN figures : figures[i].value # Infinite}}

Word(now, then) == IF Larger(then, now) THEN "down" ELSE "up"

\* _narrative and the gate it passes.
Narrate ==
    /\ phase = "build" /\ at = Len(Queries) + 2
    /\ narrative' = [cites   |-> DOMAIN figures,
                     spend   |-> Word(figures["F1"].value, figures["F5"].value),
                     revenue |-> Word(figures["F2"].value, figures["F6"].value)]
    /\ phase' = IF {figures[id].value : id \in DOMAIN figures} \subseteq Facts
                THEN "verify" ELSE "ungrounded"
    /\ at' = 0
    /\ UNCHANGED <<history, figures, channels, files>>
-----------------------------------------------------------------------------
\* The figure's own query, on a warehouse.
QueryOf(db, id) == Query(db, id, figures[id].best)

\* Faulty variant: only the arithmetic is checked, no query runs again.
ReproducesFormula(id) ==
    LET parents == figures[id].derived_from
    IN  parents # <<>> => Close(Recompute(figures[parents[1]].value, figures[parents[2]].value),
                                figures[id].value)

\* verify, for one figure: the query again, or the formula again.
Reproduces(id) ==
    LET parents == figures[id].derived_from
    IN  IF parents = <<>>
        THEN Close(QueryOf(Warehouse, id), figures[id].value)
        ELSE Close(Recompute(figures[parents[1]].value, figures[parents[2]].value),
                   figures[id].value)

\* verify goes through all of them and reports; one problem is enough to write nothing.
Verify ==
    /\ phase = "verify" /\ at < Cardinality(DOMAIN figures)
    /\ IF Reproduces(Registered[at + 1]) THEN at' = at + 1 /\ UNCHANGED phase
       ELSE phase' = "unreproducible" /\ UNCHANGED at
    /\ UNCHANGED <<history, figures, channels, narrative, files>>

Verified ==
    /\ phase = "verify" /\ at = Cardinality(DOMAIN figures)
    /\ phase' = "write" /\ at' = 0
    /\ UNCHANGED <<history, figures, channels, narrative, files>>

\* render_markdown: the narrative, four headline figures, the table, every provenance.
WriteMarkdown ==
    /\ phase = "write" /\ files = <<>>
    /\ files' = With(files, "md", [figures |-> figures, table |-> channels, narrative |-> narrative])
    /\ UNCHANGED <<history, phase, at, figures, channels, narrative>>

\* _paginate and render_pptx: the appendix in slides of five.
Paginate(rows, size) ==
    [page \in 1..((Len(rows) + size - 1) \div size) |->
        SubSeq(rows, (page - 1) * size + 1,
               IF page * size < Len(rows) THEN page * size ELSE Len(rows))]

WriteDeck ==
    /\ phase = "write" /\ "md" \in DOMAIN files
    /\ files' = With(files, "pptx",
                     [figures  |-> figures, table |-> channels, narrative |-> narrative,
                      appendix |-> Paginate(SubSeq(Registered, 1, Cardinality(DOMAIN figures)), 5)])
    /\ phase' = "done"
    /\ UNCHANGED <<history, at, figures, channels, narrative>>

Next == \/ Refresh
        \/ ReadFigure \/ ReadChannels \/ ReadDaily \/ Narrate
        \/ Verify \/ Verified
        \/ WriteMarkdown \/ WriteDeck

Spec == Init /\ [][Next]_vars
-----------------------------------------------------------------------------
\* Spend or revenue after a week without any.
FromZero(db) == \/ db.prior.spend = Whole(0)   /\ Sum(db, "spend") # 0
                \/ db.prior.revenue = Whole(0) /\ Sum(db, "revenue") # 0

\* The figures that have a query are those of one warehouse.
FiguresOf(db) ==
    \A id \in DOMAIN figures :
        figures[id].derived_from = <<>> => Close(QueryOf(db, id), figures[id].value)

\* A report that was written describes one warehouse there really was, wherever a
\* rebuild fell among its queries and their verification: its figures are not a
\* mixture of two.  (Two rebuilds can break this.)
FiguresOfOneWarehouse ==
    (files # <<>> /\ Len(history) <= 2) => \E i \in DOMAIN history : FiguresOf(history[i])

\* The table shows a warehouse's channels, the ones with the most spend.
TableOf(week) ==
    /\ DOMAIN channels \in TopSpenders(week)
    /\ channels = [c \in DOMAIN channels |-> week[c]]

Total(f) == Whole(SumOver(channels, f))

\* The channel table, which verify does not look at, is of the very warehouse whose
\* figures were verified, as long as there was one rebuild at most: it adds up to
\* the verified totals if that warehouse has no more channels than the limit, and
\* if it has more, no channel that the table leaves out has more spend than one it
\* shows.
TableAddsUp ==
    (files # <<>> /\ Len(history) <= 2) =>
        \E i \in DOMAIN history :
            /\ FiguresOf(history[i]) /\ TableOf(history[i].week)
            /\ Cardinality(DOMAIN history[i].week) <= MaxRows =>
                  /\ Close(Total("spend"), figures["F1"].value)
                  /\ Close(Total("revenue"), figures["F2"].value)

\* Over a warehouse that stays as it is, verification fails exactly the reports of a
\* change from zero, which the builder and the recomputation define differently: a
\* client's first week with spend never gets its report, and no other run fails it.
OnlyChangesFromZeroFail ==
    Len(history) = 1 =>
        /\ phase = "unreproducible" => FromZero(Warehouse)
        /\ files # <<>> => ~FromZero(Warehouse)
=============================================================================
