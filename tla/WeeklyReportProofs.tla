------------------------- MODULE WeeklyReportProofs -------------------------
(***************************************************************************)
(* Theorems about WeeklyReport, for every set of warehouses and however    *)
(* often one is rebuilt: what verification lets through, and what a report *)
(* that was written is a report of.                                        *)
(***************************************************************************)
EXTENDS WeeklyReport, FiniteSetTheorems, TLAPS

\* The first k figures in the order in which they are registered.
Ids(k) == {Registered[i] : i \in 1..k}

\* All figures and the channel table are there.
Full == (phase = "build" /\ at > 6) \/ phase \in {"verify", "write", "done"}

\* The figures that verification has been through.
Checked == IF phase = "verify" THEN Ids(at)
           ELSE IF phase \in {"write", "done"} THEN DOMAIN figures ELSE {}

HasQuery(id) == figures[id].derived_from = <<>>

\* These figures, as far as they have a query, are those of a warehouse.
Match(db, ids) == \A id \in ids : HasQuery(id) => Close(QueryOf(db, id), figures[id].value)

FollowsFrom(id, now, then) ==
    /\ figures[id].derived_from = <<now, then>>
    /\ figures[id].value = Pct(figures[now].value, figures[then].value)

\* Which figures there are, and how each came about.
Shape ==
    /\ phase \in {"build", "verify", "write", "done",
                  "undefined", "ungrounded", "unreproducible"}
    /\ at \in Nat
    /\ history \in Seq(Warehouses) /\ Len(history) > 0
    /\ phase = "build" /\ at <= 6 =>
          DOMAIN figures = Ids(at) /\ \A id \in DOMAIN figures : HasQuery(id)
    /\ Full => /\ DOMAIN figures \in {Ids(8), Ids(9)}
               /\ \A id \in DOMAIN figures \ {"F7", "F8"} : HasQuery(id)
               /\ FollowsFrom("F7", "F1", "F5") /\ FollowsFrom("F8", "F2", "F6")
    /\ files # <<>> => phase \in {"write", "done"}

\* As long as the warehouse stays as it is, every figure with a query is what the
\* query says, the table is of the warehouse, and only a change from zero fails.
Quiet ==
    Len(history) = 1 =>
        /\ \A id \in DOMAIN figures : HasQuery(id) =>
              figures[id].value = QueryOf(history[1], id) /\ figures[id].value # None
        /\ Full => TableOf(history[1].week)
        /\ phase = "unreproducible" => FromZero(history[1])

\* After one rebuild the report is of the warehouse before it, when the table had
\* been read, or as far as it has been verified of the one after it.
OneRebuild ==
    Len(history) = 2 /\ Full =>
        \/ TableOf(history[1].week) /\ Match(history[1], DOMAIN figures)
        \/ TableOf(history[2].week) /\ Match(history[2], Checked)

\* The formulas of the derived figures that verification has been through.
FormulasHold ==
    \A id \in Checked : ~HasQuery(id) =>
        Close(Recompute(figures[figures[id].derived_from[1]].value,
                        figures[figures[id].derived_from[2]].value), figures[id].value)

ReportInv == Shape /\ Quiet /\ OneRebuild /\ FormulasHold
-----------------------------------------------------------------------------
LEMMA IdsAre ==
    /\ Ids(0) = {}
    /\ Ids(6) = {"F1", "F2", "F3", "F4", "F5", "F6"}
    /\ Ids(8) = {"F1", "F2", "F3", "F4", "F5", "F6", "F7", "F8"}
    /\ Ids(9) = {"F1", "F2", "F3", "F4", "F5", "F6", "F7", "F8", "F9"}
    /\ \A k \in 0..8 : Ids(k + 1) = Ids(k) \cup {Registered[k + 1]} /\ Registered[k + 1] \notin Ids(k)
    /\ \A k \in 0..5 : Queries[k + 1] = Registered[k + 1]
<1>1. \A k \in 0..8 : Ids(k + 1) = Ids(k) \cup {Registered[k + 1]}
  <2>1. \A k \in 0..8 : 1..(k + 1) = (1..k) \cup {k + 1}
    OBVIOUS
  <2>2. QED
    BY <2>1 DEF Ids
<1>2. \A i, j \in 1..9 : Registered[i] = Registered[j] => i = j
  BY DEF Registered
<1>3. \A k \in 0..8 : Registered[k + 1] \notin Ids(k)
  BY <1>2 DEF Ids
<1>4. Ids(0) = {}
  BY DEF Ids
<1>5. Ids(6) = {"F1", "F2", "F3", "F4", "F5", "F6"}
  BY DEF Ids, Registered
<1>6. Ids(8) = {"F1", "F2", "F3", "F4", "F5", "F6", "F7", "F8"}
  BY DEF Ids, Registered
<1>7. Ids(9) = {"F1", "F2", "F3", "F4", "F5", "F6", "F7", "F8", "F9"}
  BY DEF Ids, Registered
<1>8. \A k \in 0..5 : Queries[k + 1] = Registered[k + 1]
  BY DEF Queries, Registered
<1>9. QED
  BY <1>1, <1>3, <1>4, <1>5, <1>6, <1>7, <1>8

LEMMA IdsCount == Cardinality(Ids(8)) = 8 /\ Cardinality(Ids(9)) = 9
<1>1. ASSUME NEW n \in {8, 9} PROVE Cardinality(Ids(n)) = n
  <2> DEFINE f == [i \in 1..n |-> Registered[i]]
  <2>1. f \in [1..n -> Ids(n)]
    BY DEF Ids
  <2>2. \A i, j \in 1..n : f[i] = f[j] => i = j
    BY DEF Registered
  <2>3. \A id \in Ids(n) : \E i \in 1..n : f[i] = id
    BY DEF Ids
  <2> HIDE DEF f
  <2>4. f \in Bijection(1..n, Ids(n))
    BY <2>1, <2>2, <2>3 DEF Bijection, Injection, Surjection, IsInjective
  <2>5. ExistsBijection(1..n, Ids(n)) /\ n \in Nat
    BY <2>4 DEF ExistsBijection
  <2>6. QED
    BY <2>5, FS_CountingElements
<1>2. QED
  BY <1>1

LEMMA FigureAdded ==
    ASSUME NEW f, NEW id, NEW figure
    PROVE  /\ DOMAIN With(f, id, figure) = DOMAIN f \cup {id}
           /\ With(f, id, figure)[id] = figure
           /\ \A other \in DOMAIN f \ {id} : With(f, id, figure)[other] = f[other]
BY DEF With

LEMMA FigureIs ==
    ASSUME NEW value, NEW derived_from
    PROVE  /\ Figure(value, derived_from).value = value
           /\ Figure(value, derived_from).derived_from = derived_from
           /\ Figure(value, derived_from).best = "none"
BY DEF Figure

\* A value agrees with itself unless it is NULL.
LEMMA CloseToItself == \A a : a # None => Close(a, a)
BY DEF Close

\* The builder's change and the recomputed change disagree exactly when there is
\* something after nothing.
LEMMA ChangesDisagree ==
    ASSUME NEW n, NEW previous \in Int \X {1}
    PROVE  Close(Recompute(Whole(n), previous), Pct(Whole(n), previous))
               <=> ~(previous = Whole(0) /\ n # 0)
<1>1. Whole(n)[1] = n /\ Whole(0)[1] = 0 /\ Whole(0) # None
  BY DEF Whole, None
<1>2. PICK m \in Int : previous = <<m, 1>>
  OBVIOUS
<1>3. CASE m = 0
  <2>1. previous = Whole(0) /\ Pct(Whole(n), previous) = Whole(0)
    BY <1>2, <1>3 DEF Whole, Pct
  <2>2. CASE n = 0
    BY <1>1, <1>2, <1>3, <2>1, <2>2, CloseToItself DEF Recompute
  <2>3. CASE n # 0
    <3>1. Recompute(Whole(n), previous) = Infinite
      BY <1>1, <1>2, <1>3, <2>3 DEF Recompute
    <3>2. ~Close(Infinite, Whole(0))
      BY DEF Close, Infinite, Whole
    <3>3. QED
      BY <2>1, <2>3, <3>1, <3>2
  <2>4. QED
    BY <2>2, <2>3
<1>4. CASE m # 0
  <2>1. previous # Whole(0) /\ previous[1] = m
    BY <1>2, <1>4 DEF Whole
  <2>2. /\ Recompute(Whole(n), previous) = Pct(Whole(n), previous)
        /\ Pct(Whole(n), previous) # None
    BY <1>4, <2>1 DEF Recompute, Pct, Fraction, None
  <2>3. QED
    BY <2>1, <2>2, CloseToItself
<1>5. QED
  BY <1>3, <1>4

\* A table of a warehouse with no more channels than the limit is all of its week.
LEMMA UncutTable ==
    ASSUME NEW db \in Warehouses, TableOf(db.week), Cardinality(DOMAIN db.week) <= MaxRows
    PROVE  channels = db.week
<1> DEFINE kept == DOMAIN channels
           all  == DOMAIN db.week
<1>1. /\ kept \subseteq all
      /\ kept # all => Cardinality(kept) = MaxRows
      /\ channels = [c \in kept |-> db.week[c]]
  BY DEF TableOf, TopSpenders
<1>2. IsFiniteSet(all) /\ db.week = [c \in all |-> db.week[c]]
  BY WeekAssumption
<1> HIDE DEF kept, all
<1>3. Cardinality(all) \in Nat /\ Cardinality(kept) \in Nat /\ (kept # all => Cardinality(kept) < Cardinality(all))
  BY <1>1, <1>2, FS_Subset, FS_CardinalityType
<1>4. kept = all
  <2>1. MaxRows \in Nat /\ Cardinality(all) <= MaxRows
    BY RowsAssumption DEF all
  <2>2. QED
    BY <1>1, <1>3, <2>1
<1>5. QED
  BY <1>1, <1>2, <1>4

-----------------------------------------------------------------------------
LEMMA InitReport == Init => ReportInv
<1> SUFFICES ASSUME Init PROVE ReportInv
  OBVIOUS
<1>1. /\ phase = "build" /\ at = 0 /\ figures = <<>> /\ files = <<>>
      /\ history \in Seq(Warehouses) /\ Len(history) = 1
  <2>1. PICK db \in Warehouses : history = <<db>>
    BY DEF Init
  <2>2. QED
    BY <2>1 DEF Init
<1>2. DOMAIN figures = {}
  BY <1>1
<1>3. QED
  BY <1>1, <1>2, IdsAre DEF ReportInv, Shape, Quiet, OneRebuild, FormulasHold, Full, Checked

LEMMA RefreshKeeps == ASSUME ReportInv, Refresh PROVE ReportInv'
<1>1. PICK db \in Warehouses : history' = Append(history, db)
  BY DEF Refresh
<1>2. /\ phase' = phase /\ at' = at /\ figures' = figures /\ channels' = channels
      /\ files' = files
  BY DEF Refresh
<1>3. /\ history' \in Seq(Warehouses) /\ Len(history') = Len(history) + 1 /\ Len(history) \in Nat \ {0}
      /\ history'[1] = history[1]
  BY <1>1 DEF ReportInv, Shape
<1>4. (Full' <=> Full) /\ Checked' = Checked /\ (\A id : HasQuery(id)' <=> HasQuery(id))
  BY <1>2 DEF Full, Checked, HasQuery
<1>5. Shape'
  BY <1>2, <1>3, <1>4 DEF ReportInv, Shape, FollowsFrom
<1>6. FormulasHold'
  BY <1>2, <1>4 DEF ReportInv, FormulasHold
<1>7. Quiet'
  <2>1. Len(history') # 1
    BY <1>3
  <2>2. QED
    BY <2>1 DEF Quiet
<1>8. OneRebuild'
  <2> SUFFICES ASSUME Len(history) = 1, Full
               PROVE  TableOf(history[1].week)' /\ Match(history[1], DOMAIN figures)'
    <3>1. Len(history') = 2 => Len(history) = 1
      <4> DEFINE before == Len(history)
                 after  == Len(history')
      <4>1. after = before + 1 /\ before \in Nat
        BY <1>3
      <4> HIDE DEF before, after
      <4>2. after = 2 => before = 1
        BY <4>1
      <4>3. QED
        BY <4>2 DEF before, after
    <3>2. QED
      BY <1>2, <1>3, <1>4, <3>1 DEF OneRebuild, Match, HasQuery, QueryOf, TableOf
  <2>1. \A id \in DOMAIN figures : HasQuery(id) => Close(QueryOf(history[1], id), figures[id].value)
    BY CloseToItself DEF ReportInv, Quiet
  <2>2. QED
    BY <1>2, <1>3, <1>4, <2>1 DEF ReportInv, Quiet, Match, QueryOf, TableOf
<1>9. QED
  BY <1>5, <1>6, <1>7, <1>8 DEF ReportInv

LEMMA ReadFigureKeeps == ASSUME ReportInv, ReadFigure PROVE ReportInv'
<1> DEFINE id    == Queries[at + 1]
           value == Query(Warehouse, id, "none")
<1>1. /\ phase = "build" /\ at \in 0..5 /\ history' = history /\ channels' = channels
      /\ files' = files
  BY DEF ReadFigure, ReportInv, Shape, Queries
<1>2. /\ ~Full /\ Checked = {} /\ DOMAIN figures = Ids(at)
      /\ \A other \in DOMAIN figures : HasQuery(other)
  BY <1>1 DEF Full, Checked, ReportInv, Shape
<1>3. CASE phase' = "undefined" /\ at' = at /\ figures' = figures
  BY <1>1, <1>2, <1>3 DEF ReportInv, Shape, Quiet, OneRebuild, FormulasHold, Full, Checked,
                          HasQuery, QueryOf
<1>4. CASE /\ value # None /\ phase' = phase /\ at' = at + 1
           /\ figures' = With(figures, id, Figure(value, <<>>))
  <2>1. id = Registered[at + 1] /\ Ids(at + 1) = Ids(at) \cup {id} /\ id \notin DOMAIN figures
    BY <1>1, <1>2, IdsAre
  <2> HIDE DEF id
  <2>2. /\ DOMAIN figures' = DOMAIN figures \cup {id}
        /\ figures'[id] = Figure(value, <<>>)
        /\ \A other \in DOMAIN figures : figures'[other] = figures[other]
    <3> HIDE DEF value
    <3>1. QED
      BY <1>4, <2>1 DEF With
  <2>3. ~Full' /\ Checked' = {}
    BY <1>1, <1>4 DEF Full, Checked
  <2>4. \A other \in DOMAIN figures' : HasQuery(other)'
    BY <1>2, <2>2, FigureIs DEF HasQuery
  <2>5. Shape'
    <3>1. DOMAIN figures' = Ids(at')
      BY <1>2, <1>4, <2>1, <2>2
    <3>2. at' \in Nat /\ phase' = "build"
      BY <1>1, <1>4
    <3> HIDE DEF value
    <3>3. QED
      BY <1>1, <2>3, <2>4, <3>1, <3>2 DEF ReportInv, Shape
  <2>6. Quiet'
    <3> SUFFICES ASSUME Len(history) = 1, NEW other \in DOMAIN figures'
                 PROVE  /\ figures'[other].value = QueryOf(history[1], other)'
                        /\ figures'[other].value # None
      BY <1>1, <1>4, <2>3 DEF Quiet
    <3>1. Warehouse = history[1]
      BY DEF Warehouse, Last
    <3>2. CASE other = id
      BY <1>1, <1>4, <2>2, <3>1, <3>2, FigureIs DEF QueryOf
    <3>3. CASE other \in DOMAIN figures
      BY <1>1, <1>2, <2>2, <3>3 DEF QueryOf, ReportInv, Quiet
    <3>4. QED
      BY <2>2, <3>2, <3>3
  <2>7. QED
    BY <2>3, <2>5, <2>6 DEF ReportInv, OneRebuild, FormulasHold
<1>5. QED
  BY <1>3, <1>4 DEF ReadFigure

\* The derived figures and F9 join the six headline figures.
LEMMA ReadChannelsKeeps == ASSUME ReportInv, ReadChannels PROVE ReportInv'
<1> DEFINE week == Warehouse.week
           changed == WithChanges(figures)
<1>0. PICK kept \in TopSpenders(week) : WithTable(kept)
  BY DEF ReadChannels
<1>1. PICK c \in kept \cup {"none"} :
          /\ BestIn(c)'
          /\ figures' = IF c = "none" THEN changed ELSE WithBest(changed, week[c], c)
  BY <1>0 DEF WithTable
<1>2. /\ phase = "build" /\ phase' = "build" /\ at = 6 /\ at' = 7
      /\ channels' = [k \in kept |-> week[k]]
      /\ history' = history /\ files' = files
  BY <1>0 DEF ReadChannels, WithTable, Queries
<1>2a. TableOf(week)' /\ kept \subseteq DOMAIN week
  <2>0. week' = week
    BY <1>2 DEF Warehouse
  <2> HIDE DEF week
  <2>1. DOMAIN channels' = kept /\ \A k \in kept : channels'[k] = week[k]
    BY <1>2
  <2>2. QED
    BY <1>0, <1>2, <2>0, <2>1 DEF TableOf, TopSpenders
<1>3. DOMAIN figures = Ids(6) /\ \A id \in DOMAIN figures : HasQuery(id)
  BY <1>2 DEF ReportInv, Shape
<1>4. /\ DOMAIN changed = Ids(8)
      /\ \A id \in Ids(6) : changed[id] = figures[id]
      /\ changed["F7"] = Figure(Pct(figures["F1"].value, figures["F5"].value), <<"F1", "F5">>)
      /\ changed["F8"] = Figure(Pct(figures["F2"].value, figures["F6"].value), <<"F2", "F6">>)
  <2> DEFINE f7 == Figure(Pct(figures["F1"].value, figures["F5"].value), <<"F1", "F5">>)
             f8 == Figure(Pct(figures["F2"].value, figures["F6"].value), <<"F2", "F6">>)
  <2>1. changed = With(With(figures, "F7", f7), "F8", f8)
    BY DEF WithChanges
  <2> HIDE DEF changed, f7, f8
  <2>2. DOMAIN changed = DOMAIN figures \cup {"F7"} \cup {"F8"}
    BY <2>1 DEF With
  <2>3. /\ changed["F8"] = f8 /\ changed["F7"] = f7
        /\ \A id \in DOMAIN figures : id \notin {"F7", "F8"} => changed[id] = figures[id]
    BY <2>1 DEF With
  <2>4. QED
    BY <1>3, <2>2, <2>3, IdsAre DEF f7, f8
<1> HIDE DEF changed, week
<1>5. /\ DOMAIN figures' = IF c = "none" THEN Ids(8) ELSE Ids(9)
      /\ \A id \in Ids(8) : figures'[id] = changed[id]
      /\ c # "none" => /\ figures'["F9"].value = Roas(week[c])
                       /\ figures'["F9"].derived_from = <<>>
                       /\ figures'["F9"].best = c
  <2>1. CASE c = "none"
    BY <1>1, <1>4, <2>1
  <2>2. CASE c # "none"
    <3> DEFINE f9 == [Figure(Roas(week[c]), <<>>) EXCEPT !.best = c]
    <3>1. figures' = With(changed, "F9", f9)
      BY <1>1, <2>2 DEF WithBest
    <3>2. f9.value = Roas(week[c]) /\ f9.derived_from = <<>> /\ f9.best = c
      BY DEF Figure
    <3> HIDE DEF f9
    <3>3. DOMAIN figures' = Ids(8) \cup {"F9"} /\ figures'["F9"] = f9
      BY <1>4, <3>1 DEF With
    <3>4. \A id \in Ids(8) : figures'[id] = changed[id]
      BY <1>4, <3>1, IdsAre DEF With
    <3>5. QED
      BY <2>2, <3>2, <3>3, <3>4, IdsAre
  <2>3. QED
    BY <2>1, <2>2
<1>6. Full' /\ Checked' = {}
  BY <1>2 DEF Full, Checked
<1>7. \A id \in Ids(6) : figures'[id] = figures[id] /\ id \in Ids(8) /\ id \notin {"F7", "F8"}
  BY <1>4, <1>5, IdsAre
<1>8. \A id \in DOMAIN figures' : id \in Ids(6) \/ id \in {"F7", "F8"} \/ (id = "F9" /\ c # "none")
  BY <1>5, IdsAre
<1>9. Shape'
  <2>1. /\ figures'["F7"] = Figure(Pct(figures'["F1"].value, figures'["F5"].value), <<"F1", "F5">>)
        /\ figures'["F8"] = Figure(Pct(figures'["F2"].value, figures'["F6"].value), <<"F2", "F6">>)
    BY <1>4, <1>5, <1>7, IdsAre
  <2>2. FollowsFrom("F7", "F1", "F5")' /\ FollowsFrom("F8", "F2", "F6")'
    BY <2>1, FigureIs DEF FollowsFrom
  <2>3. \A id \in DOMAIN figures' \ {"F7", "F8"} : HasQuery(id)'
    BY <1>3, <1>5, <1>7, <1>8 DEF HasQuery
  <2>4. QED
    BY <1>2, <1>5, <1>6, <2>2, <2>3 DEF ReportInv, Shape
<1>10. Quiet'
  <2> SUFFICES ASSUME Len(history) = 1
               PROVE  /\ \A id \in DOMAIN figures' : HasQuery(id)' =>
                            /\ figures'[id].value = QueryOf(history[1], id)'
                            /\ figures'[id].value # None
                      /\ TableOf(history[1].week)'
    BY <1>2, <1>6 DEF Quiet, TableOf
  <2>1. Warehouse = history[1] /\ week = history[1].week
    BY DEF Warehouse, Last, week
  <2>2. ASSUME NEW id \in Ids(6)
        PROVE  figures'[id].value = QueryOf(history[1], id)' /\ figures'[id].value # None
    BY <1>2, <1>3, <1>7, <2>2 DEF QueryOf, ReportInv, Quiet
  <2>3. ~HasQuery("F7")' /\ ~HasQuery("F8")'
    <3>1. FollowsFrom("F7", "F1", "F5")' /\ FollowsFrom("F8", "F2", "F6")'
      BY <1>6, <1>9 DEF Shape
    <3>2. QED
      BY <3>1 DEF FollowsFrom, HasQuery
  <2>4. ASSUME c # "none"
        PROVE  figures'["F9"].value = QueryOf(history[1], "F9")' /\ figures'["F9"].value # None
    <3>1. c \in kept /\ c \in DOMAIN week
      BY <1>1, <1>2a, <2>4
    <3>2. QueryOf(history[1], "F9")' = Roas(week[c])
      BY <1>2, <1>5, <2>1, <2>4, <3>1 DEF QueryOf, Query
    <3>3. Roas(week[c]) # None
      <4>1. c \in Best'
        BY <1>1, <2>4 DEF BestIn
      <4>2. Roas(channels'[c]) # None
        BY <4>1 DEF Best
      <4>3. QED
        BY <1>2, <3>1, <4>2
    <3>4. QED
      BY <1>5, <2>4, <3>2, <3>3
  <2>5. TableOf(history[1].week)'
    BY <1>2, <1>2a, <2>1 DEF week, Warehouse
  <2>6. QED
    BY <1>8, <2>2, <2>3, <2>4, <2>5
<1>11. OneRebuild'
  <2>1. Len(history) = 2 => Warehouse = history[2]
    BY DEF Warehouse, Last
  <2>2. QED
    BY <1>2, <1>2a, <1>6, <2>1 DEF OneRebuild, Match, TableOf, week
<1>12. QED
  BY <1>6, <1>9, <1>10, <1>11 DEF ReportInv, FormulasHold

\* Steps that change neither the figures nor the table, and check nothing.
LEMMA MovesKeep ==
    ASSUME ReportInv, ReadDaily \/ Narrate \/ Verified \/ WriteMarkdown \/ WriteDeck
    PROVE  ReportInv'
<1>1. /\ history' = history /\ figures' = figures /\ channels' = channels
      /\ Full
      /\ phase' \in {"build", "verify", "write", "done", "ungrounded"}
      /\ at' \in Nat /\ (phase' = "build" => at' > 6)
      /\ files' # <<>> => phase' \in {"write", "done"}
  BY DEF ReadDaily, Narrate, Verified, WriteMarkdown, WriteDeck, Full, ReportInv, Shape, Queries
<1>2. phase' # "ungrounded" => Full'
  BY <1>1 DEF Full
<1>3. Checked' \subseteq Checked
  <2>1. CASE ReadDaily \/ Narrate
    <3>1. Checked' = {}
      BY <2>1, IdsAre DEF ReadDaily, Narrate, Checked
    <3>2. QED
      BY <3>1
  <2>2. CASE Verified
    <3>1. /\ phase = "verify" /\ at = Cardinality(DOMAIN figures)
          /\ phase' = "write" /\ DOMAIN figures \in {Ids(8), Ids(9)}
      BY <2>2, <1>1 DEF Verified, ReportInv, Shape
    <3>2. Ids(at) = DOMAIN figures
      BY <3>1, IdsCount
    <3>3. QED
      BY <1>1, <3>1, <3>2 DEF Checked
  <2>3. CASE WriteMarkdown \/ WriteDeck
    BY <1>1, <2>3 DEF WriteMarkdown, WriteDeck, Checked
  <2>4. QED
    BY <2>1, <2>2, <2>3
<1>4. \A id : (HasQuery(id)' <=> HasQuery(id))
  BY <1>1 DEF HasQuery
<1>5. Shape'
  BY <1>1, <1>4 DEF ReportInv, Shape, FollowsFrom, Full
<1>6. Quiet'
  BY <1>1, <1>4 DEF ReportInv, Quiet, QueryOf, TableOf
<1>7. OneRebuild'
  BY <1>1, <1>3, <1>4 DEF ReportInv, OneRebuild, Match, QueryOf, TableOf
<1>8. FormulasHold'
  BY <1>1, <1>3, <1>4 DEF ReportInv, FormulasHold
<1>9. QED
  BY <1>5, <1>6, <1>7, <1>8 DEF ReportInv

\* Over a warehouse at rest the two derived figures are recomputed as they were
\* built, unless there is something after nothing.
LEMMA QuietChanges ==
    ASSUME ReportInv, Full, Len(history) = 1
    PROVE  LET db == history[1]
               formula(id, now, then) ==
                   Close(Recompute(figures[now].value, figures[then].value), figures[id].value)
           IN  /\ figures["F1"].value = Whole(Sum(db, "spend"))
               /\ figures["F2"].value = Whole(Sum(db, "revenue"))
               /\ formula("F7", "F1", "F5") <=> ~(db.prior.spend = Whole(0) /\ Sum(db, "spend") # 0)
               /\ formula("F8", "F2", "F6") <=> ~(db.prior.revenue = Whole(0) /\ Sum(db, "revenue") # 0)
<1> DEFINE db == history[1]
<1>1. /\ {"F1", "F2", "F5", "F6"} \subseteq DOMAIN figures
      /\ \A id \in {"F1", "F2", "F5", "F6"} : HasQuery(id)
      /\ FollowsFrom("F7", "F1", "F5") /\ FollowsFrom("F8", "F2", "F6")
      /\ db \in Warehouses
  <2>1. DOMAIN figures \in {Ids(8), Ids(9)}
    BY DEF ReportInv, Shape
  <2>2. {"F1", "F2", "F5", "F6"} \subseteq DOMAIN figures \ {"F7", "F8"}
    BY <2>1, IdsAre
  <2>3. /\ \A id \in DOMAIN figures \ {"F7", "F8"} : HasQuery(id)
        /\ FollowsFrom("F7", "F1", "F5") /\ FollowsFrom("F8", "F2", "F6")
    BY DEF ReportInv, Shape
  <2>4. db \in Warehouses
    <3>1. history \in Seq(Warehouses) /\ Len(history) = 1
      BY DEF ReportInv, Shape
    <3>2. QED
      BY <3>1
  <2>5. QED
    BY <2>2, <2>3, <2>4
<1>2. \A id \in {"F1", "F2", "F5", "F6"} :
          figures[id].value = QueryOf(db, id) /\ figures[id].value # None
  BY <1>1 DEF ReportInv, Quiet
<1> HIDE DEF db
<1>3. /\ QueryOf(db, "F1") = SumOf(db, "spend") /\ QueryOf(db, "F2") = SumOf(db, "revenue")
      /\ QueryOf(db, "F5") = db.prior.spend /\ QueryOf(db, "F6") = db.prior.revenue
  BY DEF QueryOf, Query
<1>4. /\ figures["F1"].value = Whole(Sum(db, "spend"))
      /\ figures["F2"].value = Whole(Sum(db, "revenue"))
  BY <1>2, <1>3 DEF SumOf
<1>5. /\ figures["F5"].value = db.prior.spend /\ db.prior.spend \in Int \X {1}
      /\ figures["F6"].value = db.prior.revenue /\ db.prior.revenue \in Int \X {1}
  BY <1>1, <1>2, <1>3, PriorAssumption
<1>6. /\ figures["F7"].value = Pct(figures["F1"].value, figures["F5"].value)
      /\ figures["F8"].value = Pct(figures["F2"].value, figures["F6"].value)
  BY <1>1 DEF FollowsFrom
<1>7. QED
  BY <1>4, <1>5, <1>6, ChangesDisagree DEF db

LEMMA VerifyKeeps == ASSUME ReportInv, Verify PROVE ReportInv'
<1> DEFINE id == Registered[at + 1]
<1>1. /\ phase = "verify" /\ at < Cardinality(DOMAIN figures) /\ Full
      /\ history' = history /\ figures' = figures /\ channels' = channels /\ files' = files
  BY DEF Verify, Full
<1>2. PICK n \in {8, 9} : DOMAIN figures = Ids(n) /\ Cardinality(DOMAIN figures) = n
  BY <1>1, IdsCount DEF ReportInv, Shape
<1>3. at \in 0..8 /\ at + 1 \in 1..n /\ id \in DOMAIN figures /\ Ids(at + 1) = Ids(at) \cup {id}
  <2>1. at \in Nat
    BY DEF ReportInv, Shape
  <2>2. at \in 0..8 /\ at + 1 \in 1..n
    BY <1>1, <1>2, <2>1
  <2>3. QED
    BY <1>2, <2>2, IdsAre DEF Ids
<1> HIDE DEF id
<1>4. (\A other : HasQuery(other)' <=> HasQuery(other)) /\ Checked = Ids(at)
  BY <1>1 DEF HasQuery, Checked
<1>5. CASE Reproduces(id) /\ at' = at + 1 /\ phase' = phase
  <2>1. Full' /\ Checked' = Checked \cup {id}
    BY <1>1, <1>3, <1>4, <1>5 DEF Full, Checked
  <2>2. Shape'
    BY <1>1, <1>3, <1>4, <1>5, <2>1 DEF ReportInv, Shape, FollowsFrom
  <2>3. Quiet'
    BY <1>1, <1>4, <1>5, <2>1 DEF ReportInv, Quiet, QueryOf, TableOf
  <2>4. FormulasHold'
    BY <1>1, <1>4, <1>5, <2>1 DEF ReportInv, FormulasHold, Reproduces, HasQuery
  <2>5. OneRebuild'
    <3> SUFFICES ASSUME Len(history) = 2, TableOf(history[2].week), Match(history[2], Checked)
                 PROVE  Match(history[2], Checked)'
      BY <1>1, <1>4, <2>1 DEF ReportInv, OneRebuild, Match, QueryOf, TableOf
    <3>1. Warehouse = history[2]
      BY DEF Warehouse, Last
    <3>2. HasQuery(id) => Close(QueryOf(history[2], id), figures[id].value)
      BY <1>5, <3>1 DEF Reproduces, HasQuery
    <3>3. QED
      BY <1>1, <1>4, <2>1, <3>2 DEF Match, QueryOf
  <2>6. QED
    BY <2>2, <2>3, <2>4, <2>5 DEF ReportInv
<1>6. CASE ~Reproduces(id) /\ phase' = "unreproducible" /\ at' = at
  <2>1. ~Full' /\ Checked' = {}
    BY <1>6 DEF Full, Checked
  <2>2. Shape'
    BY <1>1, <1>6, <2>1 DEF ReportInv, Shape
  <2>3. ASSUME Len(history) = 1 PROVE FromZero(history[1])
    <3>1. Warehouse = history[1]
      BY <2>3 DEF Warehouse, Last
    <3>2. ~HasQuery(id)
      <4>1. HasQuery(id) => Close(QueryOf(history[1], id), figures[id].value)
        BY <1>3, <2>3, CloseToItself DEF ReportInv, Quiet
      <4>2. QED
        BY <1>6, <3>1, <4>1 DEF Reproduces, HasQuery
    <3>3. id \in {"F7", "F8"} /\ FollowsFrom("F7", "F1", "F5") /\ FollowsFrom("F8", "F2", "F6")
      BY <1>1, <1>3, <3>2 DEF ReportInv, Shape
    <3>4. \/ ~Close(Recompute(figures["F1"].value, figures["F5"].value), figures["F7"].value)
          \/ ~Close(Recompute(figures["F2"].value, figures["F6"].value), figures["F8"].value)
      BY <1>6, <3>2, <3>3 DEF Reproduces, HasQuery, FollowsFrom
    <3>5. QED
      BY <1>1, <2>3, <3>4, QuietChanges DEF FromZero
  <2>4. Quiet'
    BY <1>1, <1>4, <2>1, <2>3 DEF ReportInv, Quiet, QueryOf, TableOf
  <2>5. QED
    BY <2>1, <2>2, <2>4 DEF ReportInv, OneRebuild, FormulasHold
<1>7. QED
  BY <1>5, <1>6 DEF Verify, id

LEMMA ReportStep == ReportInv /\ [Next]_vars => ReportInv'
<1>1. ASSUME ReportInv, UNCHANGED vars PROVE ReportInv'
  BY <1>1 DEF vars, ReportInv, Shape, Quiet, OneRebuild, FormulasHold, Full, Checked, HasQuery,
              Match, FollowsFrom, QueryOf, TableOf
<1>2. QED
  BY <1>1, RefreshKeeps, ReadFigureKeeps, ReadChannelsKeeps, MovesKeep, VerifyKeeps DEF Next

LEMMA ReportCorrect == Spec => []ReportInv
BY InitReport, ReportStep, PTL DEF Spec

LEMMA WrittenIs ==
    ASSUME ReportInv, files # <<>> PROVE Full /\ Checked = DOMAIN figures
BY DEF ReportInv, Shape, Full, Checked

\* A report that was written is of one warehouse, with at most one rebuild wherever it
\* falls, and the table is of that warehouse as well.
LEMMA WrittenOfOne ==
    ASSUME ReportInv, files # <<>>, Len(history) <= 2
    PROVE  \E i \in DOMAIN history :
               TableOf(history[i].week) /\ Match(history[i], DOMAIN figures)
<1>1. Full /\ Checked = DOMAIN figures /\ Len(history) \in Nat /\ Len(history) > 0
      /\ DOMAIN history = 1..Len(history)
  BY WrittenIs DEF ReportInv, Shape
<1>2. CASE Len(history) = 1
  <2>1. TableOf(history[1].week) /\ Match(history[1], DOMAIN figures)
    BY <1>1, <1>2, CloseToItself DEF ReportInv, Quiet, Match
  <2>2. QED
    BY <1>1, <1>2, <2>1
<1>3. CASE Len(history) = 2
  BY <1>1, <1>3 DEF ReportInv, OneRebuild
<1>4. QED
  BY <1>1, <1>2, <1>3

\* Wherever one rebuild falls among the queries and their verification, the figures
\* of a report that was written are those of one warehouse.
THEOREM FiguresAreOfOneWarehouse == Spec => []FiguresOfOneWarehouse
<1>1. ReportInv => FiguresOfOneWarehouse
  BY WrittenOfOne DEF FiguresOfOneWarehouse, FiguresOf, Match, HasQuery
<1>2. QED
  BY <1>1, ReportCorrect, PTL

\* The table, which nothing verifies, is of the warehouse whose figures were verified:
\* it adds up to the verified totals unless the limit cut it, and then what it leaves
\* out has no more spend than what it shows.
THEOREM TablesAddUp == Spec => []TableAddsUp
<1>1. ReportInv => TableAddsUp
  <2> SUFFICES ASSUME ReportInv, files # <<>>, Len(history) <= 2
               PROVE  TableAddsUp
    BY DEF TableAddsUp
  <2>1. PICK i \in DOMAIN history :
            TableOf(history[i].week) /\ Match(history[i], DOMAIN figures)
    BY WrittenOfOne
  <2> DEFINE db == history[i]
  <2>2. db \in Warehouses
    BY <2>1 DEF ReportInv, Shape
  <2>3. /\ {"F1", "F2"} \subseteq DOMAIN figures
        /\ HasQuery("F1") /\ HasQuery("F2")
    BY WrittenIs, IdsAre DEF ReportInv, Shape
  <2>4. /\ Close(SumOf(db, "spend"), figures["F1"].value)
        /\ Close(SumOf(db, "revenue"), figures["F2"].value)
    BY <2>1, <2>3 DEF Match, QueryOf, Query
  <2> HIDE DEF db
  <2>5. ASSUME Cardinality(DOMAIN db.week) <= MaxRows
        PROVE  /\ Close(Total("spend"), figures["F1"].value)
               /\ Close(Total("revenue"), figures["F2"].value)
    <3>1. channels = db.week
      BY <2>1, <2>2, <2>5, UncutTable DEF db
    <3>2. /\ SumOf(db, "spend") = Total("spend")
          /\ SumOf(db, "revenue") = Total("revenue")
      BY <2>4, <3>1 DEF Close, SumOf, Sum, Total
    <3>3. QED
      BY <2>4, <3>2
  <2>6. FiguresOf(db)
    BY <2>1 DEF FiguresOf, Match, HasQuery, db
  <2>7. QED
    BY <2>1, <2>5, <2>6 DEF TableAddsUp, db
<1>2. QED
  BY <1>1, ReportCorrect, PTL

\* Over a warehouse that stays as it is, verification fails exactly the reports of a
\* change from zero.
THEOREM ChangesFromZeroFail == Spec => []OnlyChangesFromZeroFail
<1>1. ReportInv => OnlyChangesFromZeroFail
  <2> SUFFICES ASSUME ReportInv, Len(history) = 1
               PROVE  /\ phase = "unreproducible" => FromZero(Warehouse)
                      /\ files # <<>> => ~FromZero(Warehouse)
    BY DEF OnlyChangesFromZeroFail
  <2>1. Warehouse = history[1]
    BY DEF Warehouse, Last
  <2>2. phase = "unreproducible" => FromZero(history[1])
    BY DEF ReportInv, Quiet
  <2>3. ASSUME files # <<>> PROVE ~FromZero(history[1])
    <3>1. Full /\ {"F7", "F8"} \subseteq Checked
      BY <2>3, WrittenIs, IdsAre DEF ReportInv, Shape
    <3>2. /\ FollowsFrom("F7", "F1", "F5") /\ FollowsFrom("F8", "F2", "F6")
          /\ ~HasQuery("F7") /\ ~HasQuery("F8")
      BY <3>1 DEF ReportInv, Shape, FollowsFrom, HasQuery
    <3>3. /\ Close(Recompute(figures["F1"].value, figures["F5"].value), figures["F7"].value)
          /\ Close(Recompute(figures["F2"].value, figures["F6"].value), figures["F8"].value)
      BY <3>1, <3>2 DEF ReportInv, FormulasHold, FollowsFrom
    <3>4. QED
      BY <3>1, <3>3, QuietChanges DEF FromZero
  <2>4. QED
    BY <2>1, <2>2, <2>3
<1>2. QED
  BY <1>1, ReportCorrect, PTL
=============================================================================
