------------------------------- MODULE SqlTools -------------------------------
(***************************************************************************)
(* query_metrics and run_sql: compile or guard, execute, render.  A result *)
(* set is a sequence of rows of cells; a cell is what it says: a label or  *)
(* a number, of which column or expression, under which filters, of which  *)
(* group.  Two queries give the same cell when they ask the same thing.    *)
(***************************************************************************)
EXTENDS SqlGuard

CONSTANTS
  Groups,       \* dimension -> how many values it has in the warehouse
  Unstable,     \* the expressions that are infinite over the whole table
  MaxRendered   \* MAX_RENDERED_ROWS

ASSUME RenderedAssumption == MaxRendered \in Nat \ {0}

Cell(kind, of, s, g) == <<kind, of, s.where, g>>

Failed(code) == [ok |-> FALSE, code |-> code, rows |-> <<>>, notes |-> <<>>]
Returned(rows, notes) == [ok |-> TRUE, code |-> "none", rows |-> rows, notes |-> notes]

\* Groups left by the filters, and then by HAVING (which leaves some out).
GroupCount(s) ==
    LET free == {d \in Range(s.by) : ~ \E f \in s.where : d \in f.fixes}
        all  == FoldSet(LAMBDA d, n : n * Groups[d], 1, free)
    IN  IF s.having # {} /\ all > 1 THEN all - 1 ELSE all

Row(s, g) ==
    [i \in DOMAIN s.by |-> Cell("label", s.by[i], s, g)]
      \o [i \in DOMAIN s.values |->
            Cell(IF s.by = <<>> /\ s.values[i] \in Unstable THEN "infinite" ELSE "number",
                 s.values[i], s, g)]

\* Warehouse.execute, on the read-only connection.  An order turns the groups
\* round, so that a limited query without one keeps other rows.
Execute(s) ==
    LET n    == GroupCount(s)
        kept == IF s.limit = NoLimit \/ s.limit > n THEN n ELSE s.limit
    IN  [i \in 1..kept |-> Row(s, IF s.order = NoOrder THEN i ELSE n + 1 - i)]

QueryMetrics(r) ==
    IF Compiles(r) THEN Returned(Execute(BuildQuery(r)), AmbiguityNotes(r))
                   ELSE Failed("SEMANTIC_ERROR")

RunSql(s, policy, present) ==
    LET verdict == Verdict(s, policy, present)
    IN  IF verdict = "ok" THEN Returned(Execute(EnforceLimit(s)), <<>>) ELSE Failed(verdict)
-----------------------------------------------------------------------------
IsNumber(cell) == cell[1] = "number"

\* numeric_facts: the numbers of the rows; infinities license nothing.  (The row count,
\* which it licenses too, is never the number a policy states.)
Facts(rows) == {c \in UNION {Range(row) : row \in Range(rows)} : IsNumber(c)}

NoFigure == <<"none">>

\* render_table's note of how many rows are shown is a number of no cell.
RowNote == <<"row note">>

\* What a reader finds who takes the last number of the text: the notes come
\* last, before them the note on the rows, then the last row.
LastNumber(result) ==
    LET figures == SelectSeq(result.notes, LAMBDA note : note # "words")
    IN  CASE figures # <<>>                   -> <<"note", Last(figures)>>
          [] Len(result.rows) > MaxRendered   -> RowNote
          [] OTHER -> LET cells == SelectSeq(IF result.rows = <<>> THEN <<>> ELSE Last(result.rows),
                                             IsNumber)
                      IN  IF cells = <<>> THEN NoFigure ELSE Last(cells)
==============================================================================
