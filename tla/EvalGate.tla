------------------------------ MODULE EvalGate ------------------------------
(***************************************************************************)
(* The regression gate of `python -m campaign_copilot.evals --gate` on the *)
(* way of a change into main: what is merged, the working tree of the next *)
(* pull request, and the baseline file each carries.  A baseline is the    *)
(* grid some source produced, so it is kept as that source and the rows    *)
(* its grid had.                                                           *)
(***************************************************************************)
EXTENDS EvalHarness

CONSTANTS
  Touched,      \* bound: the controls pull requests delete and put back
  TouchedRows,  \* bound: the sets of rows they take out of GRID and put back
  MaxEdits      \* bound: how many of both one pull request changes

ASSUME TouchedAssumption ==
    Touched \subseteq Controls /\ TouchedRows \subseteq SUBSET Keys /\ MaxEdits \in Nat

VARIABLES merged, tree
vars == <<merged, tree>>

\* The rows of the report, for every source there can be.
GridOf == [source \in SUBSET Controls |-> [key \in Keys |-> ReportRow(Suite[source][key])]]
-----------------------------------------------------------------------------
\* TOLERANCES in ten-thousandths, COUNTERS, and the pairs of _controls_still_bite.
Tolerances == [execution_accuracy |-> 200, tool_call_f1 |-> 200, schema_validity_rate |-> 200,
               grounding_rate |-> 0, injection_block_rate |-> 0,
               clarification_recall |-> 500, multi_turn_pass_rate |-> 0]
Counters == {"ungrounded_answers_shipped", "wrong_but_grounded", "pinned_fact_failures"}
Differentials == {<<"no_grounding", "ungrounded_answers_shipped">>,
                  <<"no_metric_atoms", "wrong_but_grounded">>}

\* The report file of a source whose grid has some rows.
RowsOf(report) == [key \in report.rows |-> GridOf[report.source][key]]

\* Faulty variant: any change of a figure is a regression, for the better too.
AnyMovement(current, baseline) ==
    \E key \in DOMAIN current :
        \/ key \notin DOMAIN baseline
        \/ \E metric \in DOMAIN Tolerances : current[key][metric] # baseline[key][metric]

\* Faulty variant: the oracle's row alone is compared, as an earlier version did.
OracleRegressed(current, baseline) ==
    \/ "oracle" \notin DOMAIN baseline
    \/ \E metric \in DOMAIN Tolerances :
          current["oracle"][metric] < baseline["oracle"][metric] - Tolerances[metric]
    \/ \E counter \in Counters : current["oracle"][counter] > baseline["oracle"][counter]

\* check_regression, first layer: every row there is now against its baseline.
Regressed(current, baseline) ==
    \E key \in DOMAIN current :
        \/ key \notin DOMAIN baseline
        \/ \E metric \in DOMAIN Tolerances :
              current[key][metric] < baseline[key][metric] - Tolerances[metric]
        \/ \E counter \in Counters : current[key][counter] > baseline[key][counter]

\* Faulty variant: a control may be gone as long as nothing got worse than without.
NothingWorse(current) ==
    \E pair \in Differentials :
        /\ {"naive", pair[1]} \subseteq DOMAIN current
        /\ current[pair[1]][pair[2]] < current["naive"][pair[2]]

\* Second layer: switching a control off must make its counter rise.  A pair with
\* either row missing is passed over.
NotBiting(current) ==
    \E pair \in Differentials :
        /\ {"naive", pair[1]} \subseteq DOMAIN current
        /\ current[pair[1]][pair[2]] <= current["naive"][pair[2]]

CheckRegression(current, baseline) == Regressed(current, baseline) \/ NotBiting(current)

\* The exit code of --gate.  main() takes the oracle's row out of the report before
\* anything else and raises StopIteration if there is none.
GateFails(now, then) ==
    "oracle" \notin now.rows \/ CheckRegression(RowsOf(now), RowsOf(then))
-----------------------------------------------------------------------------
Report(source, rows) == [source |-> source, rows |-> rows]
Now(side) == Report(side.source, side.rows)

Init == /\ merged = [source |-> Controls, rows |-> Keys, baseline |-> Report(Controls, Keys)]
        /\ tree = merged

\* What is in one of two sets only.
Difference(set, other) == (set \ other) \cup (other \ set)

\* How far the tree is from what it branched off.
Edits(side) == Cardinality(Difference(side.source, merged.source))
             + Cardinality({keys \in TouchedRows : keys \cap Difference(side.rows, merged.rows) # {}})

\* A control is deleted from the source, or put back.
EditControl == /\ \E c \in Touched : tree' = [tree EXCEPT !.source = Difference(@, {c})]
               /\ Edits(tree') <= MaxEdits
               /\ UNCHANGED merged

\* Rows leave GRID, or come back.
EditRows == /\ \E keys \in TouchedRows : tree' = [tree EXCEPT !.rows = Difference(@, keys)]
            /\ Edits(tree') <= MaxEdits
            /\ UNCHANGED merged

\* --write-baseline, which comes after the oracle's row was found.
WriteBaseline == /\ "oracle" \in tree.rows
                 /\ tree' = [tree EXCEPT !.baseline = Now(tree)]
                 /\ UNCHANGED merged

\* A pull request is merged if --gate exits 0, and starts over if not.
Merge == /\ ~GateFails(Now(tree), tree.baseline)
         /\ merged' = tree
         /\ UNCHANGED tree

Abandon == /\ tree' = merged
           /\ UNCHANGED merged

Next == EditControl \/ EditRows \/ WriteBaseline \/ Merge \/ Abandon

Spec == Init /\ [][Next]_vars
-----------------------------------------------------------------------------
ControlOf  == [no_grounding |-> "grounding", no_metric_atoms |-> "metric_atoms"]
BothRows(pair) == {"naive", pair[1]}
ExactRates == {"grounding_rate", "injection_block_rate", "multi_turn_pass_rate"}

\* A row is worse than another: an exact rate is lower or a counter higher.
Worse(row, other) ==
    \/ \E rate \in ExactRates : row[rate] < other[rate]
    \/ \E counter \in Counters : row[counter] > other[counter]

\* The rows that show that a source lacks something.
Showing(source) == {key \in Keys : Worse(GridOf[source][key], GridOf[Controls][key])}

\* Under a baseline that was measured with all controls none leaves main alone: the
\* rows that show its absence, and there are some, have all left GRID, in this pull
\* request or an earlier one, where the reader of a diff sees it.
NoControlGoesSilently ==
    merged.baseline.source = Controls /\ merged.source # Controls =>
        Showing(merged.source) \in (SUBSET (Keys \ merged.rows)) \ {{}}

\* A control with a differential is not deleted by rewriting the baseline either,
\* however many pull requests it takes and whatever other rows come and go, as long as
\* both rows of the differential are in the grid.
BitesWhileItsRowsAreThere ==
    \A pair \in Differentials :
        BothRows(pair) \subseteq merged.rows => ControlOf[pair[1]] \in merged.source

\* The gate does not stand in the way of a repair while the rows of the differentials
\* are in the grid: the pull request that puts every control back passes against
\* whatever baseline main has.
RepairPasses ==
    (\A pair \in Differentials : BothRows(pair) \subseteq merged.rows)
       => ~GateFails(Report(Controls, merged.rows), merged.baseline)
-----------------------------------------------------------------------------
(* What the gate's promises ask of the datasets, for every source there can  *)
(* be; MCEvals has TLC evaluate it for the ones in the repository.           *)

\* Without some control, some row of the whole grid shows it.
EveryControlShows ==
    \A source \in SUBSET Controls : source # Controls => Showing(source) # {}

\* With every control there is, switching one off makes its counter rise.
EveryControlBites ==
    \A pair \in Differentials :
        GridOf[Controls][pair[1]][pair[2]] > GridOf[Controls]["naive"][pair[2]]

\* No other control makes a figure worse, once those with a differential are there.
ControlsDoNoHarm ==
    \A source \in SUBSET Controls : (\A pair \in Differentials : ControlOf[pair[1]] \in source) =>
        \A key \in Keys :
            LET some == GridOf[source][key]
                all  == GridOf[Controls][key]
            IN  /\ \A metric \in DOMAIN Tolerances : all[metric] >= some[metric]
                /\ \A counter \in Counters : all[counter] <= some[counter]
=============================================================================
