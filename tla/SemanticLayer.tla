---------------------------- MODULE SemanticLayer ----------------------------
(***************************************************************************)
(* The registry of metrics and dimensions, and what build_query compiles a *)
(* request to.  An expression is its name and the aggregates it is built   *)
(* from; a filter is the names its text mentions and those it fixes to one *)
(* value, a note is whether its text holds a figure.                       *)
(*                                                                         *)
(* A statement is what the guard and the warehouse tell apart of a query:  *)
(* how many statements the text holds, of what kind, the tables (no common *)
(* table expressions) and functions it uses, whether it projects a star or *)
(* a number of its own, its aggregates, and what its result set holds.     *)
(***************************************************************************)
EXTENDS Integers, Sequences, FiniteSets, SequencesExt

CONSTANTS
  Metric,     \* name -> [table, grain, expression, atoms, reads, note]
  Dimension,  \* name -> [table, note]
  Schema      \* table -> the columns the warehouse gives it

Metrics    == DOMAIN Metric
Dimensions == DOMAIN Dimension

NoLimit == -1
NoOrder == "none"

\* The ambiguity note of a metric or a dimension: none, only words, with a number
\* among them, or with one the grounding gate takes for prose.
NoNote == "none"
Notes  == {NoNote, "words", "figure", "small"}

Filter(mentions, fixes) == [mentions |-> mentions, fixes |-> fixes]

Select == [statements |-> 1, kind |-> "select", from |-> {}, functions |-> {},
           star |-> FALSE, literal |-> FALSE, aggregates |-> {},
           by |-> <<>>, values |-> <<>>, where |-> {}, having |-> {},
           order |-> NoOrder, limit |-> NoLimit]

Request(metrics, dimensions) ==
    [metrics |-> metrics, dimensions |-> dimensions, filters |-> {}, having |-> {},
     order |-> NoOrder, limit |-> 100]
-----------------------------------------------------------------------------
\* Metrics of two marts are an error, not a cross join.
OneTable(r) == Cardinality({Metric[m].table : m \in Range(r.metrics)}) = 1

TableOf(r) == Metric[r.metrics[1]].table

\* A dimension is on the table of the metrics, and in their declared grain if
\* they declare one.
GrainAllows(r) ==
    \A d \in Range(r.dimensions) :
        /\ d \in Dimensions
        /\ Dimension[d].table = TableOf(r)
        /\ \A m \in Range(r.metrics) : Metric[m].grain # {} => d \in Metric[m].grain

\* build_query raises a SemanticError unless all of this holds.
Compiles(r) ==
    /\ r.metrics # <<>>
    /\ Range(r.metrics) \subseteq Metrics
    /\ OneTable(r)
    /\ GrainAllows(r)
    /\ \A clause \in r.having : clause \cap Range(r.metrics) # {}
    /\ r.order \in {NoOrder} \cup Range(r.dimensions) \cup Range(r.metrics)

\* build_query: the dimensions and the metrics' expressions, grouped by all the
\* dimensions.  A ratio is always a ratio of the expression's own aggregates.
BuildQuery(r) ==
    [Select EXCEPT !.from       = {TableOf(r)},
                   !.aggregates = UNION {Metric[m].atoms : m \in Range(r.metrics)},
                   !.by         = r.dimensions,
                   !.values     = [i \in DOMAIN r.metrics |-> Metric[r.metrics[i]].expression],
                   !.where      = r.filters,
                   !.having     = r.having,
                   !.order      = r.order,
                   !.limit      = r.limit]
-----------------------------------------------------------------------------
\* aggregate_atoms: what the guard lets a query aggregate.
AggregateAtoms == UNION {Metric[m].atoms : m \in Metrics}

\* ambiguity_notes: of the metrics asked for, and of the dimensions a filter
\* mentions.  Grouping by a dimension shows the distinction and needs no note.
AmbiguityNotes(r) ==
    LET filtered == SetToSeq(UNION {f.mentions : f \in r.filters} \cap Dimensions)
        texts    == [i \in DOMAIN r.metrics |-> Metric[r.metrics[i]].note]
                      \o [i \in DOMAIN filtered |-> Dimension[filtered[i]].note]
    IN  SelectSeq(texts, LAMBDA note : note # NoNote)

\* validate_against: the promises the warehouse cannot keep.
BrokenPromises ==
    {d \in Dimensions : \/ Dimension[d].table \notin DOMAIN Schema
                        \/ d \notin Schema[Dimension[d].table]}
        \cup {m \in Metrics : \/ Metric[m].table \notin DOMAIN Schema
                              \/ ~ Metric[m].reads \subseteq Schema[Metric[m].table]
                              \/ \E g \in Metric[m].grain : \/ g \notin Dimensions
                                                            \/ Dimension[g].table # Metric[m].table}

\* CI builds only from a registry that validates.
ASSUME RegistryAssumption == BrokenPromises = {}
==============================================================================
