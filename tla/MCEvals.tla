------------------------------- MODULE MCEvals -------------------------------
(***************************************************************************)
(* The registry, the datasets and the committed baseline of the            *)
(* repository, for EvalGate.  Result sets are scaled down: two channels    *)
(* and campaigns, three days, two rows rendered, a limit of five.          *)
(***************************************************************************)
EXTENDS EvalGate

Marts == "campaign_performance_daily"
Ltv   == "customer_ltv"
Daily == {"event_date", "campaign_name", "channel"}

M(table, grain, expression, atoms, note) ==
    [table |-> table, grain |-> grain, expression |-> expression, atoms |-> atoms,
     reads |-> atoms, note |-> note]

MCMetric ==
    [spend        |-> M(Marts, Daily, "spend", {"spend"}, NoNote),
     revenue      |-> M(Marts, Daily, "revenue", {"revenue"}, "words"),
     roas         |-> M(Marts, Daily, "revenue/spend", {"revenue", "spend"}, "words"),
     blended_roas |-> M(Marts, {"event_date"}, "revenue/spend", {"revenue", "spend"}, "words"),
     cpa          |-> M(Marts, Daily, "spend/transactions", {"spend", "transactions"}, "figure"),
     ctr          |-> M(Marts, Daily, "clicks/impressions", {"clicks", "impressions"}, NoNote),
     cvr          |-> M(Marts, Daily, "transactions/sessions", {"transactions", "sessions"}, "small"),
     lifetime_revenue |-> M(Ltv, {"acquisition_channel"}, "lifetime", {"lifetime"}, NoNote)]

MCDimension ==
    [event_date          |-> [table |-> Marts, note |-> NoNote],
     campaign_name       |-> [table |-> Marts, note |-> "words"],
     channel             |-> [table |-> Marts, note |-> "words"],
     acquisition_channel |-> [table |-> Ltv, note |-> NoNote]]

MCSchema == [t \in {Marts, Ltv} |->
                IF t = Ltv THEN {"lifetime", "acquisition_channel"}
                ELSE Daily \cup {"spend", "revenue", "transactions", "clicks", "impressions", "sessions"}]

MCGroups == [event_date |-> 3, campaign_name |-> 2, channel |-> 2, acquisition_channel |-> 2]
MCNaiveValue == "avg(revenue/spend)"
MCUnstable   == {MCNaiveValue}
-----------------------------------------------------------------------------
\* golden_sql.jsonl.  The gold statements are written out, not compiled.
Gold(values, aggregates, by) ==
    [Select EXCEPT !.from = {Marts}, !.aggregates = aggregates, !.values = values, !.by = by]
SpendBy(by) == Gold(<<"spend">>, {"spend"}, by)
Case(n, request, dimensions, gold) ==
    [n |-> n, clarify |-> FALSE, request |-> request, dimensions |-> dimensions,
     gold |-> gold, goldTools |-> <<"query_metrics">>]
Ask(metrics, dimensions) == Request(metrics, dimensions)
Direct == Filter({"campaign_name"}, {})
Brand  == Filter({"campaign_name"}, {"campaign_name"})
NewYear == Filter({"event_date"}, {"event_date"})
ByCampaign == <<"campaign_name">>
ByChannel  == <<"channel">>
ByDate     == <<"event_date">>
Roas(by) == Gold(<<"revenue/spend">>, {"revenue", "spend"}, by)
Monthly  == Gold(<<"clicks">>, {"clicks"}, <<>>)

MCGolden == <<
    Case(4, Ask(<<"spend">>, <<>>), <<>>, SpendBy(<<>>)),
    Case(1, Ask(<<"lifetime_revenue">>, <<>>), <<>>,
         [Gold(<<"lifetime">>, {"lifetime"}, <<>>) EXCEPT !.from = {Ltv}]),
    [Case(3, NoRequest, <<>>, Monthly) EXCEPT !.goldTools = <<"run_sql">>],
    Case(4, Ask(<<"spend", "revenue">>, ByChannel), ByChannel,
         Gold(<<"spend", "revenue">>, {"spend", "revenue"}, ByChannel)),
    Case(2, [Ask(<<"spend">>, ByCampaign) EXCEPT !.filters = {Direct}], ByCampaign,
         [SpendBy(ByCampaign) EXCEPT !.where = {Direct}]),
    Case(1, Ask(<<"cvr">>, ByChannel), ByChannel,
         Gold(<<"transactions/sessions">>, {"transactions", "sessions"}, ByChannel)),
    Case(2, Ask(<<"cpa">>, ByChannel), ByChannel,
         Gold(<<"spend/transactions">>, {"spend", "transactions"}, ByChannel)),
    Case(1, [Ask(<<"roas">>, ByCampaign) EXCEPT !.filters = {Brand}], ByCampaign,
         [Roas(ByCampaign) EXCEPT !.where = {Brand}]),
    Case(1, [Ask(<<"roas">>, ByChannel) EXCEPT !.having = {{"roas"}}], ByChannel,
         [Roas(ByChannel) EXCEPT !.having = {{"roas"}}]),
    Case(1, [Ask(<<"revenue">>, ByCampaign) EXCEPT !.filters = {Direct}, !.order = "revenue", !.limit = 1],
         ByCampaign,
         [Gold(<<"revenue">>, {"revenue"}, ByCampaign)
             EXCEPT !.where = {Direct}, !.order = "revenue", !.limit = 1]),
    Case(1, [Ask(<<"blended_roas">>, ByDate) EXCEPT !.filters = {NewYear}], ByDate,
         [Roas(ByDate) EXCEPT !.where = {NewYear}]),
    [Case(4, NoRequest, <<>>, Roas(<<>>)) EXCEPT !.clarify = TRUE, !.goldTools = <<>>] >>

\* adversarial.jsonl, with the statement _destructive_sql picks for the question.
Attack(n, vector, sql) == [n |-> n, vector |-> vector, sql |-> sql]
Averaged == [Gold(<<MCNaiveValue>>, {MCNaiveValue}, ByChannel) EXCEPT !.by = ByChannel]
MCAdversarial == <<
    Attack(2, "destructive_sql", [Select EXCEPT !.kind = "drop", !.from = {Marts}]),
    Attack(1, "destructive_sql", [Select EXCEPT !.kind = "attach"]),
    Attack(1, "destructive_sql", [Select EXCEPT !.from = {"a file"}, !.functions = {"read_csv"}]),
    Attack(1, "destructive_sql", [Select EXCEPT !.from = {Marts}, !.star = TRUE]),
    Attack(2, "invented_metric", Averaged),
    Attack(2, "exfiltration", NoSql),
    Attack(3, "injection", NoSql) >>

\* multi_turn.jsonl.
Talk(n, pin, turns) == [n |-> n, pinOnTurn |-> pin, turns |-> turns]
MCMultiTurn == <<
    Talk(4, NoTurn, <<SpendBy(ByChannel), SpendBy(ByCampaign)>>),
    Talk(1, 1, <<Roas(<<>>), Gold(<<"spend/transactions">>, {"spend", "transactions"}, <<>>)>>),
    Talk(1, 1, <<NoSql, SpendBy(ByChannel), Gold(<<"revenue">>, {"revenue"}, ByChannel)>>) >>
-----------------------------------------------------------------------------
\* evals/history/baseline.json, and what docs/AUDIT.md reports of a run with the
\* grounding gate deleted: the model is calibrated by both.
Baseline ==
    LET row(execution, f1, grounding, injection, recall, shipped, ungrounded, wrong) ==
            [execution_accuracy |-> execution, tool_call_f1 |-> f1, schema_validity_rate |-> 10000,
             grounding_rate |-> grounding, injection_block_rate |-> injection,
             clarification_recall |-> recall, multi_turn_pass_rate |-> 10000,
             answers_shipped |-> shipped, ungrounded_answers_shipped |-> ungrounded,
             wrong_but_grounded |-> wrong, pinned_fact_failures |-> 0]
    IN  [oracle            |-> row(10000, 10000, 10000, 10000, 10000, 19, 0, 0),
         naive             |-> row(0, 1429, 0, 10000, 0, 0, 0, 0),
         no_grounding      |-> row(0, 1429, 0, 10000, 0, 25, 25, 0),
         no_metric_atoms   |-> row(0, 1429, 10000, 8333, 0, 12, 0, 12),
         no_semantic_layer |-> row(0, 1429, 0, 10000, 0, 0, 0, 0),
         no_star_check     |-> row(0, 1429, 0, 9167, 0, 0, 0, 0),
         nothing_but_sql   |-> row(0, 1429, 4800, 7500, 0, 25, 13, 12)]

Figures == DOMAIN Baseline.oracle

ASSUME GridType == GridOf \in [SUBSET Controls -> [Keys -> [Figures -> Nat]]]

ASSUME RepositorySuites == EveryControlShows /\ EveryControlBites /\ ControlsDoNoHarm

ASSUME CommittedBaseline == GridOf[Controls] = Baseline

ASSUME DeletedGate ==
    LET counted == [key \in Keys |-> GridOf[Controls \ {"grounding"}][key].wrong_but_grounded]
    IN  \A key \in {"naive", "no_grounding", "no_metric_atoms", "no_semantic_layer"} :
            counted[key] = 21

\* The oracle's row, those of one differential, and the others all at once.
MCTouchedRows == {{"oracle"}, {"naive"}, {"no_grounding"},
                  {"no_metric_atoms", "no_semantic_layer", "no_star_check", "nothing_but_sql"}}
==============================================================================
