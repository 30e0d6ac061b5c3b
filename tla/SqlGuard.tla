------------------------------- MODULE SqlGuard -------------------------------
(***************************************************************************)
(* SqlGuard.check: the rules in the order they are tried, the code of the  *)
(* first one that rejects, and the limit the statement is given.  A policy *)
(* is SqlGuardConfig; `present` says which rules the source still has, all *)
(* of them at this commit.                                                 *)
(***************************************************************************)
EXTENDS SemanticLayer

CONSTANTS AllowedTables, ForbiddenFunctions, DefaultLimit, MaxLimit

ASSUME GuardLimitsAssumption == /\ DefaultLimit \in Nat
                                /\ MaxLimit \in Nat
                                /\ DefaultLimit <= MaxLimit

RuleOrder == <<"parse", "single", "select", "function", "table", "source", "star", "literal",
               "aggregate">>
Rules == Range(RuleOrder)

\* ViolationCode, by rule.
CodeOf == [parse |-> "PARSE_ERROR", single |-> "MULTIPLE_STATEMENTS", select |-> "NOT_A_SELECT",
           function |-> "FUNCTION_NOT_ALLOWED", table |-> "TABLE_NOT_ALLOWED",
           source |-> "TABLE_REQUIRED", star |-> "STAR_NOT_ALLOWED",
           literal |-> "LITERAL_PROJECTION", aggregate |-> "UNREGISTERED_AGGREGATE"]

CountStar == "count(*)"

\* _check_aggregates: every one is an atom of a metric; count(*) is no metric.
Registered(s, policy) == s.aggregates \ {CountStar} \subseteq policy.aggregates

Breaks(rule, s, policy) ==
    CASE rule = "parse"     -> s.statements = 0
      [] rule = "single"    -> s.statements > 1
      [] rule = "select"    -> s.kind # "select"
      [] rule = "function"  -> s.functions \cap ForbiddenFunctions # {}
      [] rule = "table"     -> ~ s.from \subseteq AllowedTables
      [] rule = "source"    -> s.from = {}
      [] rule = "star"      -> s.star /\ ~policy.allowStar
      [] rule = "literal"   -> s.literal
      [] rule = "aggregate" -> /\ policy.requireRegistered
                               /\ policy.aggregates # {}
                               /\ ~Registered(s, policy)

\* The code check() raises, "ok" if it raises none.
Verdict(s, policy, present) ==
    LET broken == {i \in DOMAIN RuleOrder : /\ RuleOrder[i] \in present
                                            /\ Breaks(RuleOrder[i], s, policy)}
    IN  IF broken = {} THEN "ok" ELSE CodeOf[RuleOrder[Min(broken)]]

\* _enforce_limit: injected when absent, clamped when it is too large (a limit that
\* is not a literal is one that is too large).
EnforceLimit(s) ==
    [s EXCEPT !.limit = IF @ = NoLimit THEN DefaultLimit
                        ELSE IF @ > MaxLimit THEN MaxLimit ELSE @]
==============================================================================
