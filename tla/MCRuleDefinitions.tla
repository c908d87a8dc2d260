-------------------------- MODULE MCRuleDefinitions --------------------------
(***************************************************************************)
(* An instance of RuleDefinitions for TLC: V is defined as one primitive,  *)
(* then as another, and t abbreviates an expression that uses it.          *)
(***************************************************************************)
EXTENDS RuleDefinitions

RuleOf(depth, apps, result) ==
    [required_depth |-> depth, apps |-> apps, result |-> result]
Ap(f, a) == [func |-> f, arg |-> a]

\* rule: V 1 -> 1, rule: V 1 2 -> 1, rule: M 1 -> 1 1
MCRule == [
    V1 |-> RuleOf(1, <<>>, 1),
    V2 |-> RuleOf(2, <<>>, 1),
    M1 |-> RuleOf(1, <<Ap(1, 1)>>, -1)]
MCName == [V1 |-> "V", V2 |-> "V", M1 |-> "M"]

MCCombinators == DOMAIN MCRule
MCVariables == {"V", "M", "t", "x"}

Leaf(a) == <<a>>
Apply(f, a) == f \o a \o <<App>>

MCTexts == {Apply(Leaf("t"), Leaf("x")), Apply(Apply(Leaf("V"), Leaf("x")), Leaf("t"))}
MCDefinitions == {
    [name |-> "t", text |-> Apply(Leaf("V"), Leaf("x"))],
    [name |-> "t", text |-> Apply(Leaf("M"), Leaf("V"))]}

NoExpressions == {}
NoSignals == {}
OneSetting == {[cycle_detection |-> FALSE, max_reduction_count |-> 2,
                reduction_timeout |-> FALSE, single_step |-> FALSE]}

=============================================================================
