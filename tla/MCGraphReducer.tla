--------------------------- MODULE MCGraphReducer ---------------------------
(***************************************************************************)
(* Instances of GraphReducer for TLC.                                      *)
(***************************************************************************)
EXTENDS GraphReducer

RuleOf(depth, apps, result) ==
    [required_depth |-> depth, apps |-> apps, result |-> result]
Ap(f, a) == [func |-> f, arg |-> a]

\* rule: I 1 -> 1, rule: K 1 2 -> 1, rule: S 1 2 3 -> 1 3 (2 3), ...
MCRule == [
    I |-> RuleOf(1, <<>>, 1),
    M |-> RuleOf(1, <<Ap(1, 1)>>, -1),
    K |-> RuleOf(2, <<>>, 1),
    W |-> RuleOf(2, <<Ap(1, 2), Ap(-1, 2)>>, -2),
    C |-> RuleOf(3, <<Ap(1, 3), Ap(-1, 2)>>, -2),
    \* built in the order a compiler that evaluates the arguments of
    \* new_application from right to left produces
    S |-> RuleOf(3, <<Ap(2, 3), Ap(1, 3), Ap(-2, -1)>>, -3)]

MCCombinators == DOMAIN MCRule
MCVariables == {"x", "y"}

\* Expressions in the order in which the parser acts on them.
Leaf(a) == <<a>>
Apply(f, a) == f \o a \o <<App>>
Reduced(e) == Append(e, Reduce)

\* All trees with at most n leaves, taken from a set of names.
TreesUpTo(n, names) ==
    LET trees[k \in 1..n] ==
            IF k = 1 THEN {Leaf(a) : a \in names}
            ELSE UNION {{Apply(f, a) : f \in trees[j], a \in trees[k - j]} :
                        j \in 1..k-1}
    IN  UNION {trees[k] : k \in 1..n}

SII == Apply(Apply(Leaf("S"), Leaf("I")), Leaf("I"))
WC == Apply(Leaf("W"), Leaf("C"))

\* Omega, which loops, also from a shared start; W C W C (W C), which grows;
\* redexes in argument position, some of them shared.
Larger == {
    Apply(SII, SII),
    Apply(Leaf("M"), SII),
    Apply(Apply(WC, WC), WC),
    Apply(Apply(Leaf("W"), Leaf("x")), Apply(Leaf("M"), Apply(Leaf("K"), Leaf("y")))),
    Apply(Apply(Leaf("x"), Apply(Leaf("I"), Leaf("y"))), Apply(Leaf("M"), Leaf("K"))),
    Apply(Apply(Leaf("W"), Leaf("x")), Apply(Leaf("I"), Leaf("K"))) }

\* Parts reduced before the rest: results that share, that the rest copies,
\* drops or reduces on; one inside another; parts that never end.
Parts == {Apply(Leaf("W"), Leaf("K")), Apply(Leaf("M"), Apply(Leaf("x"), Leaf("K"))),
          Apply(Apply(Leaf("W"), Leaf("x")), Apply(Leaf("I"), Leaf("S"))), Apply(Leaf("M"), Leaf("M"))}
WithReduce ==
    {Reduced(p) : p \in Parts}
      \cup {Apply(Leaf(a), Reduced(p)) : a \in {"M", "K", "x"}, p \in Parts}
      \cup {Apply(Reduced(p), Leaf("M")) : p \in Parts}
      \cup {Apply(Reduced(p), Apply(Leaf("I"), Reduced(q))) : p, q \in Parts}
      \cup {Reduced(Apply(Leaf("W"), Reduced(p))) : p \in Parts}

Options(cycles, count, timer, step) ==
    [cycle_detection |-> cycles, max_reduction_count |-> count,
     reduction_timeout |-> timer, single_step |-> step]

-----------------------------------------------------------------------------
\* Run "reducer": every tree of at most four leaves, no signals.
AllSmall == TreesUpTo(4, {"S", "K", "W", "x"}) \cup Larger \cup WithReduce
LimitedSettings == {Options(TRUE, 4, FALSE, FALSE), Options(FALSE, 2, FALSE, FALSE)}
NoSignals == {}

\* Run "reducer_signals": fewer expressions, every place a signal can land,
\* all ways to answer the single-step prompt.
SharedPart == Reduced(Apply(Leaf("M"), Apply(Leaf("x"), Leaf("K"))))
WKPart == Apply(Apply(Leaf("W"), Leaf("K")), SharedPart)
WithPart == {Apply(Leaf("x"), SharedPart), Apply(SharedPart, Leaf("M")),
             Apply(WKPart, Apply(Leaf("I"), Leaf("x"))), Reduced(Reduced(Apply(Leaf("M"), Leaf("x"))))}
SomeExpressions == TreesUpTo(2, {"K", "M", "x"}) \cup Larger \cup WithPart
    \cup {Apply(Apply(Leaf("K"), Leaf("x")), Leaf("y")),
          Apply(Apply(Leaf("W"), Leaf("K")), Leaf("x"))}
SignalSettings == {Options(FALSE, 0, TRUE, FALSE), Options(TRUE, 0, TRUE, FALSE),
                   Options(FALSE, 2, FALSE, FALSE), Options(TRUE, 2, FALSE, TRUE)}
AllSignals == {"Interrupt", "Timeout"}

=============================================================================
