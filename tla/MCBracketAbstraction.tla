------------------------ MODULE MCBracketAbstraction ------------------------
(***************************************************************************)
(* Instances of BracketAbstraction for TLC: rules of the files in bases/,  *)
(* and small expressions to abstract from.                                 *)
(***************************************************************************)
EXTENDS AbstractionMeaning

MCRule == [
    I |-> [required_depth |-> 1, apps |-> <<>>, result |-> 1],
    M |-> [required_depth |-> 1, apps |-> <<[func |-> 1, arg |-> 1]>>, result |-> -1],
    K |-> [required_depth |-> 2, apps |-> <<>>, result |-> 1],
    T |-> [required_depth |-> 2, apps |-> <<[func |-> 2, arg |-> 1]>>, result |-> -1],
    B |-> [required_depth |-> 3, result |-> -2,
           apps |-> <<[func |-> 2, arg |-> 3], [func |-> 1, arg |-> -1]>>],
    S |-> [required_depth |-> 3, result |-> -3,
           apps |-> <<[func |-> 1, arg |-> 3], [func |-> 2, arg |-> 3],
                      [func |-> -1, arg |-> -2]>>]]

MCCombinators == DOMAIN MCRule
MCVariables == {"x", "y", "x_", "U", "V"}

MCChars == <<"!", "+", "-", "1", "2", "@", "B", "I", "K", "M", "S", "T", "U", "V", "^", "_",
             "x", "y">>
MCSpelling == [a \in MCCombinators \cup MCVariables \cup {"_"} |->
                  IF a = "x_" THEN <<"x", "_">> ELSE <<a>>]

-----------------------------------------------------------------------------
(* patterns and templates: a name is a leaf, a tuple an application        *)

L(a) == [label |-> a, abstracted |-> FALSE]
P(f, a) == [label |-> "@", left |-> f, right |-> a, abstracted |-> FALSE]
P3(f, a, b) == P(P(f, a), b)
Abs(t) == [t EXCEPT !.abstracted = TRUE]
Abs1 == Abs(L("1"))
Abs2 == Abs(L("2"))

Line(lhs, rhs) == [pattern |-> lhs, replacement |-> rhs, stray |-> FALSE]

MCAbstractionRule == [
    \* ski.basis, of which other bases use the first and the third
    constant  |-> Line(L("*-"), P(L("K"), L("1"))),
    identity  |-> Line(L("_"), L("I")),
    eta       |-> Line(P(L("*-"), L("_")), L("1")),
    both      |-> Line(P(L("*"), L("*")), P3(L("S"), Abs1, Abs2)),
    \* btmk.basis
    identityB |-> Line(L("_"), P3(L("B"), P(L("T"), L("M")), L("K"))),
    inRight   |-> Line(P(L("*-"), L("*+")), P3(L("B"), L("1"), Abs2)),
    inLeft    |-> Line(P(L("*+"), L("*-")), P3(L("B"), P(L("T"), L("2")), Abs1)),
    twice     |-> Line(P(L("*^"), L("*^")), Abs(P(L("M"), L("1")))),
    bothB     |-> Line(P(L("*"), L("*")),
                       P3(L("B"),
                          P(L("T"), P3(L("B"), P(L("T"), Abs2), P3(L("B"), L("B"), Abs1))),
                          P3(L("B"), L("M"), P3(L("B"), L("B"), L("T"))))),
    \* tromp.abstraction
    SK        |-> Line(P3(L("S"), L("K"), L("*")), P(L("S"), L("K"))),
    identityS |-> Line(L("_"), P3(L("S"), L("K"), L("K"))),
    again     |-> Line(P3(L("_"), L("*"), L("_")),
                       Abs(P(P(P3(L("S"), L("S"), L("K")), L("_")), L("2")))),
    againStray |-> [Line(P3(L("_"), L("*"), L("_")),
                         Abs(P(P(P3(L("S"), L("S"), L("K")), L("_")), L("2"))))
                    EXCEPT !.stray = TRUE],
    closed    |-> Line(P(L("*!"), P(L("*!"), L("*"))),
                       Abs(P(P3(L("S"), Abs1, L("2")), L("3")))),
    closed2   |-> Line(P3(L("*!"), L("*"), L("*!")),
                       Abs(P(P3(L("S"), L("1"), Abs(L("3"))), L("2")))),
    same      |-> Line(P3(L("*!"), L("*^"), P(L("*!"), L("*^"))),
                       Abs(P(P3(L("S"), L("1"), L("3")), L("2"))))]

RECURSIVE PartsOf(_)
PartsOf(t) == {t} \cup IF IsLeaf(t) THEN {} ELSE PartsOf(t.left) \cup PartsOf(t.right)

RECURSIVE HeightOf(_)
HeightOf(t) == IF IsLeaf(t) THEN 0 ELSE 1 + Max({HeightOf(t.left), HeightOf(t.right)})

MCPatternParts == UNION {PartsOf(MCAbstractionRule[name].pattern) : name \in DOMAIN MCAbstractionRule}
MCHeight == [t \in MCPatternParts |-> HeightOf(t)]

SKI == <<"constant", "identity", "eta", "both">>
BTMK == <<"constant", "identityB", "eta", "inRight", "inLeft", "twice", "bothB">>
Tromp(rule) == <<"SK", "constant", "identityS", "eta", rule, "closed", "closed2", "same", "both">>
Partial == <<"identity", "constant">>
Curry == <<"constant", "identity", "both">>

MCScripts == {SKI, BTMK, Tromp("again"), Tromp("againStray"), Partial, Curry}

-----------------------------------------------------------------------------
(* expressions                                                             *)

Leaf(a) == << [label |-> a, left |-> 0, right |-> 0] >>

Apply(f, a) ==
    LET moved(c) == [c EXCEPT !.left = IF @ = 0 THEN 0 ELSE @ + Len(f),
                              !.right = IF @ = 0 THEN 0 ELSE @ + Len(f)]
    IN  f \o [i \in DOMAIN a |-> moved(a[i])]
          \o << [label |-> App, left |-> Len(f), right |-> Len(f) + Len(a)] >>

TreesUpTo(n, names) ==
    LET trees[k \in 1..n] ==
            IF k = 1 THEN {Leaf(a) : a \in names}
            ELSE UNION {{Apply(f, a) : f \in trees[j], a \in trees[k - j]} :
                        j \in 1..k-1}
    IN  UNION {trees[k] : k \in 1..n}

Expression(from, graphs) == [name : {NoName}, vars : {from}, graph : graphs]

MCExpressions ==
    Expression(<<"x">>, TreesUpTo(3, {"S", "K", "x", "y"})
                          \cup {Apply(Apply(a, b), Apply(c, d)) :
                                  a, b, c, d \in {Leaf("K"), Leaf("x")}})
      \cup Expression(<<"x", "y">>, TreesUpTo(2, {"K", "x", "y"}))

\* Definitions with free variables, of each other and made anew; uses that
\* capture the variables.
Definition(name, from, graph) == [name |-> name, vars |-> from, graph |-> graph]
U == Leaf("U")
V == Leaf("V")
X == Leaf("x")
Y == Leaf("y")

MCDefinitions ==
    { Definition("U", <<"x">>, Apply(X, Y)), Definition("U", <<>>, Apply(Leaf("K"), Y)),
      Definition("V", <<"y">>, Apply(U, X)), Definition("V", <<"x", "y">>, Apply(Apply(Y, U), X)) }
      \cup Expression(<<"x">>, {U, Apply(V, U), Apply(X, Apply(U, V))})
      \cup Expression(<<"y">>, {Apply(U, X), Apply(V, Y)})

MCStatements(lines) ==
    IF lines = [i \in DOMAIN Curry |-> MCAbstractionRule[Curry[i]]] THEN MCDefinitions
                                                                  ELSE MCExpressions

MCInterruptible == Expression(<<"x">>, TreesUpTo(2, {"K", "x"}))
                     \cup {Definition("U", <<"x">>, Apply(X, Y))}

\* bcfi.basis and ibcs.basis start with "_ -> I": a name that ends in "_".
MCWordScripts == {Partial}
MCWordStatements(lines) == Expression(<<"x">>, TreesUpTo(2, {"K", "x", "x_"}))

=============================================================================
