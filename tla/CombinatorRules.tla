-------------------------- MODULE CombinatorRules --------------------------
(***************************************************************************)
(* The primitives a session has defined with "rule:" commands: the array   *)
(* rules[] of reduction_rule.c, as data that the other modules read.       *)
(*                                                                         *)
(* The right-hand side of a rule is a tree of struct reduction_rule_node.  *)
(* Here it is flattened: apps lists its application nodes so that each one *)
(* comes after the applications it contains, and an operand is either      *)
(* j > 0, the j-th argument of the redex (combinator_argument_number), or  *)
(* -i, the i-th application of the list.  For S 1 2 3 -> 1 3 (2 3):        *)
(*                                                                         *)
(*    [required_depth |-> 3, result |-> -3,                                *)
(*     apps |-> << [func |-> 1, arg |-> 3], [func |-> 2, arg |-> 3],       *)
(*                 [func |-> -1, arg |-> -2] >>]                           *)
(*                                                                         *)
(* The list order is the order in which reduce_rule calls new_application. *)
(* C leaves the order of the two recursive calls in its argument list      *)
(* open, so any order with operands first is one a compiler may choose.    *)
(***************************************************************************)
EXTENDS Integers, Sequences

CONSTANTS
    Combinators,    \* names that have a rule
    Variables,      \* names that have none
    Rule            \* the rule of each combinator

App == "@"          \* the name of every application node
Reduce == "reduce"  \* the command inside an expression, never a name

Label == Combinators \cup Variables \cup {App}

\* What an application built at position i may use: arguments of the redex
\* and applications built before it.
Operand(r, i) == {o \in Int : o \in 1..r.required_depth \/ -o \in 1..i-1}

IsRule(r) ==
    /\ r.required_depth \in Nat \ {0}
    /\ r.apps \in Seq([func : Int, arg : Int])
    /\ r.result \in Operand(r, Len(r.apps) + 1)
    /\ \A i \in DOMAIN r.apps :
          {r.apps[i].func, r.apps[i].arg} \subseteq Operand(r, i)
    \* a tree: every application but the root is an operand of another
    /\ \A i \in DOMAIN r.apps :
          \/ r.result = -i
          \/ \E j \in DOMAIN r.apps : -i \in {r.apps[j].func, r.apps[j].arg}

\* The grammar gives every rule a positive depth (grammar.y:202).  It does
\* not compare the numbers on the right of "->" with those on the left: the
\* model takes rules whose right-hand side uses declared arguments only.
ASSUME RulesAssumption ==
    /\ Combinators \cap Variables = {}
    /\ {App, Reduce} \cap (Combinators \cup Variables) = {}
    /\ \A c \in Combinators : IsRule(Rule[c])

=============================================================================
