------------------------- MODULE AbstractionMeaning -------------------------
(***************************************************************************)
(* What bracket abstraction is for, stated without automata, counters or   *)
(* reference counts: when a pattern matches, which rule applies, and what  *)
(* the abstraction of a variable from an expression means.                 *)
(***************************************************************************)
EXTENDS BracketAbstraction

-----------------------------------------------------------------------------
(* matching                                                                *)

LeafMatches(leaf, n, v) ==
    CASE leaf = "*"  -> TRUE
      [] leaf = "*^" -> TRUE
      [] leaf = "*+" -> var_in_tree(n, v)
      [] leaf = "*-" -> ~var_in_tree(n, v)
      [] leaf = "*!" -> ~any_var_in_tree(n)
      [] leaf = "_"  -> label[n] = v
      [] OTHER       -> label[n] = leaf /\ leaf # v

\* README.md:318-331, leaf by leaf.
RECURSIVE FitsLeafByLeaf(_, _, _)
FitsLeafByLeaf(pattern, n, v) ==
    IF IsLeaf(pattern) THEN LeafMatches(pattern.label, n, v)
    ELSE /\ label[n] = App
         /\ FitsLeafByLeaf(pattern.left, left[n], v)
         /\ FitsLeafByLeaf(pattern.right, right[n], v)

RECURSIVE ExactNodes(_, _)
ExactNodes(pattern, n) ==
    IF IsLeaf(pattern) THEN IF pattern.label = "*^" THEN {n} ELSE {}
    ELSE ExactNodes(pattern.left, left[n]) \cup ExactNodes(pattern.right, right[n])

Fits(pattern, n, v) ==
    /\ FitsLeafByLeaf(pattern, n, v)
    /\ \A m1, m2 \in ExactNodes(pattern, n) : equivalent_graphs(m1, m2)

-----------------------------------------------------------------------------
(* terms and their reduction by the combinators' rules                     *)

Atom(a) == [name |-> a]
Apply2(f, a) == [f |-> f, a |-> a]
IsAtom(t) == "name" \in DOMAIN t

RECURSIVE TermOf(_)
TermOf(n) == IF label[n] = App THEN Apply2(TermOf(left[n]), TermOf(right[n]))
                               ELSE Atom(label[n])

\* The head of a term and its arguments.
RECURSIVE Spine(_)
Spine(t) == IF IsAtom(t) THEN <<t>> ELSE Append(Spine(t.f), t.a)

ApplyAll(f, args) == FoldLeft(Apply2, f, args)

RECURSIVE Instance(_, _, _)
Instance(r, o, args) ==
    IF o > 0 THEN args[o]
    ELSE Apply2(Instance(r, r.apps[-o].func, args), Instance(r, r.apps[-o].arg, args))

\* The normal form, if it is reached within a number of contractions on each
\* path (BOUND).
RECURSIVE Normal(_, _)
Normal(t, fuel) ==
    LET head == Spine(t)[1]
        args == Tail(Spine(t))
    IN  IF /\ fuel > 0
           /\ head.name \in Combinators
           /\ Len(args) >= Rule[head.name].required_depth
        THEN LET r == Rule[head.name]
                 d == r.required_depth
             IN  Normal(ApplyAll(Instance(r, r.result, args),
                                 SubSeq(args, d + 1, Len(args))), fuel - 1)
        ELSE ApplyAll(head, [i \in DOMAIN args |-> Normal(args[i], fuel)])

\* A kept graph as a term, from its node i on.
RECURSIVE KeptTerm(_, _)
KeptTerm(kept, i) ==
    IF kept[i].label = App THEN Apply2(KeptTerm(kept, kept[i].left), KeptTerm(kept, kept[i].right))
                           ELSE Atom(kept[i].label)

\* The expression that was typed, as a term, under the definitions d.
RECURSIVE Entered(_, _, _)
Entered(graph, i, d) ==
    LET name == graph[i].label
    IN  IF name = App
        THEN Apply2(Entered(graph, graph[i].left, d), Entered(graph, graph[i].right, d))
        ELSE IF name \in DOMAIN d THEN KeptTerm(d[name], 1) ELSE Atom(name)

Fuel == 40      \* BOUND

\* Two terms are the same function if they agree on arguments of which
\* nothing is known (BOUND: three of them).
SameFunction(t, u) ==
    LET more == <<Atom("argument 1"), Atom("argument 2"), Atom("argument 3")>>
    IN  Normal(ApplyAll(t, more), Fuel) = Normal(ApplyAll(u, more), Fuel)

\* Applied to the variables, t is the expression they were abstracted from.
IsAbstraction(t, from, typed) ==
    SameFunction(ApplyAll(t, [i \in DOMAIN from |-> Atom(from[i])]), typed)

-----------------------------------------------------------------------------
(* Properties                                                              *)

\* Every variable has its type.
TypeOK ==
    /\ RulesTypeOK
    /\ HeapTypeOK
    /\ primitive \in [Address -> BOOLEAN]
    /\ pc \in Places
    /\ vars \in Seq(Variables)
    /\ tmp \in Address
    /\ values \in Seq(Address)
    /\ interrupted \in BOOLEAN

\* The rule field of a "_" in a template, which new_abs_node leaves unset
\* (node.c:324), happens to be NULL.  Otherwise a variable that is put back
\* into an expression (brack.c:315-318) passes for a primitive.
RuleFieldsNull == \A i \in DOMAIN rules : ~rules[i].line.stray

\* brack.c:125-161: the rule applied is the first whose pattern fits the
\* expression at its root, and none is applied exactly when none fits.  The
\* walk tries the pattern at every node and counts the wildcards of all of
\* them (aho_corasick.c:457-525), while what is replaced is the root.
FirstMatchingRule ==
    /\ RuleFieldsNull
    /\ pc = "abstracting"
    /\ tasks # <<>>
    /\ Head(tasks).op = "abstract"
    => Matching(Head(tasks).n)
         = {i \in DOMAIN rules : Fits(rules[i].line.pattern, Head(tasks).n, var)}

\* README.md:285-292: the expression made by [v1, ..., vk] E does not contain
\* the variables, and applied to them it is the same function as E.
AbstractionIsFunction ==
    /\ pc = "used"
    /\ values # <<Null>>
    /\ RuleFieldsNull
    => LET s == statement
       IN  /\ Null \notin Below(values[1])
           /\ \A i \in DOMAIN s.vars : ~var_in_tree(values[1], s.vars[i])
           /\ IsAbstraction(TermOf(values[1]), s.vars,
                            Entered(s.graph, Len(s.graph), definition))

\* abbreviations.c:71-128, README.md:285-300: a definition stays what it was
\* made from, whatever is defined, abstracted or released after it, also
\* where it uses names that have been given another meaning since.
DefinitionKeepsMeaning ==
    RuleFieldsNull =>
        \A name \in DOMAIN definition :
            LET m == meant[name]
            IN  IsAbstraction(KeptTerm(definition[name], 1), m.vars,
                              Entered(m.graph, Len(m.graph), m.with))

References(n) == Cardinality({m \in Live : label[m] = App /\ left[m] = n})
                   + Cardinality({m \in Live : label[m] = App /\ right[m] = n})

\* Between releases a node's count is the number of its parents, also for
\* the subject, whose parts are lent to templates, and for graphs that are
\* made to be abstracted from and thrown away (brack.c:340-346); a signal
\* that cuts a release may leave a count too high.
CountsExact ==
    todo = <<>> /\ ~interrupted /\ pc \in {"abstracting", "freed", "used"} =>
        \A n \in Live : refcnt[n] = References(n)

\* What pending calls, finished calls and the statement will still read.
ToBeRead ==
    {values[i] : i \in DOMAIN values}
      \cup (IF pc \in {"abstracting", "returned"} THEN {tmp} ELSE {})
      \cup UNION {CASE tasks[i].op \in {"abstract", "release"} -> {tasks[i].n}
                    [] tasks[i].op = "replace" -> ToSet(tasks[i].nodes)
                    [] OTHER -> {} : i \in DOMAIN tasks}

\* No node that will still be read has been freed: the result shares nothing
\* with the graphs that are released before it is used (brack.c:344,
\* grammar.y:405), signal or not.
NothingReadAfterFree ==
    UNION {Below(n) : n \in ToBeRead} \subseteq Live \cup {Null}

\* reset_node_allocation finds every node on the free list (node.c:225),
\* unless a signal cut the abstraction.
EveryNodeReturned ==
    pc = "done" /\ todo = <<>> /\ ~interrupted => AllOnFreeList

=============================================================================
