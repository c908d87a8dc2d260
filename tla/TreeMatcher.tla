---------------------------- MODULE TreeMatcher ----------------------------
(***************************************************************************)
(* algorithm_d of aho_corasick.c: whether the pattern of an abstraction    *)
(* rule matches a graph.  A depth-first walk runs the rule's automaton     *)
(* along every path from the root; each path of the pattern that is found  *)
(* counts for the node where it starts, and a node that gets as many       *)
(* counts as the pattern has paths is a match.                             *)
(*                                                                         *)
(* A walk is a record m: stack holds the path to the node in hand, count   *)
(* the counts by node number, next is breadth_counter, exact is            *)
(* exact_match_node.                                                       *)
(***************************************************************************)
EXTENDS AbstractionRules, NodeHeap

VARIABLE primitive  \* the nodes' rule fields: TRUE where it is not NULL

RECURSIVE Below(_)
Below(n) ==
    {n} \cup IF label[n] = App THEN Below(left[n]) \cup Below(right[n]) ELSE {}

var_in_tree(n, v) == \E b \in Below(n) : label[b] = v

any_var_in_tree(n) == \E b \in Below(n) : label[b] # App /\ ~primitive[b]

RECURSIVE equivalent_graphs(_, _)
equivalent_graphs(m, n) ==
    /\ label[m] = label[n]
    /\ label[m] = App => /\ equivalent_graphs(left[m], left[n])
                         /\ equivalent_graphs(right[m], right[n])

RECURSIVE node_count(_)
node_count(n) ==
    1 + IF label[n] = App THEN node_count(left[n]) + node_count(right[n]) ELSE 0

\* The characters the automaton reads at a node when v is abstracted.
Word(n, v) ==
    CASE label[n] = App -> <<"@">>
      [] label[n] = v   -> <<"_">>
      [] OTHER          -> Spelling[label[n]]

Read(g, state, word) == FoldLeft(LAMBDA s, c : g.delta[s][c], state, word)

\* Plausible slip: a path counts for the node where it ends.
tabulate_at_end(g, m, state, pat_leaf_count) ==
    FoldLeft(LAMBDA w, out :
                 LET number == w.stack[Len(w.stack)].number
                     found == w.count[number] + 1
                 IN  IF w.matched THEN w
                     ELSE [w EXCEPT !.count[number] = found,
                                    !.matched = found = pat_leaf_count],
             m, g.output[state])

\* Every path that ends in this state counts for the node where it starts.
tabulate(g, m, state, pat_leaf_count) ==
    FoldLeft(LAMBDA w, out :
                 LET number == w.stack[Len(w.stack) - out + 1].number
                     found == w.count[number] + 1
                 IN  IF w.matched THEN w
                     ELSE [w EXCEPT !.count[number] = found,
                                    !.matched = found = pat_leaf_count],
             m, g.output[state])

Push(m, n, state) ==
    [m EXCEPT !.stack = Append(@, [n |-> n, state |-> state, visited |-> 0,
                                   number |-> m.next]),
              !.next = @ + 1]

\* The root: its name, then what the wildcards say of it.
AtRoot(g, t, v, k) ==
    LET start == Push([stack |-> <<>>, next |-> 0, exact |-> Null, matched |-> FALSE,
                       count |-> [i \in 0..node_count(t) |-> 0]],
                      t, Read(g, 0, Word(t, v)))
        try(m, state) == IF m.matched THEN m ELSE tabulate(g, m, state, k)
        named == try(start, start.stack[1].state)
    IN  IF any_var_in_tree(t)
        THEN try(named, g.delta[0][IF var_in_tree(t, v) THEN "+" ELSE "-"])
        ELSE try(try(named, g.delta[0]["!"]), g.delta[0]["-"])

\* "^": the first node it is tried on is remembered, the others have to be
\* equivalent to that one.
TryExact(g, m, n, between, k) ==
    LET state == g.delta[between]["^"]
    IN  IF m.matched \/ state = 0 THEN m
        ELSE IF m.exact = Null THEN tabulate(g, [m EXCEPT !.exact = n], state, k)
        ELSE IF equivalent_graphs(m.exact, n) THEN tabulate(g, m, state, k)
        ELSE m

\* "+", "-" or "!"; a graph without variables is tried as "-" only where no
\* path goes on with "!".
TryWildcard(g, m, n, between, v, k) ==
    LET char == IF any_var_in_tree(n) THEN IF var_in_tree(n, v) THEN "+" ELSE "-"
                ELSE IF g.delta[between]["!"] # 0 THEN "!" ELSE "-"
    IN  IF m.matched THEN m ELSE tabulate(g, m, g.delta[between][char], k)

\* A child of the node in hand: between is the state between the two names,
\* where "*" matches; deeper than the longest path nothing is counted.
Descend(g, m, v, k) ==
    LET top == Len(m.stack)
        this == m.stack[top]
        branch == IF this.visited = 0 THEN "1" ELSE "2"
        child == IF this.visited = 0 THEN left[this.n] ELSE right[this.n]
        between == g.delta[this.state][branch]
        seen == tabulate(g, [m EXCEPT !.stack[top].visited = @ + 1], between, k)
        state == Read(g, between, Word(child, v))
        pushed == Push(seen, child, state)
    IN  IF top + 1 > g.max_node_count THEN pushed
        ELSE TryWildcard(g, TryExact(g, tabulate(g, pushed, state, k), child, between, k),
                         child, between, v, k)

ToLeave(g, m) ==
    LET this == m.stack[Len(m.stack)]
    IN  this.visited = 2 \/ label[this.n] # App \/ Len(m.stack) > g.max_node_count

RECURSIVE Walk(_, _, _, _)
Walk(g, m, v, k) ==
    IF m.matched \/ m.stack = <<>> THEN m.matched
    ELSE Walk(g, IF ToLeave(g, m) THEN [m EXCEPT !.stack = Front(@)]
                                  ELSE Descend(g, m, v, k), v, k)

algorithm_d(g, t, v, k) == Walk(g, AtRoot(g, t, v, k), v, k)

=============================================================================
