---------------------------- MODULE Abbreviations ----------------------------
(***************************************************************************)
(* Graphs that outlive a statement: abbreviations.c keeps what "def" is    *)
(* given as a malloc'd copy, and the parser puts an arena copy of it       *)
(* wherever the name is used.                                              *)
(*                                                                         *)
(* A kept graph is a sequence of nodes, root first, whose children are     *)
(* indices (0 for none); primitive stands for a rule field that is not     *)
(* NULL.  A graph as it is typed has its root last, as the parser builds   *)
(* it, and no rule fields yet.                                             *)
(***************************************************************************)
EXTENDS TreeMatcher

VARIABLES
    definition,     \* the data of the hash table: name -> kept graph
    meant           \* HISTORY: what each definition was made from

\* New nodes, with the rule fields given for them; that of an application is
\* whatever was in memory, which nothing reads.
Build(cells, rule) ==
    /\ NewNodes(cells)
    /\ refcnt' = Counted(cells)
    /\ updateable' = Cleared(cells)
    /\ primitive' = [n \in Address |->
                        IF \E i \in DOMAIN cells : n = Fresh(i)
                        THEN rule[CHOOSE i \in DOMAIN cells : n = Fresh(i)]
                        ELSE primitive[n]]

RECURSIVE Preorder(_)
Preorder(n) ==
    <<n>> \o IF label[n] = App THEN Preorder(left[n]) \o Preorder(right[n]) ELSE <<>>

\* A tree: what the graph shares is copied once for each path to it.
copy_graph(n) ==
    LET nodes == Preorder(n)
    IN  [i \in DOMAIN nodes |->
           LET m == nodes[i]
               app == label[m] = App
           IN  [label |-> label[m],
                left |-> IF app THEN i + 1 ELSE 0,
                right |-> IF app THEN i + 1 + Len(Preorder(left[m])) ELSE 0,
                primitive |-> ~app /\ primitive[m]]]

\* The nodes of a graph, built where it is put.
BuildGraph(graph) ==
    LET child(i) == IF i = 0 THEN Null ELSE Fresh(i)
    IN  Build([i \in DOMAIN graph |-> [label |-> graph[i].label,
                                       left |-> child(graph[i].left),
                                       right |-> child(graph[i].right)]],
              [i \in DOMAIN graph |-> graph[i].primitive])

\* arena_copy_graph calls new_node in the order of copy_graph's result.
arena_copy_graph(n) == BuildGraph(copy_graph(n))

-----------------------------------------------------------------------------
(* abbreviation_lookup, when the parser meets a name                       *)

\* Moved to begin at index i.
MovedTo(graph, i) ==
    LET moved(c) == IF c = 0 THEN 0 ELSE c + i - 1
    IN  [j \in DOMAIN graph |-> [graph[j] EXCEPT !.left = moved(@), !.right = moved(@)]]

\* The graph the parser makes: an abbreviation is a copy of its definition,
\* any other name a node with the rule it has.  preallocate_nodes puts as
\* many nodes on the free list as the copy takes off it, and nothing has been
\* released yet, so that the nodes are numbered as if they were not put there.
Parsed(graph) ==
    LET abbreviated(i) == graph[i].label \in DOMAIN definition
        size(i) == IF abbreviated(i) THEN Len(definition[graph[i].label]) ELSE 1
        at[i \in 0..Len(graph) + 1] ==
            IF i <= 1 THEN i ELSE at[i - 1] + size(i - 1)
        cell(i) == [label |-> graph[i].label,
                    left |-> at[graph[i].left],
                    right |-> at[graph[i].right],
                    primitive |-> graph[i].label \in Combinators]
    IN  [root |-> at[Len(graph)],
         graph |-> FlattenSeq([i \in DOMAIN graph |->
                                  IF abbreviated(i)
                                  THEN MovedTo(definition[graph[i].label], at[i])
                                  ELSE <<cell(i)>>])]

-----------------------------------------------------------------------------
(* abbreviation_add                                                        *)

\* Plausible slip: what a name already stands for is kept.
AddedOnce(name, n) == definition @@ (name :> copy_graph(n))

\* The data of the name, its old graph freed.
Added(name, n) == (name :> copy_graph(n)) @@ definition

\* "def name [vars] graph", where n is what the expression came to.
abbreviation_add(name, n, vars, graph) ==
    /\ definition' = Added(name, n)
    /\ meant' = (name :> [vars |-> vars, graph |-> graph,
                          with |-> Restrict(definition,
                                            {graph[i].label : i \in DOMAIN graph}
                                              \cap DOMAIN definition)])
                  @@ meant

=============================================================================
