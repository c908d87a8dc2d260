--------------------------- MODULE GraphInvariant ---------------------------
(***************************************************************************)
(* The inductive invariant of GraphReducer, part by part: the bounds of    *)
(* the spine stack, what each place of the program has at hand, the        *)
(* parser's stack, and the shape of the graphs with their reference counts *)
(* (heap parts in NodeHeapProofs).                                         *)
(***************************************************************************)
EXTENDS GraphReducer, NodeHeapProofs

\* An element of the spine stack.
Element == [node : Address, depth : Nat \ {0}]

\* A depth never exceeds the position of the element it is recorded in.
DepthBounded == \A i \in DOMAIN stack : stack[i].depth <= i

\* The array has room for one more element than the stack holds.
StackRoom ==
    /\ old_spine_stack => stackSize >= 2
    /\ stack # <<>> => Len(stack) < stackSize

\* During a walk the spine stack exists, even when it is empty.
LoopRoom == pc \in Reducing => stackSize >= 2

\* While perform_reduction is under way the spine it will pop is there, and
\* an element below it.
PopBounded ==
    pc \in {"store", "incref", "freeing", "continue?", "settle"} =>
        pop_stack_cnt >= 2 /\ pop_stack_cnt < Len(stack)

\* The cycle history is empty outside a reduction, and inside one when cycles
\* are not watched for.
HistoryBounded ==
    pc \in {"prompt", "parsing", "returned", "release"} \/ ~setting.cycle_detection
        => cycle_stack = {}

\* The invariant of the spine stack and the cycle history.
IInv ==
    /\ TypeOK
    /\ DepthBounded
    /\ StackRoom
    /\ LoopRoom
    /\ PopBounded
    /\ HistoryBounded

-----------------------------------------------------------------------------
\* What each place in the program has, and has not, at hand.
Control ==
    /\ pc \notin {"parsing", "freeing", "release"} => todo = <<>>
    /\ pc \notin Reducing \cup {"exited"} => stack = <<>>
    /\ pc \notin {"store", "incref"} => contractum = Null
    /\ pc \in {"prompt", "parsing"} => root = Null
    /\ pc = "prompt" => allocated = 0 /\ ~reduction_interrupted
    /\ reduction_interrupted /\ ~part_interrupted => pc \in {"returned", "release"}
    /\ part_interrupted => reduction_interrupted

\* The parser's stack holds one graph for each part that is not yet under an
\* application, the one being reduced apart.
ParserSound ==
    /\ pc = "prompt" => typed = <<>> /\ values = <<>>
    /\ pc \notin {"prompt", "exited"} =>
          \E e \in Expressions : \E i \in 0..Len(e) :
             /\ typed = SubSeq(e, i + 1, Len(e))
             /\ GraphsAfter(e, i) = Len(values) + (IF pc = "parsing" THEN 0 ELSE 1)
    /\ Underway /\ typed # <<>> => Head(typed) = Reduce
    /\ pc = "release" => typed = <<>>

-----------------------------------------------------------------------------
\* The statement has not been interrupted: its counts are exact.
Uninterrupted == ~reduction_interrupted /\ pc \notin {"prompt", "exited"}

\* References that are no edges: reduce_tree's to the root; and between store
\* and count, the redex's that is no longer an edge, and the contractum's that
\* is not counted yet.
Holders == [n \in Address |-> Bit(Underway /\ n = root)
                                + Bit(pc = "incref" /\ n = RedexNode(stack))
                                - Bit(pc = "incref" /\ n = contractum)]

\* Every node has a reference, is a value of the parser's stack or is the
\* contractum.
NoGarbage ==
    \A n \in InUse : refcnt[n] = 0 =>
        \/ \E i \in DOMAIN values : values[i] = n
        \/ pc \in {"store", "incref"} /\ n = contractum

\* The nodes reduce_tree adds above the expression.
Dummies == {root, right[root]}

\* Nothing but the root holds the dummy nodes.
DummiesApart ==
    Underway =>
        /\ root \in Parents /\ right[root] \in Parents /\ root # right[root]
        /\ left[right[root]] = Null /\ right[right[root]] = Null
        /\ left[root] \in InUse \ Dummies
        /\ \A p \in Parents \ {root} : left[p] \notin Dummies /\ right[p] \notin Dummies

\* A node that the free_node calls under way will release.
Doomed(p) ==
    /\ refcnt[p] = 1
    /\ \/ Pending(p) > 0
       \/ \E q \in Parents : refcnt[q] = 1 /\ Pending(q) > 0 /\ right[q] = p

\* Applications have two children, the dummies apart.
HollowOnly ==
    pc # "release" =>
        \A p \in Parents : left[p] = Null \/ right[p] = Null =>
            (Underway /\ p = right[root]) \/ (pc = "parsing" /\ Doomed(p))

\* The parser's values are the roots of graphs of their own.
ValuesSound(graph) ==
    /\ \A i \in DOMAIN values :
          values[i] \in InUse /\ refcnt[values[i]] = 0 /\ graph[values[i]] = i
    /\ Underway => graph[root] = Len(values) + 1

\* The graphs are what the reference counts say. level grows from parent to
\* child, and graph tells which of the parser's graphs a node belongs to.
GraphSound(level, graph) ==
    /\ CountsExact(Holders)
    /\ Ordered(level, graph)
    /\ CallsInUse
    /\ NoGarbage
    /\ DummiesApart
    /\ HollowOnly
    /\ ValuesSound(graph)

\* The elements of the spine stack that are not above the node the contractum
\* is linked to.
Kept == IF pc \in {"loop", "store"} THEN Len(stack) ELSE Len(stack) - pop_stack_cnt

\* The spine stack is a path down the graph under reduction.
StackSound(level, graph) ==
    pc \in Reducing /\ stack # <<>> =>
        /\ stack[1] = [node |-> root, depth |-> 1]
        /\ updateable[root] = "left"
        /\ \A i \in 1..Kept : /\ stack[i].node \in InUse /\ graph[stack[i].node] = graph[root]
                              /\ i # 1 => stack[i].node \notin Dummies
        /\ \A i \in 1..Kept - 1 : LeadsOn(stack[i], stack[i + 1])
        /\ \A i, j \in 1..Kept : i < j => level[stack[i].node] < level[stack[j].node]

\* The contractum belongs below the redex's parent.
ContractumSound(level, graph) ==
    /\ pc = "store" => /\ contractum \in InUse \ Dummies /\ graph[contractum] = graph[root]
                       /\ level[RedexParent(stack)] < level[contractum]
    /\ pc = "incref" => /\ contractum \in InUse /\ graph[contractum] = graph[root]
                        /\ refcnt[contractum] >= 0 /\ RedexNode(stack) \in InUse

\* The walk does not turn right at the dummy root, nor up.
DirSound == pc = "loop" /\ stack # <<>> /\ dir # "left" => TOPNODE(stack) # root

\* reduce_graph's walk and the contraction under way fit the graph.
WalkSound(level, graph) ==
    StackSound(level, graph) /\ ContractumSound(level, graph) /\ DirSound

\* The heap, until an interrupted part is handed to the parser; and the graphs
\* and the walk, until a signal ends a reduction.
HeapInv ==
    /\ ~part_interrupted => ListInv
    /\ Uninterrupted => \E level, graph \in [Address -> Nat] :
                           GraphSound(level, graph) /\ WalkSound(level, graph)

-----------------------------------------------------------------------------
\* What holds of the interpreter at every step, the heap included.
GInv == IInv /\ Control /\ ParserSound /\ HeapInv

-----------------------------------------------------------------------------
(* Normal forms: what the walk leaves behind. A position is a node and the  *)
(* number of arguments that follow it on its spine, reduction_count's depth. *)

\* The positions in W are in use, none is a redex, and W has their children.
RedexFree(W) ==
    \A n \in Address, depth \in Nat : <<n, depth>> \in W =>
       /\ n \in InUse
       /\ IF label[n] = App THEN <<left[n], depth + 1>> \in W /\ <<right[n], 0>> \in W
                            ELSE ~RedexAt(n, depth)

\* The elements of the spine stack whose way down is not in question: the top
\* in a walk, and everything from the redex on in a contraction, are.
Passed == IF pc = "loop" THEN Len(stack) - 1 ELSE Len(stack) - pop_stack_cnt

\* Where the path turns right, the left branch has been walked.
LeftBranchesWalked(W) ==
    pc \in Reducing =>
        \A i \in 1..Passed :
            /\ label[stack[i].node] = App
            /\ \/ updateable[stack[i].node] = "left"
               \/ /\ updateable[stack[i].node] = "right"
                  /\ <<left[stack[i].node], stack[i].depth - 1>> \in W

\* dir tells what of the top node has been walked. The depth recorded beside
\* a node is two more than its position's.
TopWalked(W) ==
    pc = "loop" /\ stack # <<>> =>
        /\ dir = "right" => <<left[top], DEPTH(stack) - 1>> \in W
        /\ dir = "up" => <<top, DEPTH(stack) - 2>> \in W

\* A walk that has emptied the stack has been everywhere.
AllWalked(W) ==
    (pc = "loop" /\ stack = <<>>) \/ (pc = "returned" /\ grr = "NORMAL_FORM") =>
        <<left[root], 0>> \in W

\* What is being contracted is a redex.
RedexInHand ==
    pc = "store" =>
        Contractible(stack) /\ pop_stack_cnt = Rule[label[top]].required_depth + 1

\* Behind the walk there is no redex.
WalkedSound(W) ==
    /\ RedexFree(W)
    /\ LeftBranchesWalked(W)
    /\ TopWalked(W)
    /\ AllWalked(W)
    /\ RedexInHand

\* Until a signal ends a reduction, there is such a set.
NormalInv == Uninterrupted => \E W \in SUBSET (Address \X Nat) : WalkedSound(W)

=============================================================================
