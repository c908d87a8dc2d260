---------------------------- MODULE GraphReducer ----------------------------
(***************************************************************************)
(* One statement after another at the prompt: the expression is parsed     *)
(* into a graph, reduce_tree puts a dummy root above it and reduce_graph   *)
(* (graph.c) walks it with the spine stack (spine_stack.c), contracting    *)
(* the redexes it meets (reduction_rule.c), watched by the cycle detector  *)
(* (cycle_detector.c), the contraction limit, the single-step prompt and   *)
(* signals.  Afterwards the graph is released and the arena reset.         *)
(* "reduce" inside the expression does all this to a part of it while the  *)
(* rest is still to be parsed, and hands the result to the parser.         *)
(***************************************************************************)
EXTENDS NodeHeap

CONSTANTS
    Expressions,        \* the expressions a user may type, see IsExpression
    Settings,           \* values of cycles, count, timeout and step
    InitialStackSize,   \* argument of new_spine_stack (64 in the code)
    CounterCap,         \* BOUND: where reduction_counter stops counting
    Signals             \* which signals may arrive during a reduction

\* How many graphs the parser has in hand after the first i of its actions.
GraphsAfter(e, i) == Cardinality({j \in 1..i : e[j] \in Combinators \cup Variables})
                       - Cardinality({j \in 1..i : e[j] = App})

\* An expression, in the order in which the parser's actions run: an
\* application, or a "reduce", comes after what it applies to.
IsExpression(e) ==
    /\ e \in Seq(Label \cup {Reduce})
    /\ \A i \in DOMAIN e : GraphsAfter(e, i) >= 1
    /\ GraphsAfter(e, Len(e)) = 1

Setting == [cycle_detection : BOOLEAN, max_reduction_count : Nat,
            reduction_timeout : BOOLEAN, single_step : BOOLEAN]

ASSUME ReducerAssumption ==
    /\ \A e \in Expressions : IsExpression(e)
    /\ Settings \subseteq Setting
    /\ InitialStackSize \in Nat \ {0, 1}
    /\ CounterCap \in Nat
    /\ \A s \in Settings : s.max_reduction_count < CounterCap
    /\ Signals \subseteq {"Interrupt", "Timeout"}

VARIABLES
    pc,                 \* where the interpreter is, see Places
    setting,            \* the interpreter's options
    typed,              \* what the parser has still to act on
    values,             \* its stack: the graphs of the parts it has parsed
    root,               \* the dummy root of reduce_tree, Null at the prompt
    stack,              \* spine stack, bottom first
    stackSize,          \* its capacity; 0 before the first one is created
    old_spine_stack,    \* is a stack left for the next reduction to reuse?
    dir,
    pop_stack_cnt,
    contractum,         \* the node perform_reduction puts in the graph
    reduction_counter,
    cycle_stack,        \* canonical forms kept by the cycle detector
    grr,                \* the statement's enum graphReductionResult
    reduction_interrupted,
    part_interrupted    \* history: was an interrupted part handed to the parser?

walk == <<stack, stackSize, old_spine_stack, dir>>
redex == <<pop_stack_cnt, contractum>>
watch == <<reduction_counter, cycle_stack>>
statement == <<root, grr, reduction_interrupted, part_interrupted>>
parser == <<typed, values>>

vars == <<heap, pc, setting, parser, walk, redex, watch, statement>>

Places == {
    "prompt",       \* waiting for a statement
    "parsing",      \* the parser builds the graph, todo is left of a "reduce"
    "loop",         \* top of reduce_graph's while loop
    "store",        \* contractum built, not yet linked (reduction_rule.c:203)
    "incref",       \* linked, not yet counted (reduction_rule.c:204)
    "freeing",      \* free_node on the redex (reduction_rule.c:205)
    "continue?",    \* read_line waits for an answer (graph.c:152)
    "settle",       \* rest of the loop body after a contraction
    "returned",     \* reduce_graph is done, signals still caught
    "release",      \* free_node on the dummy root (grammar.y:284), then cleanup
    "exited" }

Reducing == {"loop", "store", "incref", "freeing", "continue?", "settle"}

\* Is there a graph under a dummy root?
Underway == pc \in Reducing \cup {"returned"}

Result == {"UNKNOWN", "NORMAL_FORM", "CYCLE_DETECTED", "REDUCTION_LIMIT", "INTERRUPT"}

-----------------------------------------------------------------------------
(* The spine stack, with the macros of spine_stack.h on 1-based positions  *)

TOPNODE(s) == s[Len(s)].node
DEPTH(s) == s[Len(s)].depth
PARENTNODE(s, n) == s[Len(s) - n].node
POP(s, n) == SubSeq(s, 1, Len(s) - n)

\* Plausible slip: the mark that starts a right branch's own count ignored.
pushnodeWithoutMark(n, mark) ==
    /\ stack' = Append(stack, [node |-> n, depth |-> DEPTH(stack) + 1])
    /\ stackSize' = IF Len(stack) + 1 >= stackSize THEN 2 * stackSize ELSE stackSize

\* Plausible slip: mark taken for the depth even when it is 0.
pushnodeMarkAsDepth(n, mark) ==
    /\ stack' = Append(stack, [node |-> n, depth |-> mark])
    /\ stackSize' = IF Len(stack) + 1 >= stackSize THEN 2 * stackSize ELSE stackSize

\* Plausible slip: the stack grows one push too late.
pushnodeLateResize(n, mark) ==
    /\ stack' = Append(stack, [node |-> n,
                               depth |-> IF mark # 0 THEN mark ELSE DEPTH(stack) + 1])
    /\ stackSize' = IF Len(stack) + 1 > stackSize THEN 2 * stackSize ELSE stackSize

\* The write comes first, then the test that doubles the array.
pushnode(n, mark) ==
    /\ stack' = Append(stack, [node |-> n,
                               depth |-> IF mark # 0 THEN mark ELSE DEPTH(stack) + 1])
    /\ stackSize' = IF Len(stack) + 1 >= stackSize THEN 2 * stackSize ELSE stackSize

-----------------------------------------------------------------------------
(* Recursive walks over the graph                                          *)

\* canonicalize: pre-order, "." for an application, a blank before an atom
\* that is a right child.
Canonical[n \in Address] ==
    IF label[n] = App
    THEN <<".">> \o Canonical[left[n]]
                 \o (IF label[right[n]] = App THEN <<>> ELSE <<" ">>)
                 \o Canonical[right[n]]
    ELSE <<label[n]>>

\* An atom with a rule, under at least as many applications of its spine as
\* the rule needs.
RedexAt(n, depth) ==
    label[n] \in Combinators /\ depth >= Rule[label[n]].required_depth

\* reduction_count of a graph of live nodes: how many such atoms it has.
ReductionCount[n \in Live \cup {Null}] ==
    [depth \in Nat |->
       IF n = Null THEN 0
       ELSE IF label[n] = App
            THEN ReductionCount[left[n]][depth + 1] + ReductionCount[right[n]][0]
            ELSE IF RedexAt(n, depth) THEN 1 ELSE 0]

-----------------------------------------------------------------------------
Init ==
    /\ HeapInit
    /\ pc = "prompt"
    /\ setting \in Settings
    /\ typed = <<>>
    /\ values = <<>>
    /\ root = Null
    /\ stack = <<>>
    /\ stackSize = 0
    /\ old_spine_stack = FALSE
    /\ dir = "left"
    /\ pop_stack_cnt = 0
    /\ contractum = Null
    /\ reduction_counter = 0
    /\ cycle_stack = {}
    /\ grr = "UNKNOWN"
    /\ reduction_interrupted = FALSE
    /\ part_interrupted = FALSE

\* "cycles on", "count 3", "timeout 5", "step off": commands at the prompt.
Configure ==
    /\ pc = "prompt"
    /\ setting' \in Settings
    /\ UNCHANGED <<heap, pc, parser, statement, walk, redex, watch>>

\* At the prompt.
StartStatement(e) ==
    /\ typed' = e
    /\ pc' = "parsing"
    /\ UNCHANGED <<heap, setting, values, statement, walk, redex, watch>>

-----------------------------------------------------------------------------
(* The parser's actions                                                    *)

Parsing == pc = "parsing" /\ todo = <<>>

\* One new node, and what is left of the parser's stack below its children.
ParseNode(cell, rest) ==
    /\ NewNodes(<<cell>>)
    /\ refcnt' = Counted(<<cell>>)
    /\ updateable' = Cleared(<<cell>>)
    /\ values' = Append(rest, Fresh(1))
    /\ typed' = Tail(typed)
    /\ UNCHANGED <<pc, setting, statement, walk, redex, watch>>

\* new_term
ParseTerm ==
    /\ Parsing
    /\ typed # <<>>
    /\ Head(typed) \in Combinators \cup Variables
    /\ ParseNode([label |-> Head(typed), left |-> Null, right |-> Null], values)

\* new_application
ParseApplication ==
    LET k == Len(values)
    IN  /\ Parsing
        /\ typed # <<>>
        /\ Head(typed) = App
        /\ k >= 2
        /\ ParseNode([label |-> App, left |-> values[k - 1], right |-> values[k]],
                     SubSeq(values, 1, k - 2))

\* reduce_tree, on the part after "reduce" or on the whole expression: a
\* dummy node and the dummy root, then the first lines of reduce_graph.
StartReduction ==
    LET cells == << [label |-> App, left |-> Null, right |-> Null],
                    [label |-> App, left |-> values[Len(values)], right |-> Fresh(1)] >>
        new_root == Fresh(2)
        size == IF old_spine_stack THEN stackSize ELSE InitialStackSize
    IN  /\ Parsing
        /\ typed # <<>> => Head(typed) = Reduce
        /\ values # <<>>
        /\ NewNodes(cells)
        /\ refcnt' = [Counted(cells) EXCEPT ![new_root] = @ + 1]
        /\ updateable' = [Cleared(cells) EXCEPT ![new_root] = "left"]
        /\ values' = SubSeq(values, 1, Len(values) - 1)
        /\ root' = new_root
        /\ stack' = << [node |-> new_root, depth |-> 1] >>
        /\ stackSize' = IF 1 >= size THEN 2 * size ELSE size
        /\ dir' = "left"
        /\ pc' = "loop"
        /\ UNCHANGED <<setting, typed, old_spine_stack, redex, watch, grr,
                       reduction_interrupted, part_interrupted>>

-----------------------------------------------------------------------------
(* reduce_graph: the walk                                                  *)

top == TOPNODE(stack)

AtApplication == pc = "loop" /\ stack # <<>> /\ label[top] = App

PushLeft ==
    /\ AtApplication /\ dir = "left"
    /\ updateable' = [updateable EXCEPT ![top] = "left"]
    /\ pushnode(left[top], 0)
    /\ dir' = "left"
    /\ UNCHANGED <<label, left, right, refcnt, allocated, freeList, todo, pc,
                   setting, parser, statement, old_spine_stack, redex, watch>>

PushRight ==
    /\ AtApplication /\ dir = "right"
    /\ updateable' = [updateable EXCEPT ![top] = "right"]
    /\ pushnode(right[top], 2)
    /\ dir' = "left"
    /\ UNCHANGED <<label, left, right, refcnt, allocated, freeList, todo, pc,
                   setting, parser, statement, old_spine_stack, redex, watch>>

\* Plausible slip: the arguments on the spine counted without the dummy root.
ContractibleTooSoon(s) ==
    /\ label[TOPNODE(s)] \in Combinators
    /\ DEPTH(s) >= Rule[label[TOPNODE(s)]].required_depth + 1

\* The top of the stack is a primitive with all its arguments above it.
Contractible(s) ==
    /\ label[TOPNODE(s)] \in Combinators
    /\ DEPTH(s) >= Rule[label[TOPNODE(s)]].required_depth + 2

\* Plausible slip: the walk goes up as soon as a left branch is done.
UpwardSkippingRight(n) == "up"

\* Which way to go at a node just reached from below.
Upward(n) == IF n # root /\ updateable[n] = "left" THEN "right" ELSE "up"

\* Done with the top node: a subtree walked to its end, or an atom that
\* cannot be contracted.  Reaching the dummy root empties the stack.
PopUp ==
    /\ pc = "loop" /\ stack # <<>>
    /\ \/ label[top] = App /\ dir = "up"
       \/ label[top] # App /\ ~Contractible(stack)
    /\ LET rest == POP(stack, 1)
           n == TOPNODE(rest)
       IN  /\ dir' = Upward(n)
           /\ stack' = IF n = root THEN POP(rest, 1) ELSE rest
    /\ UNCHANGED <<heap, pc, setting, parser, statement, stackSize, old_spine_stack,
                   redex, watch>>

-----------------------------------------------------------------------------
(* perform_reduction                                                       *)

\* reduce_rule: the right-hand side of the rule, its arguments shared.
BuildContractum ==
    /\ pc = "loop" /\ stack # <<>> /\ Contractible(stack)
    /\ LET r == Rule[label[top]]
           node(o) == IF o > 0 THEN right[PARENTNODE(stack, o)] ELSE Fresh(-o)
           cells == [i \in DOMAIN r.apps |-> [label |-> App,
                                              left |-> node(r.apps[i].func),
                                              right |-> node(r.apps[i].arg)]]
       IN  /\ NewNodes(cells)
           /\ refcnt' = Counted(cells)
           /\ updateable' = Cleared(cells)
           /\ contractum' = node(r.result)
           /\ pop_stack_cnt' = r.required_depth + 1
    /\ pc' = "store"
    /\ UNCHANGED <<setting, parser, statement, walk, watch>>

\* The redex is required_depth below the top of the stack.
RedexNode(s) == PARENTNODE(s, pop_stack_cnt - 1)

\* The macro does not parenthesise N: top - 1 - required_depth - 1, the node
\* above the redex.
RedexParent(s) == PARENTNODE(s, pop_stack_cnt)

StoreContractum ==
    /\ pc = "store"
    /\ LET m == RedexParent(stack)
       IN  IF updateable[m] = "left"
           THEN left' = [left EXCEPT ![m] = contractum] /\ UNCHANGED right
           ELSE right' = [right EXCEPT ![m] = contractum] /\ UNCHANGED left
    /\ pc' = "incref"
    /\ UNCHANGED <<label, refcnt, updateable, allocated, freeList, todo,
                   setting, parser, statement, walk, redex, watch>>

\* Plausible slip: the contractum's new reference is not counted.
ContractumUncounted == refcnt

ContractumCounted == [refcnt EXCEPT ![contractum] = @ + 1]

CountContractum ==
    /\ pc = "incref"
    /\ refcnt' = ContractumCounted
    /\ todo' = FreeCall(RedexNode(stack))
    /\ contractum' = Null
    /\ pc' = "freeing"
    /\ UNCHANGED <<label, left, right, updateable, allocated, freeList,
                   setting, parser, statement, walk, pop_stack_cnt, watch>>

FreeNode ==
    /\ pc \in {"freeing", "release", "parsing"}
    /\ FreeStep
    /\ UNCHANGED <<pc, setting, parser, walk, redex, watch, statement>>

ContractionDone ==
    /\ pc = "freeing" /\ todo = <<>>
    /\ pc' = IF setting.single_step THEN "continue?" ELSE "settle"
    /\ UNCHANGED <<heap, setting, parser, statement, walk, redex, watch>>

-----------------------------------------------------------------------------
(* reduce_graph: after a contraction, and its exits                        *)

\* Plausible slip: the history survives the reduction it belongs to.
DetectionNotReset == cycle_stack

\* C reset_detection();
DetectionReset == IF setting.cycle_detection THEN {} ELSE cycle_stack

ExitReduceGraph(result) ==
    /\ grr' = result
    /\ old_spine_stack' = TRUE
    /\ stack' = <<>>
    /\ pop_stack_cnt' = 0
    /\ cycle_stack' = DetectionReset
    /\ pc' = "returned"
    /\ UNCHANGED <<heap, setting, parser, root, stackSize, dir, contractum,
                   reduction_interrupted, part_interrupted>>

\* Plausible slip: the contraction is not counted.
NotIncremented == reduction_counter

\* ++reduction_counter;
Incremented ==
    IF reduction_counter < CounterCap THEN reduction_counter + 1
                                      ELSE reduction_counter

CycleFound == setting.cycle_detection /\ Canonical[left[root]] \in cycle_stack

LimitPassed ==
    /\ setting.max_reduction_count > 0
    /\ Incremented > setting.max_reduction_count

StopOnCycle ==
    /\ pc = "settle" /\ CycleFound
    /\ reduction_counter' = Incremented
    /\ ExitReduceGraph("CYCLE_DETECTED")

StopAtLimit ==
    /\ pc = "settle" /\ ~CycleFound /\ LimitPassed
    /\ reduction_counter' = Incremented
    /\ ExitReduceGraph("REDUCTION_LIMIT")

\* The redex's spine is popped and the walk goes on from the node above it,
\* into the branch that now holds the contractum.
KeepReducing ==
    /\ pc = "settle" /\ ~CycleFound /\ ~LimitPassed
    /\ LET rest == POP(stack, pop_stack_cnt)
       IN  /\ stack' = rest
           /\ dir' = IF updateable[TOPNODE(rest)] = "left" THEN "left" ELSE "right"
    /\ reduction_counter' = Incremented
    /\ cycle_stack' = IF setting.cycle_detection
                      THEN cycle_stack \cup {Canonical[left[root]]}
                      ELSE cycle_stack
    /\ pop_stack_cnt' = 0
    /\ pc' = "loop"
    /\ UNCHANGED <<heap, setting, parser, statement, stackSize, old_spine_stack,
                   contractum>>

ReachNormalForm ==
    /\ pc = "loop" /\ stack = <<>>
    /\ ExitReduceGraph("NORMAL_FORM")
    /\ UNCHANGED reduction_counter

-----------------------------------------------------------------------------
(* Leaving reduce_graph from outside                                       *)

\* siglongjmp to reduce_tree, and its else branch: whatever reduce_graph and
\* free_node were doing is abandoned, and the spine stack with it.
LongJump ==
    /\ grr' = "INTERRUPT"
    /\ reduction_interrupted' = TRUE
    /\ cycle_stack' = DetectionReset
    /\ stack' = <<>>
    /\ pop_stack_cnt' = 0
    /\ contractum' = Null
    /\ todo' = <<>>
    /\ pc' = "returned"
    /\ UNCHANGED <<label, left, right, refcnt, updateable, allocated,
                   freeList, setting, parser, root, stackSize, old_spine_stack, dir,
                   reduction_counter, part_interrupted>>

\* sigint_handler, for SIGINT at any time and SIGALRM when alarm() was set.
\* It is installed until reduce_tree returns, after reduce_graph has.
Interrupt(s) ==
    /\ pc \in Reducing \cup {"returned"}
    /\ grr # "INTERRUPT"
    /\ s = "Timeout" => setting.reduction_timeout
    /\ LongJump

\* read_line: "n" and "q" terminate the reduction, "c" ends single-stepping,
\* "x" and "e" exit the interpreter, anything else goes on.
ReadLine ==
    /\ pc = "continue?"
    /\ \/ LongJump
       \/ /\ pc' \in {"settle", "exited"}
          /\ UNCHANGED <<heap, setting, parser, statement, walk, redex, watch>>
       \/ /\ pc' = "settle"
          /\ setting' = [setting EXCEPT !.single_step = FALSE]
          /\ UNCHANGED <<heap, parser, statement, walk, redex, watch>>

-----------------------------------------------------------------------------
(* The statement's end                                                     *)

\* Plausible slip: the dummy root's reference is not taken back.
ResultCounted == refcnt

ResultUncounted == [refcnt EXCEPT ![left[root]] = @ - 1]

\* What "reduce" left under the dummy root goes to the parser, however the
\* reduction ended, and the dummies are released.
TakeResult ==
    /\ pc = "returned"
    /\ typed # <<>>
    /\ refcnt' = ResultUncounted
    /\ values' = Append(values, left[root])
    /\ left' = [left EXCEPT ![root] = Null]
    /\ todo' = FreeCall(root)
    /\ typed' = Tail(typed)
    /\ root' = Null
    /\ grr' = "UNKNOWN"
    /\ reduction_counter' = 0
    /\ dir' = "left"
    /\ pc' = "parsing"
    /\ part_interrupted' = reduction_interrupted
    /\ UNCHANGED <<label, right, updateable, allocated, freeList, setting,
                   reduction_interrupted, stack, stackSize, old_spine_stack,
                   redex, cycle_stack>>

\* The result of the statement has been printed: free_node($$).
ReleaseGraph ==
    /\ pc = "returned"
    /\ typed = <<>>
    /\ todo' = FreeCall(root)
    /\ pc' = "release"
    /\ UNCHANGED <<label, left, right, refcnt, updateable, allocated,
                   freeList, setting, parser, statement, walk, redex, watch>>

\* top_level_cleanup.  The locals of the statement are gone.
Cleanup ==
    /\ pc = "release" /\ todo = <<>>
    /\ ResetNodeAllocation
    /\ reduction_interrupted' = FALSE
    /\ part_interrupted' = FALSE
    /\ root' = Null
    /\ grr' = "UNKNOWN"
    /\ reduction_counter' = 0
    /\ dir' = "left"
    /\ pc' = "prompt"
    /\ UNCHANGED <<setting, parser, stack, stackSize, old_spine_stack, redex,
                   cycle_stack>>

Exited == pc = "exited" /\ UNCHANGED vars

-----------------------------------------------------------------------------
\* What the interpreter does by itself once a statement has been entered.
Work ==
    \/ ParseTerm \/ ParseApplication \/ StartReduction \/ TakeResult
    \/ PushLeft \/ PushRight \/ PopUp
    \/ BuildContractum \/ StoreContractum \/ CountContractum
    \/ FreeNode \/ ContractionDone
    \/ StopOnCycle \/ StopAtLimit \/ KeepReducing \/ ReachNormalForm
    \/ ReleaseGraph \/ Cleanup

Next ==
    \/ Configure
    \/ pc = "prompt" /\ \E e \in Expressions : StartStatement(e)
    \/ Work
    \/ \E s \in Signals : Interrupt(s)
    \/ ReadLine
    \/ Exited

Spec == Init /\ [][Next]_vars

\* The process is scheduled, and an alarm that was set goes off.  Nothing
\* makes a user type: neither a statement, nor Control-C, nor an answer.
FairSpec ==
    /\ Spec
    /\ WF_vars(Work)
    /\ WF_vars("Timeout" \in Signals /\ Interrupt("Timeout"))

-----------------------------------------------------------------------------
(* Properties                                                              *)

\* Every variable has its type.
TypeOK ==
    /\ HeapTypeOK
    /\ pc \in Places
    /\ setting \in Setting
    /\ typed \in Seq(Label \cup {Reduce})
    /\ values \in Seq(Address)
    /\ root \in Address
    /\ stack \in Seq([node : Address, depth : Nat \ {0}])
    /\ stackSize \in Nat
    /\ old_spine_stack \in BOOLEAN
    /\ dir \in {"left", "right", "up"}
    /\ pop_stack_cnt \in Nat
    /\ contractum \in Address
    /\ reduction_counter \in 0..CounterCap
    /\ grr \in Result
    /\ reduction_interrupted \in BOOLEAN
    /\ part_interrupted \in BOOLEAN

\* When a primitive is contracted, every argument reduce_rule reads, the
\* redex and the node above it are elements of the spine stack: the depth
\* recorded beside an element never promises more than the array holds.
ContractionInBounds ==
    pc = "loop" /\ stack # <<>> /\ Contractible(stack)
        => Len(stack) >= Rule[label[top]].required_depth + 2

\* pushnode writes before it compares with the size: the element it writes
\* is inside the array all the same, also in a stack reused by a later
\* statement.
StackWriteInBounds == stack # <<>> => Len(stack) < stackSize

LeadsOn(element, next) ==
    LET n == element.node
    IN  /\ label[n] = App
        /\ \/ /\ updateable[n] = "left"
              /\ next = [node |-> left[n], depth |-> element.depth + 1]
           \/ /\ updateable[n] = "right"
              /\ next = [node |-> right[n], depth |-> 2]

\* The spine stack is the path from the dummy root to the node in hand: each
\* application's updateable leads to the next element, and each depth counts
\* from the last right branch.  About uninterrupted statements: an interrupted
\* part may hand over a graph with freed nodes in it.
StackIsPath ==
    pc \in {"loop", "store"} /\ stack # <<>> /\ ~reduction_interrupted =>
        /\ stack[1] = [node |-> root, depth |-> 1]
        /\ \A i \in 1..Len(stack)-1 : LeadsOn(stack[i], stack[i + 1])

\* The nodes reachable from n.
Subgraph[n \in Address] ==
    IF n = Null THEN {}
    ELSE {n} \cup (IF label[n] = App
                   THEN Subgraph[left[n]] \cup Subgraph[right[n]] ELSE {})

\* Nothing that can still be reached has been given back to the free list:
\* neither the graph under reduction, nor a contractum not yet linked, nor the
\* part of the spine stack that stays after the redex is popped, nor what the
\* parser has made of the rest of the expression.  About uninterrupted
\* statements, like StackIsPath.
NoDanglingReference ==
    pc \in Reducing \cup {"parsing", "returned"} /\ ~reduction_interrupted =>
        Subgraph[root] \cup Subgraph[contractum]
          \cup (UNION {Subgraph[values[i]] : i \in DOMAIN values})
          \cup {stack[i].node : i \in 1..Len(stack)-pop_stack_cnt} \subseteq Live

\* Reference counts are exact whenever the reducer is between two statements
\* of perform_reduction: one for each field that holds the node, one for
\* reduce_tree's hold on the root, one for each free_node call still to run,
\* none for the parser's stack.
\* A signal may leave them inexact, so this is about uninterrupted runs.
RefCountsExact ==
    pc \in {"parsing", "loop", "freeing", "settle", "returned", "release"}
      /\ ~reduction_interrupted =>
        \A n \in Live :
            refcnt[n] = Edges(n) + Pending(n)
                          + (IF n = root /\ pc # "release" THEN 1 ELSE 0)

\* The free list is a list, even when a signal cut a contraction or a
\* free_node short.  Not so once the parser goes on with a part that was
\* interrupted: a node freed too early is counted again and freed again.
FreeListIntact == ~part_interrupted => FreeListChained

\* reset_node_allocation's self-check finds nothing to complain about: after
\* an uninterrupted statement every node is back on the free list.
AllNodesReturned ==
    pc = "release" /\ todo = <<>> /\ ~reduction_interrupted => AllOnFreeList

\* The interpreter's "Problem: %d reductions remaining" is never printed: a
\* walk that empties the spine stack leaves no redex anywhere in the term.
\* Like StackIsPath, about statements that no signal has interrupted.
NormalFormHasNoRedex ==
    pc = "returned" /\ grr = "NORMAL_FORM" /\ ~reduction_interrupted =>
        ReductionCount[left[root]][0] = 0

\* No reduction is compared with the terms of an earlier one.
HistoryIsPerReduction ==
    pc \in {"prompt", "parsing", "returned", "release"} => cycle_stack = {}

\* With a contraction limit or a timeout every statement comes back to the
\* prompt, unless the single-step prompt keeps it.
StatementReturns ==
    ( /\ pc = "parsing"
      /\ ~setting.single_step
      /\ setting.max_reduction_count > 0 \/ setting.reduction_timeout )
    ~> pc = "prompt"

\* node.c:282-284 reports "Freeing node %d, negative ref cnt %d" when free_node
\* takes a count below zero: refuted.  A signal between the store and the count
\* of perform_reduction (reduction_rule.c:203-204) leaves a new contractum in
\* the graph with the count 0, and the release of the graph makes that -1.
NoNegativeCount == \A n \in Node : refcnt[n] >= 0

=============================================================================
