------------------------- MODULE BracketAbstraction -------------------------
(***************************************************************************)
(* A session that enters abstraction rules and then statements whose       *)
(* expression is "[v1, ..., vk] E", or definitions of such an expression:  *)
(* perform_bracket_abstraction and perform_replacement of brack.c on the   *)
(* reference-counted graphs of node.c, and the code of grammar.y around    *)
(* them.                                                                   *)
(*                                                                         *)
(* The recursion of the two functions is a stack of pending calls (tasks)  *)
(* with a stack of what the finished ones returned (values), so that a     *)
(* signal can cut it between any two changes of the heap.                  *)
(***************************************************************************)
EXTENDS Abbreviations

CONSTANTS
    Statements(_),  \* BOUND: what the user may type after some rules:
                    \* [name, vars, graph], with NoName for an expression
    Interruptible   \* BOUND: the statements a user interrupts

VARIABLES
    pc,             \* where the interpreter is
    statement,      \* the statement in hand
    vars,           \* its identifiers not abstracted yet
    tmp,            \* the expression they are abstracted from
    tasks, values,
    interrupted     \* HISTORY: a signal cut this statement's abstraction

table == <<definition, meant>>

allVars == <<ruleVars, heap, primitive, table, pc, statement, vars, tmp, tasks, values,
             interrupted>>

NoName == ""

NoStatement == [name |-> NoName, vars |-> <<>>, graph |-> <<>>]

Places == {"prompt", "abstracting", "returned", "freed", "used", "done", "quit", "crashed"}

-----------------------------------------------------------------------------
(* nodes                                                                   *)

\* Plausible slip: the count is not raised, as if n were still in a graph.
ReleaseUncounted(n) ==
    /\ todo' = FreeCall(n)
    /\ UNCHANGED <<label, left, right, refcnt, updateable, allocated, freeList, primitive>>

\* Plausible slip: the count is raised and nothing released.
ReleaseKept(n) ==
    /\ refcnt' = [refcnt EXCEPT ![n] = @ + 1]
    /\ UNCHANGED <<label, left, right, updateable, allocated, freeList, todo, primitive>>

\* ++n->refcnt; free_node(n)
Release(n) ==
    /\ refcnt' = [refcnt EXCEPT ![n] = @ + 1]
    /\ todo' = FreeCall(n)
    /\ UNCHANGED <<label, left, right, updateable, allocated, freeList, primitive>>

FreeNode ==
    /\ FreeStep
    /\ UNCHANGED <<ruleVars, primitive, table, pc, statement, vars, tmp, tasks,
                   values, interrupted>>

-----------------------------------------------------------------------------
(* perform_bracket_abstraction                                             *)

\* replacements[]: the subgraphs at the leaves of a pattern, left to right.
RECURSIVE fill_in_replacements(_, _)
fill_in_replacements(pattern, expr) ==
    IF IsLeaf(pattern) THEN <<expr>>
    ELSE fill_in_replacements(pattern.left, left[expr])
           \o fill_in_replacements(pattern.right, right[expr])

RECURSIVE count_effective_leaves(_)
count_effective_leaves(pattern) ==
    IF IsLeaf(pattern) THEN 1
    ELSE count_effective_leaves(pattern.left) + count_effective_leaves(pattern.right)

var == vars[Len(vars)]

\* The rules that match, by algorithm_d; the first one is applied.
Matching(expr) ==
    {i \in DOMAIN rules : algorithm_d(rules[i].g, expr, var,
                                      count_effective_leaves(rules[i].line.pattern))}

Working(op) ==
    /\ pc = "abstracting"
    /\ todo = <<>>
    /\ tasks # <<>>
    /\ Head(tasks).op = op
    /\ UNCHANGED <<ruleVars, table, pc, statement, vars, tmp, interrupted>>

ApplyRule ==
    /\ Working("abstract")
    /\ Matching(Head(tasks).n) # {}
    /\ LET line == rules[Min(Matching(Head(tasks).n))].line
       IN  tasks' = << [op |-> "replace", template |-> line.replacement,
                        stray |-> line.stray,
                        nodes |-> fill_in_replacements(line.pattern, Head(tasks).n)] >>
                      \o Tail(tasks)
    /\ UNCHANGED <<heap, primitive, values>>

NoRule ==
    /\ Working("abstract")
    /\ Matching(Head(tasks).n) = {}
    /\ tasks' = Tail(tasks)
    /\ values' = Append(values, Null)
    /\ UNCHANGED <<heap, primitive>>

-----------------------------------------------------------------------------
(* perform_replacement                                                     *)

Numerals == <<"1", "2", "3">>       \* BOUND

\* massage_replacements: a label that is a number stands for a leaf of the
\* pattern, any other label (number -1) for itself.
NumberOf(leaf) == IF \E i \in DOMAIN Numerals : Numerals[i] = leaf.label
                  THEN (CHOOSE i \in DOMAIN Numerals : Numerals[i] = leaf.label) - 1
                  ELSE -1

\* Plausible slip: the mark on an application is overlooked.
ThenAgainLeaf(template) == IF template.abstracted /\ IsLeaf(template)
                           THEN <<[op |-> "again"]>> ELSE <<>>

\* After a node marked "[_]" its value is abstracted in turn.
ThenAgain(template) == IF template.abstracted THEN <<[op |-> "again"]>> ELSE <<>>

\* A name: the abstracted variable for "_".  Its rule field comes from the
\* template, where that of "_" was never set.
ReplaceName ==
    /\ Working("replace")
    /\ LET task == Head(tasks)
           leaf == task.template
           name == IF leaf.label = "_" THEN var ELSE leaf.label
       IN  /\ IsLeaf(leaf)
           /\ NumberOf(leaf) < 0
           /\ Build(<<[label |-> name, left |-> Null, right |-> Null]>>,
                    <<IF leaf.label = "_" THEN task.stray ELSE leaf.label \in Combinators>>)
           /\ values' = Append(values, Fresh(1))
           /\ tasks' = ThenAgain(leaf) \o Tail(tasks)

\* A number: a copy of the subgraph, or for "[_] 1" the subgraph itself.
ReplaceNumber ==
    /\ Working("replace")
    /\ LET leaf == Head(tasks).template
           source == Head(tasks).nodes[NumberOf(leaf) + 1]
       IN  /\ IsLeaf(leaf)
           /\ NumberOf(leaf) >= 0
           /\ \/ /\ leaf.abstracted
                 /\ values' = Append(values, source)
                 /\ UNCHANGED <<heap, primitive>>
              \/ /\ ~leaf.abstracted
                 /\ arena_copy_graph(source)
                 /\ values' = Append(values, Fresh(1))
           /\ tasks' = ThenAgain(leaf) \o Tail(tasks)

\* An application: both sides, then the node.
ReplaceApplication ==
    /\ Working("replace")
    /\ LET task == Head(tasks)
           template == task.template
       IN  /\ ~IsLeaf(template)
           /\ tasks' = << [task EXCEPT !.template = template.left],
                          [task EXCEPT !.template = template.right],
                          [op |-> "join"] >> \o ThenAgain(template) \o Tail(tasks)
    /\ UNCHANGED <<heap, primitive, values>>

Join ==
    /\ Working("join")
    /\ LET k == Len(values)
       IN  /\ Build(<<[label |-> App, left |-> values[k - 1], right |-> values[k]]>>,
                    <<FALSE>>)
           /\ values' = Append(SubSeq(values, 1, k - 2), Fresh(1))
    /\ tasks' = Tail(tasks)

\* tmp = r; r = perform_bracket_abstraction(var, tmp); then tmp is released.
Again ==
    /\ Working("again")
    /\ tasks' = << [op |-> "abstract", n |-> Last(values)],
                   [op |-> "release", n |-> Last(values)] >> \o Tail(tasks)
    /\ values' = Front(values)
    /\ UNCHANGED <<heap, primitive>>

\* Plausible slip: what was composed to be abstracted from is not released.
KeepTemporary ==
    /\ Working("release")
    /\ tasks' = Tail(tasks)
    /\ UNCHANGED <<heap, primitive, values>>

ReleaseTemporary ==
    /\ Working("release")
    /\ Release(Head(tasks).n)
    /\ tasks' = Tail(tasks)
    /\ UNCHANGED values

-----------------------------------------------------------------------------
(* the statement                                                           *)

\* The parser's nodes, and the call for the last identifier of the list; a
\* definition may have an expression without abstraction.
StartStatement(s) ==
    LET parsed == Parsed(s.graph)
        expression == Fresh(parsed.root)
    IN  /\ pc = "prompt"
        /\ phase = "idle"
        /\ script = <<>>
        /\ BuildGraph(parsed.graph)
        /\ statement' = s
        /\ vars' = s.vars
        /\ \/ /\ s.vars # <<>>
              /\ tmp' = expression
              /\ tasks' = <<[op |-> "abstract", n |-> expression]>>
              /\ pc' = "abstracting"
              /\ UNCHANGED values
           \/ /\ s.vars = <<>>
              /\ values' = <<expression>>
              /\ pc' = "used"
              /\ UNCHANGED <<tmp, tasks>>
        /\ UNCHANGED <<ruleVars, table, interrupted>>

Returned ==
    /\ pc = "abstracting"
    /\ todo = <<>>
    /\ tasks = <<>>
    /\ pc' = "returned"
    /\ UNCHANGED <<ruleVars, heap, primitive, table, statement, vars, tmp, tasks,
                   values, interrupted>>

\* The handler jumps out of execute_bracket_abstraction, which returns NULL.
\* Unlike reduce_tree it does not set reduction_interrupted.
Interrupt ==
    /\ pc = "abstracting"
    /\ statement \in Interruptible
    /\ pc' = "returned"
    /\ values' = <<Null>>
    /\ tasks' = <<>>
    /\ todo' = <<>>
    /\ interrupted' = TRUE
    /\ UNCHANGED <<ruleVars, label, left, right, refcnt, updateable, allocated, freeList,
                   primitive, table, statement, vars, tmp>>

ReleaseSubject ==
    /\ pc = "returned"
    /\ Release(tmp)
    /\ pc' = "freed"
    /\ UNCHANGED <<ruleVars, table, statement, vars, tmp, tasks, values, interrupted>>

\* while (curr && tmp)
NextIdentifier ==
    /\ pc = "freed"
    /\ todo = <<>>
    /\ Len(vars) > 1
    /\ values # <<Null>>
    /\ vars' = Front(vars)
    /\ tmp' = Last(values)
    /\ tasks' = <<[op |-> "abstract", n |-> Last(values)]>>
    /\ values' = <<>>
    /\ pc' = "abstracting"
    /\ UNCHANGED <<ruleVars, heap, primitive, table, statement, interrupted>>

ExpressionReady ==
    /\ pc = "freed"
    /\ todo = <<>>
    /\ Len(vars) = 1 \/ values = <<Null>>
    /\ pc' = "used"
    /\ UNCHANGED <<ruleVars, heap, primitive, table, statement, vars, tmp, tasks,
                   values, interrupted>>

\* The rest of the statement: an expression without redexes is printed and
\* released (GraphReducer has the reduction of others); NULL is skipped.
UseExpression ==
    /\ pc = "used"
    /\ statement.name = NoName
    /\ \/ values[1] = Null /\ UNCHANGED <<heap, primitive>>
       \/ values[1] # Null /\ Release(values[1])
    /\ values' = <<>>
    /\ pc' = "done"
    /\ UNCHANGED <<ruleVars, table, statement, vars, tmp, tasks, interrupted>>

\* abbreviation_add copies without a test: there is no graph to copy when
\* the abstraction failed.
Define ==
    /\ pc = "used"
    /\ statement.name # NoName
    /\ \/ /\ values[1] # Null
          /\ abbreviation_add(statement.name, values[1], statement.vars, statement.graph)
          /\ Release(values[1])
          /\ pc' = "done"
       \/ /\ values[1] = Null
          /\ pc' = "crashed"
          /\ UNCHANGED <<heap, primitive, table>>
    /\ values' = <<>>
    /\ UNCHANGED <<ruleVars, statement, vars, tmp, tasks, interrupted>>

\* top_level_cleanup
Cleanup ==
    /\ pc = "done"
    /\ todo = <<>>
    /\ ResetNodeAllocation
    /\ primitive' = [n \in Address |-> FALSE]
    /\ statement' = NoStatement
    /\ vars' = <<>>
    /\ tmp' = Null
    /\ interrupted' = FALSE
    /\ pc' = "prompt"
    /\ UNCHANGED <<ruleVars, table, tasks, values>>

\* free_hashtable and delete_abstraction_rules
Quit ==
    /\ pc = "prompt"
    /\ delete_abstraction_rules
    /\ definition' = <<>>
    /\ meant' = <<>>
    /\ pc' = "quit"
    /\ UNCHANGED <<heap, primitive, statement, vars, tmp, tasks, values, interrupted>>

Init ==
    /\ RulesInit
    /\ HeapInit
    /\ primitive = [n \in Address |-> FALSE]
    /\ definition = <<>>
    /\ meant = <<>>
    /\ pc = "prompt"
    /\ statement = NoStatement
    /\ vars = <<>>
    /\ tmp = Null
    /\ tasks = <<>>
    /\ values = <<>>
    /\ interrupted = FALSE

EnterRule ==
    /\ pc = "prompt"
    /\ SetAbstractionRule
    /\ UNCHANGED <<heap, primitive, table, pc, statement, vars, tmp, tasks, values,
                   interrupted>>

Next ==
    \/ EnterRule
    \/ \E s \in Statements([i \in DOMAIN rules |-> rules[i].line]) : StartStatement(s)
    \/ ApplyRule
    \/ NoRule
    \/ ReplaceName
    \/ ReplaceNumber
    \/ ReplaceApplication
    \/ Join
    \/ Again
    \/ ReleaseTemporary
    \/ FreeNode
    \/ Returned
    \/ Interrupt
    \/ ReleaseSubject
    \/ NextIdentifier
    \/ ExpressionReady
    \/ UseExpression
    \/ Define
    \/ Cleanup
    \/ Quit

Spec == Init /\ [][Next]_allVars

=============================================================================
