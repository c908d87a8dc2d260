-------------------------- MODULE AbstractionRules --------------------------
(***************************************************************************)
(* set_abstraction_rule of brack.c: how "abstraction: [_] lhs -> rhs"      *)
(* becomes an entry of rules[].  calculate_strings walks the pattern with  *)
(* one growing buffer for the path in hand; the paths are the keywords of  *)
(* an automaton, built by breadth-first walks over a queue (cb.c, which    *)
(* CircularBuffer shows to be the FIFO it is here).                        *)
(*                                                                         *)
(* A struct abs_node is a record: label "@" with left and right, or a      *)
(* leaf; the flag abstracted says that it was written after "[_]".         *)
(***************************************************************************)
EXTENDS TreeAutomaton

CONSTANTS
    AbstractionRule,    \* the lines: name -> [pattern, replacement, stray]
    PatternParts,       \* every part of their patterns, which are finite trees
    Height,             \* of each part
    Scripts,            \* BOUND: the lists of lines a session may enter
    Spelling,           \* the characters of each name
    BufferSize          \* what set_pattern_paths asks new_buffer for

ASSUME BufferAssumption == BufferSize \in Nat \ {0}

ASSUME ScriptsAssumption == \A lines \in Scripts : lines \in Seq(DOMAIN AbstractionRule)

VARIABLES
    rules,          \* rules[]: the line and its automaton, oldest first
    script,         \* the lines still to be entered
    phase,          \* where set_abstraction_rule is
    walk,           \* what the active calls of calculate_strings have to do
    buffer,         \* struct buffer: its size and the text up to its offset
    paths,          \* paths[], as far as used
    automaton,      \* the struct gto under construction
    queue           \* states waiting in a breadth-first walk

ruleVars == <<rules, script, phase, walk, buffer, paths, automaton, queue>>

Phases == {"idle", "strings", "goto", "failure", "delta"}

IsLeaf(tree) == tree.label # "@"

-----------------------------------------------------------------------------
(* buffer.c                                                                *)

\* Plausible slip: no growth when the text would fit exactly.
buffer_append_exact(b, bytes) ==
    [size |-> IF Len(bytes) > b.size - Len(b.text) THEN b.size + Len(bytes) ELSE b.size,
     text |-> b.text \o bytes]

buffer_append(b, bytes) ==
    [size |-> IF Len(bytes) >= b.size - Len(b.text) THEN b.size + Len(bytes) ELSE b.size,
     text |-> b.text \o bytes]

\* b->offset = offset: the text after it is forgotten.
Rewind(b, offset) == [b EXCEPT !.text = SubSeq(@, 1, offset)]

-----------------------------------------------------------------------------
(* set_pattern_paths                                                       *)

Visit(tree) == [op |-> "visit", tree |-> tree]

\* What a wildcard leaves at the end of its path; a name leaves its spelling.
Wildcard == ("*" :> <<>>) @@ ("*+" :> <<"+">>) @@ ("*-" :> <<"-">>)
              @@ ("*!" :> <<"!">>) @@ ("*^" :> <<"^">>)

PathEnd(label) == IF label \in DOMAIN Wildcard THEN Wildcard[label] ELSE Spelling[label]

ASSUME PatternAssumption ==
    /\ Height \in [PatternParts -> Nat]
    /\ \A name \in DOMAIN AbstractionRule : AbstractionRule[name].pattern \in PatternParts
    /\ \A tree \in PatternParts :
          IF IsLeaf(tree) THEN PathEnd(tree.label) \in Seq(Char)
          ELSE \A branch \in {tree.left, tree.right} :
                  branch \in PatternParts /\ Height[branch] < Height[tree]

Begin ==
    /\ phase = "idle"
    /\ script # <<>>
    /\ phase' = "strings"
    /\ walk' = <<Visit(AbstractionRule[Head(script)].pattern)>>
    /\ buffer' = [size |-> BufferSize, text |-> <<>>]
    /\ paths' = <<>>
    /\ UNCHANGED <<rules, script, automaton, queue>>

\* An application: its label and "1" go into the buffer; the right side is
\* visited, after the offset went back behind the label, when the left is
\* done; and the caller finds the offset it left.
CalculateApplication ==
    /\ phase = "strings"
    /\ walk # <<>>
    /\ Head(walk).op = "visit"
    /\ LET node == Head(walk).tree
           labelled == buffer_append(buffer, <<node.label>>)
       IN  /\ ~IsLeaf(node)
           /\ buffer' = buffer_append(labelled, <<"1">>)
           /\ walk' = << Visit(node.left),
                         [op |-> "right", at |-> Len(labelled.text), tree |-> node.right],
                         [op |-> "leave", at |-> Len(buffer.text)] >> \o Tail(walk)
    /\ UNCHANGED <<rules, script, phase, paths, automaton, queue>>

\* A leaf: the path ends, behind a terminator written into the buffer.
CalculateLeaf ==
    /\ phase = "strings"
    /\ walk # <<>>
    /\ Head(walk).op = "visit"
    /\ IsLeaf(Head(walk).tree)
    /\ paths' = Append(paths, buffer.text \o PathEnd(Head(walk).tree.label))
    /\ walk' = Tail(walk)
    /\ UNCHANGED <<rules, script, phase, buffer, automaton, queue>>

TurnRight ==
    /\ phase = "strings"
    /\ walk # <<>>
    /\ Head(walk).op = "right"
    /\ buffer' = buffer_append(Rewind(buffer, Head(walk).at), <<"2">>)
    /\ walk' = <<Visit(Head(walk).tree)>> \o Tail(walk)
    /\ UNCHANGED <<rules, script, phase, paths, automaton, queue>>

LeaveApplication ==
    /\ phase = "strings"
    /\ walk # <<>>
    /\ Head(walk).op = "leave"
    /\ buffer' = Rewind(buffer, Head(walk).at)
    /\ walk' = Tail(walk)
    /\ UNCHANGED <<rules, script, phase, paths, automaton, queue>>

-----------------------------------------------------------------------------
(* the automaton                                                           *)

PathsComplete ==
    /\ phase = "strings"
    /\ walk = <<>>
    /\ phase' = "goto"
    /\ automaton' = init_goto
    /\ UNCHANGED <<rules, script, walk, buffer, paths, queue>>

EnterKeyword ==
    /\ phase = "goto"
    /\ paths # <<>>
    /\ automaton' = enter(automaton, Head(paths))
    /\ paths' = Tail(paths)
    /\ UNCHANGED <<rules, script, phase, walk, buffer, queue>>

KeywordsEntered ==
    /\ phase = "goto"
    /\ paths = <<>>
    /\ automaton' = StartFailure(CloseRoot(automaton))
    /\ queue' = Successors(CloseRoot(automaton), 0)
    /\ phase' = "failure"
    /\ UNCHANGED <<rules, script, walk, buffer, paths>>

\* One turn of construct_failure's loop.
FailureTurn ==
    /\ phase = "failure"
    /\ queue # <<>>
    /\ automaton' = FailureRow(automaton, Head(queue))
    /\ queue' = Tail(queue) \o Successors(automaton, Head(queue))
    /\ UNCHANGED <<rules, script, phase, walk, buffer, paths>>

FailureDone ==
    /\ phase = "failure"
    /\ queue = <<>>
    /\ automaton' = StartDelta(automaton)
    /\ queue' = Successors(automaton, 0)
    /\ phase' = "delta"
    /\ UNCHANGED <<rules, script, walk, buffer, paths>>

DeltaTurn ==
    /\ phase = "delta"
    /\ queue # <<>>
    /\ automaton' = DeltaRow(automaton, Head(queue))
    /\ queue' = Tail(queue) \o Successors(automaton, Head(queue))
    /\ UNCHANGED <<rules, script, phase, walk, buffer, paths>>

\* The last lines of set_abstraction_rule.  pat_path_cnt and the count of
\* replaceable leaves are both the number of leaves of the pattern.
RuleAdded ==
    /\ phase = "delta"
    /\ queue = <<>>
    /\ rules' = Append(rules, [line |-> AbstractionRule[Head(script)], g |-> automaton])
    /\ script' = Tail(script)
    /\ phase' = "idle"
    /\ automaton' = init_goto
    /\ UNCHANGED <<walk, buffer, paths, queue>>

RulesInit ==
    /\ rules = <<>>
    /\ script \in Scripts
    /\ phase = "idle"
    /\ walk = <<>>
    /\ buffer = [size |-> BufferSize, text |-> <<>>]
    /\ paths = <<>>
    /\ automaton = init_goto
    /\ queue = <<>>

SetAbstractionRule ==
    \/ Begin
    \/ CalculateApplication
    \/ CalculateLeaf
    \/ TurnRight
    \/ LeaveApplication
    \/ PathsComplete
    \/ EnterKeyword
    \/ KeywordsEntered
    \/ FailureTurn
    \/ FailureDone
    \/ DeltaTurn
    \/ RuleAdded

delete_abstraction_rules ==
    /\ phase = "idle"
    /\ script = <<>>
    /\ rules' = <<>>
    /\ UNCHANGED <<script, phase, walk, buffer, paths, automaton, queue>>

RulesSpec == RulesInit /\ [][SetAbstractionRule \/ delete_abstraction_rules]_ruleVars

-----------------------------------------------------------------------------
(* Properties                                                              *)

RulesTypeOK ==
    /\ script \in Seq(DOMAIN AbstractionRule)
    /\ phase \in Phases
    /\ buffer \in [size : Nat, text : Seq(Char)]
    /\ paths \in Seq(Seq(Char))
    /\ queue \in Seq(Nat)

\* The terminator that a leaf writes at the offset (brack.c:447) lies inside
\* the buffer, which grows only in buffer_append and keeps its text when the
\* offset goes back: room is left even after an append that just fits.
TerminatorFits == Len(buffer.text) < buffer.size

\* The paths of a pattern, left to right.
PathsOf[tree \in PatternParts] ==
    LET below(step, paths_of) == [i \in DOMAIN paths_of |-> <<"@", step>> \o paths_of[i]]
    IN  IF IsLeaf(tree) THEN <<PathEnd(tree.label)>>
        ELSE below("1", PathsOf[tree.left]) \o below("2", PathsOf[tree.right])

\* aho_corasick.c:100-380 with brack.c:403: the automaton that a rule gets
\* recognises the paths of the rule's pattern.
AutomatonRecognisesPaths ==
    phase = "delta" /\ queue = <<>> =>
        Recognises(automaton, PathsOf[AbstractionRule[Head(script)].pattern])

=============================================================================
