# A formal model of `acl`, the any-combinatory-logic interpreter

`acl` reads statements, parses combinatory-logic expressions into graphs of
reference-counted nodes, and reduces them in normal order with whatever
primitives the user has defined. It runs in one thread; what interrupts it is a
signal handler that leaves by `siglongjmp`. The hard parts are therefore not
messages and threads but

* a destructive walk over a *shared* graph with a hand-kept stack, whose
  macros and recorded depths decide what is a redex;
* reference counts and a free list that recycle nodes in the middle of a walk;
* signals that abandon any of this half-way, with static variables (the kept
  spine stack, the cycle history, the node lists) that outlive the abandoned
  reduction;
* exits: a reduction can end in five ways and each has to clean up;
* small data structures with boundary cases (queue, hash table, arena) and the
  tree-matching automaton behind bracket abstraction.

## 1. Inventory

| Component | State | Operations | Used by / uses | Must be true of it |
|---|---|---|---|---|
| Graph reducer `graph.c` | direction, contraction counter | `reduce_graph`, `reduction_count`, `read_line`, comparisons and printing | called by `reduce_tree`; drives spine stack, rules, cycle detector | normal order; a normal form really is one; ends when bounded |
| Reduction rules `reduction_rule.c` | `rules[]` | `add_`/`get_reduction_rule`, `reduce_rule`, `perform_reduction` | reads the spine stack, allocates and frees nodes | in bounds; the right redex replaced; counts kept |
| Spine stack `spine_stack.c` | the stack, `old_spine_stack` | `new_`, `delete_spine_stack`, `pushnode`, macros | graph reducer, rules | never over- or underrun; is the path to the node in hand |
| Cycle detector `cycle_detector.c` | `cycle_stack` | `cycle_detector`, `reset_detection` | graph reducer, `reduce_tree`, `read_line` | compares with this reduction's terms only |
| Graph nodes `node.c` | arena, free list, counts | `new_*`, `free_node`, `arena_copy_graph`, `reset_node_allocation` | parser, rules, abbreviations, bracket abstraction | no live node is free; counts exact; all nodes come back |
| Statements and signals `grammar.y` | settings, `in_reduce_graph`, `reduction_interrupted` | one action per statement; `reduce_tree`, `execute_bracket_abstraction`, the handler | everything | a statement always returns to the prompt with clean state |
| Abbreviations `abbreviations.c` | name to copied graph | `abbreviation_add`, `_lookup` | parser; hash table; node copies | a looked-up graph is the one defined, with rules that still exist |
| Names `atom.c`, `hashtable.c` | buckets, `p`, `maxp`, strings | `Atom_string`, `add_string`, `rehash_hashtable`, lookups | lexer, abbreviations | one pointer per name, through every split |
| Bracket abstraction `brack.c` | rule list, automata | `perform_bracket_abstraction`, `set_abstraction_rule`, replacement | parser; tree matcher; nodes | the first matching rule is applied; the result is the same function without the variable; counts kept |
| Tree matcher `aho_corasick.c` | goto, failure, delta, output | construction, `algorithm_d` | bracket abstraction; queue | a pattern is reported exactly where it matches |
| Queue `cb.c` | array, `in`, `out`, overflow list | `queueinit`, `enqueue`, `dequeue`, `queueempty`, `queuedestroy` | matcher's breadth-first walks | first in, first out, nothing lost |
| Input streams `lex.l` | stack of load files, prompt flag | `push_and_open`, `yywrap`, `reset_yyin` | `load`, `-L` | every file is read to its end and the prompt comes back |
| Arena `arena.c` | slabs, page size | `arena_alloc`, `free_arena_contents` | nodes | allocations are disjoint until reset |
| Buffer `buffer.c` | bytes, offset, size | `buffer_append` and resize | canonical forms, printing | offset stays inside, terminator included |

The scripts, `tests.in`/`tests.out` and the `bases` directory are data; the
rules and many terms of the runs come from them (S, K, I, W, C, M, Omega,
`W C W C (W C)`).

`PROJECT.json` lists the hazards of this code line by line, with the properties
that would catch each or the reason why none does.

## 2. Modules

| Module | What it is |
|---|---|
| `CombinatorRules` | the rule table as a constant: for each primitive its depth and the applications of its right-hand side, in building order |
| `NodeHeap` | the state and operations of `node.c` |
| `GraphReducer` | the program: prompt, `reduce_tree`, `reduce_graph`, spine stack, `perform_reduction`, cycle detector, limits, single-step prompt, signals, release and cleanup. Composes `NodeHeap` by EXTENDS |
| `NormalOrder` | abstract specification of a reduction, over terms instead of graphs |
| `GraphRefinement` | the refinement mapping (unfold the graph) and the history variable it needs |
| `MCGraphReducer`, `MCGraphRefinement` | instances for TLC |
| `GraphInvariant` | the inductive invariant of the reducer, part by part |
| `NodeHeapProofs`, `GraphReducerProofs` | theorems about `NodeHeap` and `GraphReducer` |
| `RuleDefinitions`, `MCRuleDefinitions`, `RuleDefinitionsProofs` | a session of rule commands, definitions and statements around `GraphReducer`: `add_reduction_rule`, `get_reduction_rule`, and the rule pointers that definitions keep; its instance and its theorems |
| `FifoQueue` | abstract specification of `cb.c` |
| `CircularBuffer`, `CircularBufferProofs` | `cb.c` and its theorems |
| `InternedNames` | abstract specification of names: a pointer for good, the last meaning given |
| `LinearHash`, `LinearHashProofs` | `hashtable.c` behind `Atom_string` and the abbreviations, and its theorems |
| `OneText` | abstract specification of the input: one text, into which loads insert files |
| `InputStreams`, `MCInputStreams`, `InputStreamsProofs` | the `-L` loop of `main`, `push_and_open` and `yywrap`, the prompt, and the flags that lexer and grammar share; its instance and its theorems |
| `TreeAutomaton` | the steps that build the goto, failure, output and delta functions of `aho_corasick.c` |
| `AbstractionRules`, `AbstractionRulesProofs` | entering and deleting abstraction rules: the paths of a pattern through a growing buffer, then the automaton; the theorems about the buffer and the automaton |
| `TreeMatcher` | `algorithm_d`: the automaton run over a graph |
| `Abbreviations` | `copy_graph`, `abbreviation_add` and `abbreviation_lookup`, and the nodes the parser makes |
| `BracketAbstraction` | a session of rules, bracket abstractions and definitions: `brack.c` over the reference-counted graph, with `execute_bracket_abstraction`. Composes `AbstractionRules`, `TreeMatcher`, `Abbreviations` and `NodeHeap` by EXTENDS |
| `AbstractionMeaning`, `MCBracketAbstraction` | what a match, a rule's choice and an abstraction mean, without automata; instances for TLC |
| `DistinctBlocks` | abstract specification of an allocator |
| `Arena`, `MCArena`, `ArenaProofs` | `arena.c`, the instance of `arena_overflow` and its theorems |
| `MCLibrary` | the instances of `CircularBuffer`, `LinearHash` and `Arena`, one at work in each behaviour |

### How `GraphReducer` follows the code

A node is an index; `label`, `left`, `right`, `refcnt`, `updateable` are
functions from indices. `updateable` says which field the C pointer leads to.
`allocated` is `allocated_node_count`, `freeList` is the chain at
`node_free_list` (the `right` fields are kept too, and `FreeListIntact` compares
the two). `part_interrupted` is a history: has the parser been handed a part
that a signal interrupted? `stack` is the spine stack up to `top`, bottom first, with `stackSize`
its capacity. `typed` is the expression in the order in which the generated
parser acts on it, `values` the graphs on the parser's own stack; nothing counts
those references. `pc` says where control is:

    prompt --StartStatement--> parsing --ParseTerm/ParseApplication--> parsing
    parsing --StartReduction, of a part or of everything--> loop
    loop --PushLeft/PushRight/PopUp--> loop
    loop --BuildContractum--> store --StoreContractum--> incref
         --CountContractum--> freeing --FreeNode*, ContractionDone-->
         [continue? --ReadLine-->] settle --KeepReducing--> loop
    settle --StopOnCycle, StopAtLimit--> returned     loop --ReachNormalForm--> returned
    any of these --Interrupt--> returned
    returned, of a part --TakeResult--> parsing --FreeNode*--> parsing
    returned, of everything --ReleaseGraph--> release --FreeNode*, Cleanup--> prompt

The three assignments that end `perform_reduction` are three actions because a
signal may fall between them. `free_node` is recursive; its pending calls and
the final linking of each node are the sequence `todo`, so that a signal may cut
it anywhere too. One turn of the `while` loop without a contraction is one
action, pop and choice of direction included.

### `RuleDefinitions`

Here a combinator is one `struct reduction_rule`, named by `NameOf`, and a
statement is resolved to such structs before `GraphReducer` parses it, as
`term` does with `abbreviation_lookup` and `get_reduction_rule`. A struct is
made once: a new one at an address used before would be another. `latest` is a
history. The growth of `rules[]` by four, and `free_rules` at the exit, are
left out; so are a rule that is rejected and one whose right-hand side uses more
arguments than it has (see the hazards).

### Abstractions

* `reduce_rule` builds the whole contractum in one step. A signal that cuts it
  earlier leaves some of what a signal at `store` leaves: nodes that nothing
  links, and counts that are too high. The reset of the arena takes both back.
* A rule whose right-hand side names an argument it does not have is outside
  `RulesAssumption` (the grammar accepts it: see the hazards). That the
  right-hand side is one tree, each application but the root an operand of
  another, is how the grammar builds it (`grammar.y:225-250`).
* The cycle history is a set: its order only reaches a printed number.
  `Canonical` itself is kept as the code computes it, so that two terms have
  the same canonical form only when the C strings are equal as token sequences.
* `reduction_counter` stops at `CounterCap`, one above every limit in use.
* The arena holds `MaxNode` nodes. A statement or a contraction that would need
  more is disabled, never wrapped round; under the settings of the passing runs
  no reduction ends that way, or `StatementReturns` would fail.
* Memory is blanked by `ResetNodeAllocation`: `new_node` initialises every
  field the reducer reads, so that its old content cannot matter.
* Fields are total functions with a value at `Null`; `NoDanglingReference` and
  `StackIsPath` show that nothing follows `Null` during a walk.
* Signal numbers, times and all output are left out.

### `NormalOrder` and the mapping

`NormalOrder` keeps a term as head and arguments. One step contracts the leftmost
outermost redex and, because the graph shares, any set of further copies of that
same redex. An expression is read part by part; what `reduce` comes to takes the
place of its part, however that reduction ended. A reduction stops at a normal form, when a term repeats while cycles
are watched for, when the limit is reached, or at an interrupt, and for no other
reason. The limit is that of the documentation, N contractions and no more; the
mapping gives `NormalOrder` the limit N + 1 for a setting of N (`LimitKept`),
since that is what the reducer keeps to. `ContractionsWithinLimit` is the claim
for N itself, which the run `reducer_limit` refutes.
`GraphRefinement` maps the graph to the term it unfolds to; TLC checks that
storing a contractum is one such step and that pushing, popping, counting and
freeing are none. `past` records the terms of the reduction, which the tests for
a cycle and for the limit refer to.

### `CircularBuffer`

`in`, `out`, `cbuf` and the list are the fields of `struct queue`; the masks are
`NextSlot`. The actions are the five functions; `Dequeue` and `QueueDestroy`
carry the test their callers make (`aho_corasick.c:282`, `362`). An unwritten
slot holds `Garbage`. The header comment of `cb.c` calls the queue "First-in,
Last-out": it is first in, first out, and the breadth-first walks need that.

### `LinearHash`

The variables are the fields of `struct hashtable`. `AddString` is the whole of
`add_string`: lookup, new node, and the split (`SplitBucket`, with
`reallocate_buckets` as `Grown`) when the load is too high. `Moving` uses the
masks of after the move of `p`, as `rehash_hashtable` does. A node is named by
its string and a number, so that a second node for one string would be another
node. A chain is a set: its order decides only how long a lookup takes, and
where the code returns the first match the model returns any.
`AbbreviationAdd` has the guard its comment claims (`abbreviations.c:77-84`: the
lexer has interned the name). `FreeHashtable` walks the buckets in use only.
Left out: `rehash_cnt` and the chain counters, which nothing reads, and the
rounding of the first size to a power of two, which `MaskAssumption` states.
`InternedNames` sees a pointer and a meaning per name, and the last question
with its answer (without the question, a lookup that returned another string's
node would pass for a repeated lookup of that one).

### `InputStreams`

`streams` holds what is left to read of `yyin` and, below it, of the streams on
`file_stack`. A token is a kind, by the lexer's rule, and what it spells where
that matters. `Goto` is the grammar reduced to the statements that touch the
flags; every other statement is like an expression to them. `ReadToken` is one
shift of the parser with the actions it sets off: the flags, `push_and_open`,
`top_level_cleanup`'s prompt. A token that does not fit goes back to the start,
as `program: error` makes the generated parser do, and is dropped there if no
statement begins with it. A loaded file may end inside a statement: `yywrap`
returns 0 and the parser notices nothing. `prompted` is the one output kept.
Left out: `lineno` and `current_input_stream` (saved and restored, never used),
the first `fopen` of a `-L` file (a test; its stream is never closed, which no
property here speaks of), and the second one failing where the first succeeded.

### `TreeAutomaton`, `AbstractionRules` and `TreeMatcher`

An automaton is a record with the fields of `struct gto`. `TreeAutomaton` has
one operator per row or keyword, `AbstractionRules` the order in which
`set_abstraction_rule` applies them: the recursion of `calculate_strings` is the
stack `walk`, the loops over the queue are `FailureTurn` and `DeltaTurn`.
`FailureRow` does the successors of a state at once, which is what the loop over
the characters comes to: no two characters lead to one state, and a failure
state is shallower than what it is computed for. A pattern is a value, since
nothing changes it after the parse. `pat_path_cnt` and `replaceable_leaves_cnt`
are both the number of leaves. `TreeMatcher` is `algorithm_d` statement by
statement, `count` and `exact_match_node` included: all alignments of the
pattern share them, while only a match at the root is replaced.
Left out: the growth of `count[]`, `stack[]` and `paths[]`, and a pattern that
consists of a bare `*`: its path is empty and counts 0 nodes, so that `tabulate`
reads the element behind the top, which has not been written.

### `Abbreviations`

A definition is a kept graph, a tree in the order `copy_graph` and
`arena_copy_graph` visit it. `Parsed` is what the parser makes of an expression
that uses names: a copy for each use, moved to where the parser is.
`preallocate_nodes` puts the nodes on the free list that the copy takes off it at
once; the list is empty while a statement is parsed, since nothing has been
released, so that the two together are the new nodes. `meant` is a history: the
statement a definition was made from, and the definitions it used as they were
then. The hash table itself is `LinearHash`.

### `BracketAbstraction`

`perform_bracket_abstraction` and `perform_replacement` call each other. Their
pending calls are `tasks`, the results of finished ones `values`; each action is
one call's work on the heap, so that an interrupt can fall between any two:

    prompt --EnterRule*, StartStatement--> abstracting, or used (a plain definition)
    abstracting --ApplyRule/NoRule, ReplaceName/ReplaceNumber/ReplaceApplication,
                  Join, Again, ReleaseTemporary, FreeNode*--> abstracting
    abstracting --Returned or Interrupt--> returned --ReleaseSubject, FreeNode*--> freed
    freed --NextIdentifier--> abstracting    freed --ExpressionReady--> used
    used --UseExpression or Define, FreeNode*--> done --Cleanup--> prompt
    used --Define--> crashed (of a failed abstraction)

The arguments of `new_application` in `perform_replacement` are evaluated in an
order C leaves open; the model takes the left one first, the other order only
numbers the nodes differently. `primitive` says whether `node->rule` is set; the
field `stray` of a rule is what the unset `rule` of a `_` in a template happens
to hold (`node.c:324`), and the runs have both values. The result is printed and
released without a reduction, which `GraphReducer` has. Rules that make an
application from a failed abstraction put `NULL` into the graph: the rule sets
of the run that recurse match every expression, the incomplete one does not
recurse.

`AbstractionMeaning` states matching leaf by leaf (`Fits`), the language of an
automaton by its keywords (`Recognises`, in `TreeAutomaton`) and the meaning of an abstraction
by reducing terms: `SameFunction` compares two normal forms on three unknown
arguments.

### `Arena`

`slabs` is the list behind the dummy head. What is stored in the two `int` fields
and in `pagesize` goes through `AsInt`, which wraps round; what is computed in
`size_t` does not. Nothing keeps the arena small enough for them: a slab that an
`int` cannot count (`TakeFromHugeSlab`), and a request after the doubling has
overflowed (`TakeFromNoSlab`), end in the status `broken`, of which the model
says no more, since the program's writes are then outside its memory. `malloc`
grants what is asked for up to `Memory`, a bound of the runs. `blocks` is a ghost: what was handed out since the arena was
last emptied, and the state of `DistinctBlocks`. `NodeHeap` uses that abstract
view: nodes that are distinct until the reset.

## 3. Runs

| Run | Asks | Bounds |
|---|---|---|
| `reducer` | is every step of an undisturbed reduction right? | all 1428 trees of up to four leaves over S, K, W, x, six larger ones (Omega, a growing term, redexes in arguments), and expressions with one or two parts to be reduced first, nested ones included, whose results share nodes, are copied, dropped or reduced on, or never end; limits 4 (with cycle detection) and 2; statements follow each other, with a stack grown by the earlier one; first stack of 4 so that it is resized; 24 nodes |
| `reducer_signals` | what survives a signal, and does a statement always end? | smaller expressions, the same larger ones and four with parts to be reduced; both signals at every step, each setting of cycles, limit, timeout and step that reaches another exit; `CounterCap` 3; 28 nodes |
| `reducer_refcnt` | is no count ever negative? No: see below | as above |
| `rules_redefined` | does a redefined primitive leave everything in order? No: see below | a name with two rules in either order, another name, two definitions of `t`, two expressions that use it |
| `reducer_limit` | is the limit kept? No: see below | as `reducer` |
| `library` | is the queue a queue; is there one pointer and one meaning per name, through every split; are blocks separate, and is memory reused? | one of the three at work in each behaviour. Queue: four slots, three values, list up to three: full, wrapped, overflowing and draining in every order. Names: eight strings in any order, one bucket at first and a load of 1: four splits (two whole rounds and the start of a third), arrays reallocated three times; two strings with equal hash, others that part at the second or third bit. Arena: requests of 5, 11, 25 and 127 bytes with units of 2, a header of 6, a first page of 16, 150 bytes in all and an `int` up to 127: less than a page, one that needs a second page for the header alone, more than a page, more than an `int`; remainders too small, three doublings, the last of which overflows; emptied at any time |
| `input` | is the input one text, read to its end, and the prompt on exactly for the terminal? | three typed lines out of seven, typed ahead or not; four files: one whose last line has no end, loaded by a line or by another file, one that loads itself, one with errors; with and without `-p` and `-L`; three streams open at most |
| `input_prompt`, `input_words` | does the prompt come back, and is a word a variable? No: see below | the same, with a `-L` file that loads another for the first |
| `abstraction` | is the automaton that of the pattern, the rule the first that fits, the result the function it should be, does a definition keep its meaning, and is every node given back? | the rules of `ski.basis`, `btmk.basis` and `tromp.abstraction` (twice: the stray field set and not set), which have every wildcard, and two rules that leave some expressions unmatched; all expressions of up to three leaves over S, K, x, y and all `(a b) (c d)` over K, x, for `[x]`; all of two leaves over K, x, y for `[x, y]`; with the first rules of `ski.basis` alone, definitions of U and V in any order and anew, V made from U, with variables that a use captures, and five uses; interrupts at any step for two leaves and for a definition; a buffer of 2 bytes that has to grow; 90 nodes, which no statement uses up |
| `abstraction_words` | does `_` match the variable only? No: see below | two rules, a variable `x_` |
| `arena_overflow` | does every request find a slab? No: see below | as `library`, with requests of 5 and 11 bytes, as nodes are small |

Every contraction shape occurs within these bounds: a rule that drops an
argument, one that copies, one that only returns, one that builds nested
applications; redexes at the root, under further arguments, in argument position
and inside shared subgraphs. A defect that needs two interacting contractions
shows with three leaves and a shared node.

### What the violated runs show

* `OnlyRulesThatExist`: `add_reduction_rule` frees the rule it replaces
  (`reduction_rule.c:143`), but the atoms of an abbreviation made before go on
  pointing to it: after `rule: V 1 -> 1`, `def t (V x)` and `rule: V 1 2 -> 1`,
  the first use of `t` makes `reduce_graph` read the freed struct
  (`graph.c:127`). The patterns and replacements of abstraction rules keep such
  pointers too (`grammar.y:496`, `528`). In the model the struct keeps its
  content after it was freed, so that what follows in such a behaviour is only
  one of the things that may happen; the run stops at the first read.
* `NoNegativeCount`: a signal between `reduction_rule.c:203` and `204` leaves
  the contractum linked and the link uncounted. A contractum just made, which
  nothing else refers to, then has the count 0; the release of the statement's
  graph reaches it over the new link and takes the count to -1, which
  `node.c:282-284` reports. (A shared contractum does not get there by that
  release: the redex, which was not released, still counts its reference.) When
  the reduction was the whole statement the arena is reset at once. When it was
  a part, the rest of the statement is reduced with the wrong counts, so that
  `NoDanglingReference` fails too; it is claimed for statements without signals.
  `FreeListIntact` holds with signals until an interrupted part is handed to the
  parser, and not after that: when `reduce (W C (K (K I) x))` is interrupted and
  `y` follows, a node freed too early is counted again, freed again and chained
  twice.
* `ContractionsWithinLimit`: `graph.c:201` counts a contraction and `graph.c:229`
  asks whether there were more than N, so that N + 1 are done; `README.md:73` says
  up to N, and `README.md:527` after N.
* `AlwaysANewSlab`: `arena.c:136` doubles an `int` with every slab. When the slabs
  and the first page come to more than an `int` counts (16 slabs and 2 GB with
  pages of 4096 bytes), it overflows; with a compiler that wraps round, the next
  slab has 0 bytes or more than there are, by how `pagesize - 1` is converted, and
  `arena.c:140` writes a header that is not there. The comments promise a slab "of
  at least 1 page" (`arena.c:133`) and the next one "twice as large" (136). One
  expression may need so much memory: the arena is emptied only between two.
* `PromptWhenWaiting`, when a `-L` file loads another: `yywrap` (`lex.l:306`)
  leaves `old_prompting` at the 0 saved inside the `-L` loop, so that the first
  load typed later switches the prompt off and nothing switches it on again.
  `input` has the same property for `-L` files without loads, where it holds.
* `WordsAreVariables`: after `load` with a syntax error `looking_for_filename`
  stays set, and every word is a `FILE_NAME`: no expression is accepted until
  some load command is complete. `found_binary_command` and `found_abstraction`
  stay set in the same way; they matter only to `on`, `off` and, for
  abstractions, to every word again.
* `FirstMatchingRule`, with a variable named `x_`: `algorithm_d` reads names
  character by character, so that the `_` at the end looks like the keyword of
  the pattern `_` (`README.md:326`). With the first rule of `ibcs.basis` or
  `bcfi.basis`, `[x] x_` gives `I`.

Also seen while modelling, without a run of its own: when Control-C or a timeout
ends a `reduce` inside an expression, `grammar.y:381` takes its graph like a
finished one ("XXX - need to check r") and the whole expression is reduced,
although `README.md:106-108` promises the prompt. The comment at
`spine_stack.c:30` says that one spine stack is created in a run of the
interpreter, but a first reduction that a signal ends never hands its stack
back, and the next statement creates another. `README.md:486` has the cycle
detector keep every expression, but the expression *entered* is not recorded, so
a cycle through it is found one round later. `NormalOrder` states what the code
does. `def` of an abstraction that no rule matches, or that Control-C ended,
gives `NULL` to `copy_graph`, which reads through it (`grammar.y:289`,
`abbreviations.c:110`): the place `crashed`.

### Fairness

`FairSpec` has weak fairness of `Work`, the steps the interpreter takes without
being asked, because the process runs; and of the timeout when `alarm()` was
set, because the kernel delivers it. Nothing is assumed of the user: statements,
Control-C and answers at `continue?` may never come.
`InputStreams` likewise has weak fairness of the interpreter's own steps and none
of the user's typing; `ReadToTheEnd` needs the limit on open streams, without
which a file that loads itself would never end. So `StatementReturns` is
claimed for statements with a limit or a timeout and without single-stepping.

## 4. Theorems

All are for arbitrary rules, expressions, settings, heap and stack sizes, under
the named assumptions of `CombinatorRules`, `NodeHeap`, `GraphReducer`,
`CircularBuffer`, `LinearHash`, `InputStreams`, `Arena`, `TreeAutomaton` and
`AbstractionRules`.

`GraphReducerProofs`: `IInv` adds to the types four facts that make the bounds
inductive.

* `DepthBounded`: a recorded depth never exceeds the position of its element.
  Together with `Contractible` this puts the redex, its arguments and the node
  above it on the stack: `NoStackUnderflow` (`ContractionInBounds`).
* `PopBounded`: from `BuildContractum` to the pop, as many elements as will be
  popped are there and one remains; needed because the pop comes four actions
  after the test that justified it.
* `StackRoom` and `LoopRoom`: there is room for one more element, also in a
  kept stack; `NoStackOverrun` (`StackWriteInBounds`).
* `HistoryBounded`: `HistoryEmptied` (`HistoryIsPerReduction`). It has to speak
  of the setting as well: the code resets the history only while detection is
  on, and the setting changes only at the prompt, where the history is empty.

The graph invariant. The other theorems about the reducer need one invariant for
all of them, `GInv` in `GraphInvariant`, because each of its parts is what keeps
the next one true:

* `Control` says what each place of the program has at hand (no pending
  `free_node` in the loop, an empty stack outside a reduction), and `ParserSound`
  that the parser's stack holds one graph for each part that is not yet under an
  application. It counts the actions of the parser that are left, and it is why
  no value is left over at the end.
* `ListInv`: the free list is a list; the nodes waiting to be linked are live and
  wait once; and what is not in use has no positive count. The last part is what
  a freed node needs not to be freed again. It holds through signals:
  `FreeListStaysIntact` (`FreeListIntact`).
* `GraphSound(level, graph)`, for some two functions of the nodes. `level` grows
  from parent to child, so there are no cycles; `graph` says which of the parser's
  graphs a node is in, so that the graphs share nothing and each value is the only
  node of its graph without a reference. Both are existential: the invariant says
  there is such an order, and a step that builds or links nodes gives new ones.
  `CountsExact(Holders)` has the count of every live node, `Holders` being what
  holds a node without an edge: `reduce_tree`'s count of the root, and between
  the store and the count the redex's edge that is gone and the contractum's that
  is not yet counted. `NoGarbage`: what has no reference is a value or
  the contractum. `DummiesApart` keeps the two nodes of `reduce_tree` out of
  everybody else's reach, and `HollowOnly` says that `NULL` children are theirs.
* `WalkSound(level, graph)`: the kept part of the spine stack is a path down the
  graph under reduction and the contractum belongs below the redex's parent.
  Levels grow along the path, which is why relinking the redex's parent changes
  nothing above it, and why the contractum closes no cycle.

The hard steps are the four of a contraction. For `BuildContractum` the new nodes
need levels between the redex and its arguments: what lies at or below an
argument's level moves down to make room (`BuildSound`). `StoreContractum` loses
the redex's edge, `CountContractum` pays for the new one, and `FreeNodeSound` lets
`free_node` take the redex apart: a node goes only when it has no reference, so
nothing on the kept path, in the parser's hand or in the contractum goes
(`FreeStepGraph` in `NodeHeapProofs`, where the lemmas on the operations of the
heap are).

From `GInv` follow `CountsAreExact` (`RefCountsExact`), `SpineIsPath`
(`StackIsPath`), `NothingFreedIsReachable` (`NoDanglingReference`: `Subgraph` is
a recursive function, so the proof first shows that its equation has a solution,
the least closed set around each node, whatever the graph; then that the highest
node that could lead out of `Live` does not exist) and `NoNodeLost`
(`AllNodesReturned`: the lowest node still live would have a parent or be a
value). All of it is for statements that no signal interrupted, as the
properties are; after one the counts are wrong (see above).

Normal forms. `NormalFormsHaveNoRedex` (`NormalFormHasNoRedex`) needs a second
invariant beside `GInv`, `NormalInv`: there is a set `W` of positions, each a node
with a number of arguments, in which no position is a redex and which has the
children of each of its positions (`RedexFree`). `W` is what the walk has left
behind: the left branch of every element of the path that leads right, what `dir`
says of the top, and in the end everything below the root. A node stands in `W`
once for each number of arguments it is met with, since a shared node may be a
redex in one place and not in another. `PopUp` adds to `W`; `free_node` takes out
what is freed. The hard step is `StoreContractum`, which changes a field of a node
that may be shared: `RedexApart` shows that this node is not in `W`, for else the
redex below it would be, and down its left side the combinator with all its
arguments, which is a redex (`SpineIsLeft`: the depth beside an element and the
path agree, so the last `required_depth` steps all went left). `ReductionCount` is
a recursive function; `ReductionCountIsDefined` shows that its equation has a
solution on the live nodes of a graph without cycles, and `NothingCounted` that it
is 0 on `W`.

`CircularBufferProofs`: the invariant is the types and
`OverflowBehindFullBuffer`. `QueueImplementsFifo` proves the refinement for every
array size. The argument: `ContentsElements` describes the queue element by
element; `enqueue` into the array happens only with an empty list, so it
appends; in `dequeue` with a list, the head of the list goes to the slot just
before the new oldest element, that is, to the end of the array.

`LinearHashProofs`: for every hash function. `IInv` adds `OneNodePerString` to
the checked invariants, which the refinement needs. The heart is two lemmas on
the masks: `SplitLeavesOthers` (moving `p`, and doubling the round at its end,
changes the bucket of no hash value outside bucket `p`) and `SplitDividesOne`
(those inside it go to `p` or to `p + maxp`); both rest on `OneMoreBit`.
`LookupFindsEveryNode` and `TypeCorrectness` (the arrays grow in time) follow;
`LoadStaysBounded` is arithmetic: a split adds `MaxLoad + 1` to the bound, a
string adds one. `TableImplementsNames` is the refinement, `FreeForgets`
(nothing is left over at the end) included.

`InputStreamsProofs`: `FilesStayQuiet` needs two more facts, which hold each
other up: what `push_and_open` saves while the prompt is off is never 1
(`SavedIsOff`), and the prompt is off from the first `-L` file on
(`LoadingIsQuiet`). `PromptComesBack` (`PromptWhenWaiting`) is for `-L` files that
hold no load command (`FlatLoadFiles`); the run `input_prompt` shows that they must
not. It follows `prompting` and what `push_and_open` saved through the streams
(`PromptKept`): at the terminal the prompt is on, above it what was saved is 1, and
between two lines the prompt was printed. That needs `InputAssumption` to say that
the terminal hands over whole lines, as a terminal in its normal mode does.
`OneTextIsRead` is the refinement of `OneText`: the text is `FlattenSeq(streams)`,
which `FlattenTop` and `FlattenBottom` describe at its two ends, both by the least
place at which two ways to build it up could differ. A token is taken from the
top, a file opened on top of the rest, and a line added at the bottom; a stream
that ends is a stutter. No more than `TypeOK` is needed.

`ArenaProofs`: for all request sizes, alignments, header and page sizes and any
amount of memory; an `int` holds the first page, and wraps round. `IInv` adds to
the types and `PageSizePaidFor` that a slab's used and free part add up and are
multiples of the unit (`SlabsKept`), and that every block ends before what its
slab hands out next (`BlocksBelowNext`), from which the refinement of
`DistinctBlocks` follows. `FailsOnlyBeyondAnInt` says how far the allocator can be
trusted: each doubling was paid for with a slab at least as large as the old page,
so that the page size overflows only when the arena has obtained, with the first
page, more than an `int` counts. It does not say that this never happens; the run
`arena_overflow` shows that it does. `BlocksStayInside` and the refinement hold
of the blocks handed out before. `ArenaIsReused` needs the history `used` to be at
least what each slab has given.

`RuleDefinitionsProofs`: `LookupFindsLatestRule`. A name that is parsed gets the
rule last given for it, and never one that was freed, whatever is defined in
whatever order. `TableInv` adds that names are distinct in `rules[]`, which the
`CHOOSE` of a first match comes down to. So only what was parsed before a
redefinition can lead to a freed rule, as the run `rules_redefined` shows it
does. `LatestRuleFound` has no run of its own.

`AbstractionRulesProofs`: `TerminatorFits` with the types of `buffer` and `walk`
is inductive; `walk` matters because the offsets it will go back to must not lie
behind the text.

`AutomatonIsRight` (`AutomatonRecognisesPaths`) is for every set of characters,
every list of rules and every pattern, and rests on `CharsAssumption` (the
characters are distinct, and `@`, `1`, `2` are among them), `ScriptsAssumption`
and `PatternAssumption` (a pattern is a finite tree: each part has a height above
that of its branches). The invariant `AInv` says for each phase of
`set_abstraction_rule` how far the automaton of the pattern's paths `K` is:

* `StringsAs`: the paths written, and those that the pending calls of
  `calculate_strings` still write, are `K`. What a pending call writes depends on
  the buffer up to the offset it goes back to, which no call inside it changes
  (`Suspended`, `WritesSame`); so an application writes what its three calls do
  (`StringsApplication`).
* `Entered(g, K, m)`: the first `m` paths are entered. Each state has a text
  (`Tree`: the rows are a tree whose root has the empty text and whose edges add a
  character), the texts are the prefixes of those paths, and the outputs of a
  state are the paths that are its text. `EnterKeywordEntered` is `enter`, an
  induction along the keyword.
* `FailureAs`: `Walking` says what a breadth-first walk has behind it, every state
  once and the shallower first. States that were enqueued have as failure state
  the longest proper suffix of their text that is a text (`LongestEnd`), and count
  every path that ends their text. In `FailureTurnKeeps` the failure state of a
  child is found from that of its parent: `FallbackLands` follows the chain to the
  first state with an edge, which exists because `CloseRoot` gave the root all of
  them, and a failure state is shallower, so that it is done already.
* `DeltaAs`: the delta rows of states behind the walk lead to the longest suffix of
  the text and the character (`Arrives`). `DeltaEnds` reads `Recognises` off the
  end: states and prefixes are equally many, and the state a prefix leads to is
  the one that has it as its text.

`construct_failure` lets the children of the root inherit nothing from the root, so
that an empty path (the pattern `*`) would not be counted there; it is then the only
path (`PathsOfType`), and the root the only state. `RulesKeepTypes` follows from the same invariant.
A session (`BracketAbstraction`) touches these variables by the actions of
`RulesSpec` only, so the theorems speak of it too.

Only model-checked: liveness (`StatementReturns`, `ReadToTheEnd`), the refinement
of `NormalOrder` (its operators recurse over terms), and of bracket abstraction
what comes after the automaton. `FirstMatchingRule`, `AbstractionIsFunction` and
`DefinitionKeepsMeaning` compare with definitions that recurse over patterns, graphs
and terms (`Fits`, `Normal`, `Entered`), and `algorithm_d` itself is a recursion over a
walk: RECURSIVE operators and induction over data, which the prover cannot do.
`CountsExact`, `NothingReadAfterFree`, `EveryNodeReturned` and `TypeOK` need them
too: `fill_in_replacements` hands out the nodes at the leaves of a pattern, and that
these are nodes at all is because `algorithm_d` found the pattern there.

## 5. Plan

Done: the reducer with its refinement and with `reduce` inside expressions, the
rules, the queue, names, input, the tree matcher,
bracket abstraction, abbreviations, the buffer and the arena. Left, in this order:

1. The rule command's own parse: a left-hand side that is rejected
   (`grammar.y:210`), numbers that are out of range (`reduction_rule.c:184`).
2. `Repl`: a bracket abstraction inside a larger expression, and its result
   reduced, composing `GraphReducer` with `BracketAbstraction`.
3. Proofs: that `algorithm_d` reports a pattern only where it is, from
   `AutomatonIsRight` and an invariant of its walk, and from that the counts of
   bracket abstraction (`CountsExact`, `EveryNodeReturned`, `NothingReadAfterFree`),
   which need `copy_graph` and `free_node` in one invariant. Both need the recursions
   of `TreeMatcher` and `Abbreviations` as recursive functions first.

## 6. Not modelled

Tokenising and the generated parser (text processing; an expression arrives as
the sequence of the parser's actions), printing and tracing, timing, and the exhaustion of memory or of the C
stack. `preallocate_nodes` is folded into the copy it is for. A signal that arrives
inside `malloc`, or between the installation of the handler and
`sigsetjmp`, is undefined behaviour and has no state to model.
