--------------------------- MODULE TreeAutomaton ---------------------------
(***************************************************************************)
(* The string-matching automaton of aho_corasick.c.  A keyword is a path   *)
(* from the root of a pattern tree to one of its leaves: "@" for each      *)
(* application, "1" or "2" for the branch taken, and the characters of the *)
(* leaf.  The automaton is a record with the fields of struct gto; rows    *)
(* and outputs are functions whose domains grow.                           *)
(*                                                                         *)
(* These are the steps of its construction.  AbstractionRules says in      *)
(* which order they happen; TreeMatcher runs the result over a graph.      *)
(***************************************************************************)
EXTENDS Integers, FiniteSets, SequencesExt

CONSTANT Chars      \* the characters of keywords and names, in code order

Char == ToSet(Chars)

ASSUME CharsAssumption ==
    /\ Chars \in Seq(Char) /\ IsInjective(Chars)
    /\ {"@", "1", "2"} \subseteq Char

FAIL == -1

-----------------------------------------------------------------------------
(* construct_goto                                                          *)

BlankRow == [c \in Char |-> FAIL]

init_goto == [ary |-> [s \in {0} |-> BlankRow], output |-> [s \in {0} |-> <<>>],
              max_node_count |-> 0,
              failure |-> <<>>, delta |-> <<>>]     \* not allocated yet

\* One more match at state s: a path of n nodes.
set_output_length(g, s, n) ==
    [g EXCEPT !.output = [t \in 0..Max({s} \cup DOMAIN @) |->
                             (IF t \in DOMAIN @ THEN @[t] ELSE <<>>)
                               \o (IF t = s THEN <<n>> ELSE <<>>)],
              !.max_node_count = Max({@, n})]

\* What set_output counts: the nodes a keyword visits.  A leaf that has no
\* character of its own (the wildcard "*") is not one of them.
NodesOnPath(keyword) ==
    Cardinality({i \in DOMAIN keyword :
                    /\ keyword[i] \notin {"1", "2"}
                    /\ \A j \in 1..i-1 : keyword[j] \in {"@", "1", "2"}})

\* A new last row, entered from state s on character c.
add_state(g, s, c) ==
    LET new == Cardinality(DOMAIN g.ary)
    IN  [g EXCEPT !.ary = [t \in 0..new |-> IF t = new THEN BlankRow
                                            ELSE IF t = s THEN [g.ary[s] EXCEPT ![c] = new]
                                            ELSE g.ary[t]]]

\* procedure enter(): follow the keyword as far as it is known, add states
\* for the rest, and note the match at the last one.
Follow(at, c) ==
    IF at.g.ary[at.state][c] # FAIL
    THEN [at EXCEPT !.state = at.g.ary[at.state][c]]
    ELSE [g |-> add_state(at.g, at.state, c), state |-> Cardinality(DOMAIN at.g.ary)]

enter(g, keyword) ==
    LET at[i \in 0..Len(keyword)] ==
            IF i = 0 THEN [g |-> g, state |-> 0] ELSE Follow(at[i - 1], keyword[i])
        end == at[Len(keyword)]
    IN  set_output_length(end.g, end.state, NodesOnPath(keyword))

\* The end of construct_goto: the root absorbs what starts no keyword.
CloseRoot(g) ==
    [g EXCEPT !.ary[0] = [c \in Char |-> IF @[c] = FAIL THEN 0 ELSE @[c]]]

-----------------------------------------------------------------------------
(* construct_failure and construct_delta: two walks over the states        *)

\* Plausible slip: a transition that fails is taken for a state.
SuccessorsAndFailures(g, r) == SelectSeq([i \in DOMAIN Chars |-> g.ary[r][Chars[i]]],
                                         LAMBDA s : s # 0)

\* The states that a walk enqueues while it is at state r.
Successors(g, r) ==
    LET among[i \in 0..Len(Chars)] ==
            IF i = 0 THEN <<>>
            ELSE LET s == g.ary[r][Chars[i]]
                 IN  IF s \in {0, FAIL} THEN among[i - 1] ELSE Append(among[i - 1], s)
    IN  among[Len(Chars)]

StartFailure(g) == [g EXCEPT !.failure = [s \in DOMAIN g.ary |-> 0]]

\* From state s along failure transitions to one that has a transition on c.
Fallback(g, c) ==
    LET from[s \in DOMAIN g.ary] ==
            IF g.ary[s][c] # FAIL THEN s ELSE from[g.failure[s]]
    IN  from

\* Plausible slip: the outputs of the failure states are not inherited.
FailureRowAlone(g, r) ==
    LET reached == {c \in Char : g.ary[r][c] \notin {0, FAIL}}
    IN  [g EXCEPT !.failure =
            [s \in DOMAIN g.ary |->
                IF \E c \in reached : g.ary[r][c] = s
                THEN LET c == CHOOSE c \in reached : g.ary[r][c] = s
                     IN  g.ary[Fallback(g, c)[g.failure[r]]][c]
                ELSE g.failure[s]]]

\* The failure states of the successors of r, whose outputs they inherit.
FailureRow(g, r) ==
    LET reached == {c \in Char : g.ary[r][c] \notin {0, FAIL}}
        failure == [s \in DOMAIN g.ary |->
                       IF \E c \in reached : g.ary[r][c] = s
                       THEN LET c == CHOOSE c \in reached : g.ary[r][c] = s
                            IN  g.ary[Fallback(g, c)[g.failure[r]]][c]
                       ELSE g.failure[s]]
    IN  [g EXCEPT !.failure = failure,
                  !.output = [s \in DOMAIN @ |->
                                 IF \E c \in reached : g.ary[r][c] = s
                                 THEN @[s] \o @[failure[s]] ELSE @[s]]]

StartDelta(g) ==
    [g EXCEPT !.delta = [s \in DOMAIN g.ary |->
                            IF s = 0 THEN g.ary[0] ELSE [c \in Char |-> 0]]]

\* Failure transitions folded into the row of state r.
DeltaRow(g, r) ==
    [g EXCEPT !.delta[r] = [c \in Char |-> IF g.ary[r][c] # FAIL THEN g.ary[r][c]
                                           ELSE g.delta[g.failure[r]][c]]]

-----------------------------------------------------------------------------
(* What the automaton is for                                               *)

\* The state that a keyword's prefix leads to.
StateOf(g, text) ==
    LET at[i \in 0..Len(text)] == IF i = 0 THEN 0 ELSE g.ary[at[i - 1]][text[i]]
    IN  at[Len(text)]

LongestSuffix(text, known) ==
    CHOOSE t \in Suffixes(text) \cap known :
        \A u \in Suffixes(text) \cap known : Len(u) <= Len(t)

\* Whatever has been read, the automaton is in the state of the longest text
\* that starts a keyword and ends what was read, and that state counts every
\* keyword that ends there, each as often as it was entered.
Recognises(g, keywords) ==
    LET known == (UNION {Prefixes(keywords[i]) : i \in DOMAIN keywords}) \cup {<<>>}
        ending(text, n) == {i \in DOMAIN keywords : /\ keywords[i] \in Suffixes(text)
                                                    /\ NodesOnPath(keywords[i]) = n}
    IN  /\ Cardinality(DOMAIN g.ary) = Cardinality(known)
        /\ \A text \in known :
              LET s == StateOf(g, text)
              IN  /\ \A c \in Char :
                        g.delta[s][c] = StateOf(g, LongestSuffix(Append(text, c), known))
                  /\ \A n \in 0..g.max_node_count + 1 :
                        Cardinality({i \in DOMAIN g.output[s] : g.output[s][i] = n})
                          = Cardinality(ending(text, n))

=============================================================================
