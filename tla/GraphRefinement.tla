-------------------------- MODULE GraphRefinement --------------------------
(***************************************************************************)
(* GraphReducer implements NormalOrder: unfolding the shared graph gives   *)
(* the term, storing a contractum is the contraction, everything else that *)
(* the walk, the reference counts and free_node do is invisible.           *)
(***************************************************************************)
EXTENDS GraphReducer

\* History: the terms of the reduction in progress, the entered one first.
VARIABLE past

\* The term that a node of the graph stands for.
Unfold[n \in Address] ==
    IF label[n] = App
    THEN [Unfold[left[n]] EXCEPT !.args = Append(@, Unfold[right[n]])]
    ELSE [head |-> label[n], args |-> <<>>]

\* What the reducer makes of the limit N that it is given: graph.c:228-229
\* counts the contraction before it asks for more than N of them.
LimitKept == IF setting.max_reduction_count = 0 THEN 0
             ELSE setting.max_reduction_count + 1

Normal == INSTANCE NormalOrder WITH
    rest   <- typed,
    parts  <- [i \in DOMAIN values |-> Unfold[values[i]]],
    term   <- IF Underway THEN Unfold[left[root]] ELSE [head |-> "none", args |-> <<>>],
    result <- IF Underway THEN grr ELSE "UNKNOWN",
    cycles <- setting.cycle_detection,
    limit  <- LimitKept

RecordPast ==
    past' = IF pc = "parsing" /\ pc' = "loop" THEN <<Unfold[left[root]]'>>
            ELSE IF pc = "store" /\ pc' = "incref" THEN Append(past, Unfold[left[root]]')
            ELSE IF pc = "returned" /\ pc' # pc THEN <<>>
            ELSE past

HistorySpec == Init /\ past = <<>> /\ [][Next /\ RecordPast]_<<vars, past>>

\* Every reduction is a normal-order reduction of the entered term, or of the
\* part after "reduce", and it reports a normal form, a cycle or the limit
\* exactly when there is one.  Meanwhile the other parts stay what they were.
ImplementsNormalOrder == Normal!Spec

\* README.md:73 says that "-N <number>" will "perform up to <number>
\* contractions on each input expression", and README.md:527 that the
\* evaluation will "stop reducing after `N` contractions": refuted, one more is
\* done.
ContractionsWithinLimit ==
    setting.max_reduction_count > 0 /\ past # <<>>
        => Len(past) - 1 <= setting.max_reduction_count

=============================================================================
