------------------------------ MODULE FifoQueue ------------------------------
(* What the callers of cb.c rely on: a queue of automaton states that gives   *)
(* each of them back once, in the order they were put in, and that is         *)
(* discarded only after the last of them was taken.  The breadth-first walks  *)
(* of aho_corasick.c need that order: a failure transition is computed from   *)
(* those of shallower states, which must have left the queue before.          *)
EXTENDS Naturals, Sequences

CONSTANT States     \* what is queued: the states of an automaton

VARIABLES
    exists,         \* the queue is between its creation and its destruction
    queue,          \* what was put in and not taken yet, oldest first
    taken           \* what the last dequeue returned; <<>> before any

vars == <<exists, queue, taken>>

Init ==
    /\ exists = FALSE
    /\ queue = <<>>
    /\ taken = <<>>

Create ==
    /\ ~exists
    /\ exists' = TRUE
    /\ queue' = <<>>
    /\ taken' = <<>>

Put(s) ==
    /\ exists
    /\ queue' = Append(queue, s)
    /\ UNCHANGED <<exists, taken>>

Take ==
    /\ exists
    /\ queue # <<>>
    /\ taken' = <<Head(queue)>>
    /\ queue' = Tail(queue)
    /\ UNCHANGED exists

Discard ==
    /\ exists
    /\ queue = <<>>
    /\ exists' = FALSE
    /\ UNCHANGED <<queue, taken>>

Next ==
    \/ Create
    \/ \E s \in States : Put(s)
    \/ Take
    \/ Discard

Spec == Init /\ [][Next]_vars
==============================================================================
