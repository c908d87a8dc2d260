--------------------------- MODULE DistinctBlocks ---------------------------
(***************************************************************************)
(* What the callers of an arena rely on: each block they get has the size  *)
(* they asked for, starts where any C object may start, and shares no byte *)
(* with a block handed out since the arena was last emptied.               *)
(***************************************************************************)
EXTENDS Integers

CONSTANTS
    Requests,       \* the sizes asked for
    Unit            \* the alignment of the most demanding type

VARIABLE blocks     \* the blocks handed out: which chunk, where, how long

Apart(b, c) ==
    \/ b.chunk # c.chunk
    \/ b.at + b.size <= c.at
    \/ c.at + c.size <= b.at

DistinctInit == blocks = {}

Allocate ==
    \E b \in blocks' :
        /\ blocks' = blocks \cup {b}
        /\ b.size \in Requests
        /\ b.at % Unit = 0
        /\ \A c \in blocks : Apart(b, c)

Empty == blocks' = {}

DistinctSpec == DistinctInit /\ [][Allocate \/ Empty]_blocks

=============================================================================
