------------------------------ MODULE MCLibrary ------------------------------
(***************************************************************************)
(* The three data structures under the interpreter: the queue of cb.c, the *)
(* hash table of hashtable.c and the arena of arena.c.  They share no      *)
(* state and no call, so that a behaviour has one of them at work and the  *)
(* other two untouched.                                                    *)
(***************************************************************************)
EXTENDS CircularBuffer, LinearHash, Arena

VARIABLE at_work

\* The queue: four slots, so that three elements fill it, and a list of up to
\* three.  The indices wrap round and the list grows and drains, in every order.

\* The table: one bucket at first.  Eight strings split it through two complete
\* rounds and into a third.  Two strings share a hash value, others share a
\* bucket in every round or are parted by one bit.
MCStrings == 1..8
MCHash == [s \in MCStrings |-> <<0, 1, 2, 3, 4, 5, 8, 8>>[s]]

\* The arena: blocks smaller than, as large as and larger than a page, none of
\* them a multiple of the unit, and one whose slab no int can count; three
\* doublings, the last of which overflows.
MCRequests == {5, 11, 25, 127}

LibraryVars == <<vars, tableVars, arenaVars, at_work>>

LibraryInit ==
    /\ Init /\ TableInit /\ ArenaInit
    /\ at_work \in {"queue", "table", "arena"}

LibraryNext ==
    /\ \/ at_work = "queue" /\ Next /\ UNCHANGED <<tableVars, arenaVars>>
       \/ at_work = "table" /\ TableNext /\ UNCHANGED <<vars, arenaVars>>
       \/ at_work = "arena" /\ ArenaNext /\ UNCHANGED <<vars, tableVars>>
    /\ UNCHANGED at_work

LibrarySpec == LibraryInit /\ [][LibraryNext]_LibraryVars

=============================================================================
