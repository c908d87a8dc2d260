-------------------------------- MODULE Arena --------------------------------
(***************************************************************************)
(* The slab allocator of arena.c, from which every node of a graph comes.  *)
(* An arena is a list of slabs, the newest first; a request is served by   *)
(* the first one with room, or by a new one of at least pagesize bytes.    *)
(* Nothing is given back until the whole arena is emptied between two      *)
(* top-level expressions, which keeps the slabs.                           *)
(*                                                                         *)
(* A slab is a record of struct memory_arena's fields; next_allocation is  *)
(* the distance from first_allocation.  Addresses are <<slab, distance>>:  *)
(* malloc returns aligned and separate chunks.  Sizes are of type size_t,  *)
(* what is kept of them is an int: more memory than an int can count is    *)
(* there to be had, and the allocator does not survive it.                 *)
(***************************************************************************)
EXTENDS Integers, Sequences

CONSTANTS
    Requests,       \* BOUND: the sizes that callers ask for
    Unit,           \* combosize
    Header,         \* headersize
    FirstPage,      \* 8 * getpagesize()
    IntMax,         \* the largest value of an int
    Memory          \* BOUND: what malloc grants in all

ASSUME ArenaAssumption ==
    /\ Requests \subseteq Nat \ {0}
    /\ Unit \in Nat \ {0}
    /\ Header \in Nat
    /\ FirstPage \in Nat \ {0}
    /\ IntMax \in Nat
    /\ FirstPage <= IntMax
    /\ Memory \in Nat

VARIABLES
    slabs,          \* the list behind the dummy head
    pagesize,       \* what the next slab's size is a multiple of
    blocks,         \* GHOST: the blocks handed out since the last reset
    held,           \* HISTORY: bytes obtained from malloc
    used,           \* HISTORY: bytes taken since the last reset
    status          \* deallocated, or broken by a slab that is not there

arenaVars == <<slabs, pagesize, blocks, held, used, status>>

roundup(x, y) == ((x + (y - 1)) \div y) * y

\* The value an int takes on: two's complement, where C leaves it undefined.
AsInt(n) == ((n + IntMax + 1) % (2 * (IntMax + 1))) - (IntMax + 1)

ArenaInit ==
    /\ slabs = <<>>
    /\ pagesize = FirstPage
    /\ blocks = {}
    /\ held = 0
    /\ used = 0
    /\ status = "open"

-----------------------------------------------------------------------------
(* arena_alloc                                                             *)

\* Plausible slip: the address handed out is not moved past the block.
TakeInPlace(slab, nsize) == [slab EXCEPT !.remaining = @ - nsize]

Take(slab, nsize) == [slab EXCEPT !.next_allocation = @ + nsize,
                                  !.remaining = @ - nsize]

\* What the caller gets of a slab, and what that makes of the histories.
HandOut(slab, size, nsize) ==
    /\ blocks' = blocks \cup {[chunk |-> slab.chunk, at |-> slab.next_allocation,
                               size |-> size]}
    /\ used' = used + nsize
    /\ UNCHANGED status

WithRoom(nsize) == {i \in DOMAIN slabs : nsize <= slabs[i].remaining}

\* The first slab of the list that has room.
TakeFromSlab(size) ==
    LET nsize == roundup(size, Unit)
    IN  \E i \in WithRoom(nsize) :
            /\ status = "open"
            /\ \A j \in WithRoom(nsize) : i <= j
            /\ slabs' = [slabs EXCEPT ![i] = Take(@, nsize)]
            /\ HandOut(slabs[i], size, nsize)
            /\ UNCHANGED <<pagesize, held>>

\* Plausible slip: the header's share of the new slab is forgotten.
SlabSizeBare(nsize) == roundup(nsize, pagesize)

SlabSize(nsize) == roundup(nsize + Header, pagesize)

\* Plausible slip: the doubling is of the slab, not of the page.
NextPagesizeOf(nsize) == AsInt(2 * SlabSize(nsize))

NextPagesize(nsize) == AsInt(2 * pagesize)

\* No slab has room: malloc grants a new one.
Granted(nsize) ==
    /\ status = "open"
    /\ WithRoom(nsize) = {}
    /\ pagesize > 0
    /\ held + SlabSize(nsize) <= Memory
    /\ held' = held + SlabSize(nsize)
    /\ pagesize' = NextPagesize(nsize)

\* It is put in front of the others, and its sz and remaining are as they
\* should be.
TakeFromNewSlab(size) ==
    LET nsize == roundup(size, Unit)
        sz == AsInt(SlabSize(nsize) - Header)
        slab == [chunk |-> Len(slabs), sz |-> sz, remaining |-> sz, next_allocation |-> 0]
    IN  /\ Granted(nsize)
        /\ sz = SlabSize(nsize) - Header
        /\ slabs' = <<Take(slab, nsize)>> \o slabs
        /\ HandOut(slab, size, nsize)

\* An int cannot hold what the slab has, and arena.c:122 compares a size_t with
\* what became of it: a negative remainder is room for anything.
TakeFromHugeSlab(size) ==
    LET nsize == roundup(size, Unit)
    IN  /\ Granted(nsize)
        /\ AsInt(SlabSize(nsize) - Header) # SlabSize(nsize) - Header
        /\ status' = "broken"
        /\ used' = used + nsize
        /\ UNCHANGED <<slabs, blocks>>

\* The doubling has overflowed.  Rounding up to a negative page, converted to
\* size_t, comes to no bytes or to more than malloc can grant, by how the
\* compiler takes pagesize - 1: the header is written where there is no slab.
TakeFromNoSlab(size) ==
    /\ status = "open"
    /\ WithRoom(roundup(size, Unit)) = {}
    /\ pagesize <= 0
    /\ status' = "broken"
    /\ UNCHANGED <<slabs, pagesize, blocks, held, used>>

-----------------------------------------------------------------------------
(* free_arena_contents and deallocate_arena                                *)

\* Plausible slip: the dummy head is skipped, and the slab behind it too.
EmptiedBehindFront == [i \in DOMAIN slabs |->
                          IF i = 1 THEN slabs[i]
                          ELSE [slabs[i] EXCEPT !.remaining = slabs[i].sz,
                                                !.next_allocation = 0]]

Emptied == [i \in DOMAIN slabs |-> [slabs[i] EXCEPT !.remaining = slabs[i].sz,
                                                    !.next_allocation = 0]]

free_arena_contents ==
    /\ status = "open"
    /\ slabs' = Emptied
    /\ blocks' = {}
    /\ used' = 0
    /\ UNCHANGED <<pagesize, held, status>>

\* At the interpreter's exit.
deallocate_arena ==
    /\ status = "open"
    /\ slabs' = <<>>
    /\ blocks' = {}
    /\ status' = "deallocated"
    /\ UNCHANGED <<pagesize, held, used>>

Stopped == status # "open" /\ UNCHANGED arenaVars

ArenaNext ==
    \/ \E size \in Requests : TakeFromSlab(size)
    \/ \E size \in Requests : TakeFromNewSlab(size)
    \/ \E size \in Requests : TakeFromHugeSlab(size)
    \/ \E size \in Requests : TakeFromNoSlab(size)
    \/ free_arena_contents
    \/ deallocate_arena
    \/ Stopped

ArenaSpec == ArenaInit /\ [][ArenaNext]_arenaVars

-----------------------------------------------------------------------------
(* Properties                                                              *)

Slab == [chunk : Nat, sz : 0..IntMax, remaining : 0..IntMax, next_allocation : Nat]

Block == [chunk : Nat, at : Nat, size : Requests]

\* Every variable has its type; the unsigned comparison of a request with
\* what remains (arena.c:122) relies on a remainder that is never negative.
ArenaTypeOK ==
    /\ slabs \in Seq(Slab)
    /\ pagesize \in -(IntMax + 1)..IntMax
    /\ blocks \subseteq Block
    /\ held \in 0..Memory
    /\ used \in Nat
    /\ status \in {"open", "deallocated", "broken"}

\* arena.c:134-151: every block lies inside the slab it was cut from, behind
\* the header, and before what the slab has left.
BlocksInsideSlabs ==
    \A b \in blocks :
        \E i \in DOMAIN slabs :
            /\ slabs[i].chunk = b.chunk
            /\ b.at + b.size <= slabs[i].next_allocation
            /\ slabs[i].next_allocation <= slabs[i].sz
            /\ slabs[i].next_allocation + slabs[i].remaining = slabs[i].sz

\* How long the allocator can be trusted (arena.c:134-143): the doubling
\* overflows, and a slab is unusable, only once the arena has obtained more
\* memory than an int can count, the first page's worth included.  Each
\* doubling was paid for with a slab of at least the old page size.
PageSizePaidFor ==
    /\ pagesize <= FirstPage + held
    /\ pagesize <= 0 \/ status = "broken" => FirstPage + held > IntMax

\* The comments of arena.c:133 and 136 say that a request no slab has room for
\* gets a new slab "of at least 1 page", and the next one twice as large:
\* refuted, the int overflows, and there is no slab then.
AlwaysANewSlab == status # "broken"

\* Emptying the arena keeps its slabs for the next expression: malloc is
\* called again only by one that has taken more memory than any single slab
\* has (arena.c:122-146 with 97-107).
GrowsOnlyForMore ==
    [][held' # held => \A i \in DOMAIN slabs : used' > slabs[i].sz]_arenaVars

Distinct == INSTANCE DistinctBlocks

\* The arena is an allocator of separate blocks.
ImplementsDistinctBlocks == Distinct!DistinctSpec

=============================================================================
