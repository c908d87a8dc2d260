----------------------------- MODULE ArenaProofs -----------------------------
(* Proofs about the allocator of arena.c, for every page size, unit, header,  *)
(* request and amount of memory: that what it hands out are separate, aligned *)
(* blocks inside their slabs, when it calls malloc, and that it fails only    *)
(* when the arena has outgrown an int.                                        *)
EXTENDS Arena, TLAPS

(* ------------------------------------------------------------------------ *)
(* arithmetic                                                                 *)

\* The macro roundup gives a multiple of y that is not below x.
LEMMA RoundUp ==
    ASSUME NEW x \in Nat, NEW y \in Nat \ {0}
    PROVE  /\ roundup(x, y) \in Nat
           /\ roundup(x, y) >= x
           /\ x > 0 => roundup(x, y) >= y
           /\ \E k \in Nat : roundup(x, y) = k * y
<1> DEFINE a == x + (y - 1)
           q == a \div y
           r == a % y
<1>1. a \in Nat /\ a >= y - 1 /\ (x > 0 => a >= y)
    OBVIOUS
<1> HIDE DEF a
<1>2. q \in Int /\ r \in 0..y-1 /\ a = y * q + r
    BY <1>1, SMT
<1> HIDE DEF q, r
<1>3. q >= 0
    <2> SUFFICES ASSUME q <= -1 PROVE FALSE
        BY <1>2
    <2>1. y * q <= -y
        BY <1>2, SMT
    <2> QED BY <2>1, <1>2, <1>1
<1>4. x > 0 => q >= 1
    <2> SUFFICES ASSUME x > 0, q = 0 PROVE FALSE
        BY <1>2, <1>3
    <2>1. y * q = 0
        BY SMT
    <2> QED BY <2>1, <1>2, <1>1
<1>5. q >= 1 => y * q >= y
    BY <1>2, SMT
<1>6. q * y = y * q /\ q * y \in Int
    BY <1>2, SMT
<1>7. roundup(x, y) = q * y
    BY DEF roundup, q, a
<1>8. q * y = a - r
    BY <1>2, <1>6
<1>9. a - r >= x
    BY <1>2 DEF a
<1> QED BY <1>1, <1>2, <1>3, <1>4, <1>5, <1>6, <1>7, <1>8, <1>9

\* A sum of multiples of the unit is one, and leaves no remainder.
LEMMA Multiples ==
    ASSUME NEW y \in Nat \ {0}, NEW k \in Nat, NEW m \in Nat
    PROVE  /\ k * y + m * y = (k + m) * y
           /\ (k * y) % y = 0
<1>1. k * y + m * y = (k + m) * y
    BY SMT
<1>2. (k * y) % y = 0
    BY SMT
<1> QED BY <1>1, <1>2

\* An int holds every value from 0 to IntMax.
LEMMA AsIntExact ==
    ASSUME NEW n \in 0..IntMax
    PROVE  AsInt(n) = n
<1> DEFINE a == n + IntMax + 1
           m == 2 * (IntMax + 1)
<1>1. a \in 0..m-1 /\ m \in Nat \ {0}
    BY ArenaAssumption
<1> HIDE DEF a, m
<1>2. a % m = a
    BY <1>1, SMT
<1>3. a - (IntMax + 1) = n
    BY ArenaAssumption DEF a
<1> QED BY <1>2, <1>3 DEF AsInt, a, m

\* Whatever is assigned to an int, it then has a value of an int.
LEMMA AsIntInRange ==
    ASSUME NEW n \in Int
    PROVE  AsInt(n) \in -(IntMax + 1)..IntMax
<1> DEFINE a == n + IntMax + 1
           m == 2 * (IntMax + 1)
<1>1. a \in Int /\ m \in Nat \ {0} /\ IntMax \in Nat
    BY ArenaAssumption
<1>2. m = IntMax + 1 + IntMax + 1
    BY <1>1
<1> HIDE DEF a, m
<1>3. a % m \in 0..m-1
    BY <1>1, SMT
<1>4. AsInt(n) = (a % m) - (IntMax + 1)
    BY DEF AsInt, a, m
<1> QED BY <1>1, <1>2, <1>3, <1>4

(* ------------------------------------------------------------------------ *)
(* the inductive invariant                                                    *)

\* Each slab knows its place in the list, cuts off multiples of the unit,
\* and has given no more than was taken since the last reset.
SlabsKept ==
    \A i \in DOMAIN slabs :
        /\ slabs[i].chunk = Len(slabs) - i
        /\ \E k \in Nat : slabs[i].next_allocation = k * Unit
        /\ slabs[i].next_allocation + slabs[i].remaining = slabs[i].sz
        /\ slabs[i].next_allocation <= used

\* Every block ends before the free part of the slab it was cut from.
BlocksBelowNext ==
    \A b \in blocks :
        \E i \in DOMAIN slabs :
            /\ slabs[i].chunk = b.chunk
            /\ b.at + b.size <= slabs[i].next_allocation

IInv == ArenaTypeOK /\ PageSizePaidFor /\ SlabsKept /\ BlocksBelowNext

\* A new arena has no slab and no block.
LEMMA InitIInv == ArenaInit => IInv
<1> SUFFICES ASSUME ArenaInit PROVE IInv
    OBVIOUS
<1>1. slabs = <<>> /\ DOMAIN slabs = {}
    BY DEF ArenaInit
<1>2. status \in {"open", "deallocated", "broken"}
    BY DEF ArenaInit
<1>3. slabs \in Seq(Slab)
    BY <1>1
<1>4. ArenaTypeOK
    BY <1>2, <1>3, ArenaAssumption DEF ArenaInit, ArenaTypeOK
<1>5. PageSizePaidFor
    BY ArenaAssumption DEF ArenaInit, PageSizePaidFor
<1>6. SlabsKept /\ BlocksBelowNext
    BY <1>1 DEF ArenaInit, SlabsKept, BlocksBelowNext
<1> QED BY <1>4, <1>5, <1>6 DEF IInv

\* The size a request is rounded up to.
LEMMA RequestSize ==
    ASSUME NEW size \in Requests
    PROVE  /\ size \in Nat \ {0}
           /\ roundup(size, Unit) \in Nat \ {0}
           /\ size <= roundup(size, Unit)
           /\ \E k \in Nat : roundup(size, Unit) = k * Unit
<1>1. size \in Nat \ {0} /\ Unit \in Nat \ {0}
    BY ArenaAssumption
<1>2. /\ roundup(size, Unit) \in Nat
      /\ roundup(size, Unit) >= size
      /\ \E k \in Nat : roundup(size, Unit) = k * Unit
    BY <1>1, RoundUp
<1> QED BY <1>1, <1>2

\* Cutting a block off a slab leaves a slab.
LEMMA TakeKept ==
    ASSUME NEW slab \in Slab, NEW nsize \in Nat, nsize <= slab.remaining,
           \E k \in Nat : nsize = k * Unit,
           \E k \in Nat : slab.next_allocation = k * Unit
    PROVE  /\ Take(slab, nsize) \in Slab
           /\ Take(slab, nsize).chunk = slab.chunk
           /\ Take(slab, nsize).sz = slab.sz
           /\ Take(slab, nsize).next_allocation = slab.next_allocation + nsize
           /\ Take(slab, nsize).remaining = slab.remaining - nsize
           /\ \E k \in Nat : Take(slab, nsize).next_allocation = k * Unit
<1>1. PICK k \in Nat : nsize = k * Unit
    OBVIOUS
<1>2. PICK m \in Nat : slab.next_allocation = m * Unit
    OBVIOUS
<1>3. slab.next_allocation + nsize = (m + k) * Unit
    BY <1>1, <1>2, Multiples, ArenaAssumption
<1>4. /\ Take(slab, nsize) \in Slab
      /\ Take(slab, nsize).chunk = slab.chunk
      /\ Take(slab, nsize).sz = slab.sz
      /\ Take(slab, nsize).next_allocation = slab.next_allocation + nsize
      /\ Take(slab, nsize).remaining = slab.remaining - nsize
    <2>1. /\ slab.chunk \in Nat /\ slab.sz \in 0..IntMax
          /\ slab.remaining \in 0..IntMax /\ slab.next_allocation \in Nat
        BY DEF Slab
    <2> DEFINE rest == slab.remaining - nsize
               next == slab.next_allocation + nsize
    <2>2. rest \in 0..IntMax /\ next \in Nat
        BY <2>1, ArenaAssumption
    <2>3. Take(slab, nsize) \in Slab
        <3>1. Take(slab, nsize) = [slab EXCEPT !.next_allocation = next, !.remaining = rest]
            BY DEF Take
        <3> HIDE DEF rest, next
        <3> QED BY <2>2, <3>1 DEF Slab
    <2>4. /\ Take(slab, nsize).chunk = slab.chunk
          /\ Take(slab, nsize).sz = slab.sz
        BY DEF Take, Slab
    <2>5. Take(slab, nsize).next_allocation = slab.next_allocation + nsize
        BY DEF Take, Slab
    <2>6. Take(slab, nsize).remaining = slab.remaining - nsize
        BY DEF Take, Slab
    <2> QED BY <2>3, <2>4, <2>5, <2>6
<1>5. m + k \in Nat
    OBVIOUS
<1> QED BY <1>3, <1>4, <1>5

(* ------------------------------------------------------------------------ *)
(* arena_alloc                                                                *)

\* The block handed out next, of a slab whose free part starts at a distance.
NewBlock(slab, size) == [chunk |-> slab.chunk, at |-> slab.next_allocation, size |-> size]

\* A request served by a slab with room.
LEMMA TakeFromSlabIInv ==
    ASSUME IInv, NEW size \in Requests, TakeFromSlab(size)
    PROVE  IInv'
<1> DEFINE nsize == roundup(size, Unit)
<1>1. /\ size \in Nat \ {0} /\ nsize \in Nat \ {0} /\ size <= nsize
      /\ \E k \in Nat : nsize = k * Unit
    BY RequestSize
<1>2. PICK i \in DOMAIN slabs :
          /\ nsize <= slabs[i].remaining
          /\ status = "open"
          /\ slabs' = [slabs EXCEPT ![i] = Take(slabs[i], nsize)]
          /\ HandOut(slabs[i], size, nsize)
          /\ UNCHANGED <<pagesize, held>>
    BY DEF TakeFromSlab, WithRoom
<1> HIDE DEF nsize
<1>3. slabs[i] \in Slab /\ slabs \in Seq(Slab) /\ Len(slabs) \in Nat
      /\ DOMAIN slabs = 1..Len(slabs)
    BY DEF IInv, ArenaTypeOK
<1> DEFINE t == Take(slabs[i], nsize)
<1>4. /\ t \in Slab
      /\ t.chunk = slabs[i].chunk
      /\ t.sz = slabs[i].sz
      /\ t.next_allocation = slabs[i].next_allocation + nsize
      /\ t.remaining = slabs[i].remaining - nsize
      /\ \E k \in Nat : t.next_allocation = k * Unit
    BY <1>1, <1>2, <1>3, TakeKept DEF IInv, SlabsKept
<1>5. slabs' = [slabs EXCEPT ![i] = t]
    BY <1>2
<1> HIDE DEF t
<1>6. /\ slabs' \in Seq(Slab) /\ Len(slabs') = Len(slabs)
      /\ DOMAIN slabs' = DOMAIN slabs
      /\ slabs'[i] = t
      /\ \A j \in DOMAIN slabs : j # i => slabs'[j] = slabs[j]
    BY <1>3, <1>4, <1>5
<1>7. /\ blocks' = blocks \cup {NewBlock(slabs[i], size)}
      /\ used' = used + nsize
      /\ UNCHANGED <<status, pagesize, held>>
    BY <1>2 DEF HandOut, NewBlock
<1>8. NewBlock(slabs[i], size) \in Block
    BY <1>3 DEF NewBlock, Block, Slab
<1>9. used \in Nat /\ used' \in Nat /\ used <= used'
    BY <1>1, <1>7 DEF IInv, ArenaTypeOK
<1>10. ArenaTypeOK'
    <2>1. status' \in {"open", "deallocated", "broken"}
        BY <1>7 DEF IInv, ArenaTypeOK
    <2>2. blocks' \subseteq Block
        BY <1>7, <1>8 DEF IInv, ArenaTypeOK
    <2>3. pagesize' \in -(IntMax + 1)..IntMax /\ held' \in 0..Memory
        BY <1>7 DEF IInv, ArenaTypeOK
    <2> QED BY <1>6, <1>9, <2>1, <2>2, <2>3 DEF ArenaTypeOK, Block, Slab
<1>11. PageSizePaidFor'
    BY <1>7 DEF IInv, PageSizePaidFor
<1>12. SlabsKept'
    <2> SUFFICES ASSUME NEW j \in DOMAIN slabs
                 PROVE  /\ slabs'[j].chunk = Len(slabs) - j
                        /\ \E k \in Nat : slabs'[j].next_allocation = k * Unit
                        /\ slabs'[j].next_allocation + slabs'[j].remaining = slabs'[j].sz
                        /\ slabs'[j].next_allocation <= used'
        BY <1>6 DEF SlabsKept
    <2>0. slabs[j] \in Slab
        BY <1>3
    <2>1. /\ slabs[j].chunk = Len(slabs) - j
          /\ \E k \in Nat : slabs[j].next_allocation = k * Unit
          /\ slabs[j].next_allocation + slabs[j].remaining = slabs[j].sz
          /\ slabs[j].next_allocation <= used
        BY DEF IInv, SlabsKept
    <2>2. CASE j # i
        <3>1. slabs'[j] = slabs[j]
            BY <1>6, <2>2
        <3>2. slabs[j].next_allocation <= used'
            BY <1>9, <2>0, <2>1 DEF Slab
        <3> QED BY <2>1, <3>1, <3>2
    <2>3. CASE j = i
        <3>1. slabs'[j] = t
            BY <1>6, <2>3
        <3>2. t.next_allocation + t.remaining = t.sz
            BY <1>1, <1>3, <1>4, <2>1, <2>3 DEF Slab
        <3>3. t.next_allocation <= used'
            BY <1>1, <1>3, <1>4, <1>7, <1>9, <2>1, <2>3 DEF Slab
        <3> QED BY <1>4, <2>1, <2>3, <3>1, <3>2, <3>3
    <2> QED BY <2>2, <2>3
<1>13. BlocksBelowNext'
    <2> SUFFICES ASSUME NEW b \in blocks'
                 PROVE  \E j \in DOMAIN slabs :
                            /\ slabs'[j].chunk = b.chunk
                            /\ b.at + b.size <= slabs'[j].next_allocation
        BY <1>6 DEF BlocksBelowNext
    <2>1. CASE b = NewBlock(slabs[i], size)
        <3>1. b.chunk = slabs[i].chunk /\ b.at = slabs[i].next_allocation /\ b.size = size
            BY <2>1 DEF NewBlock
        <3>2. b.at + b.size <= t.next_allocation
            BY <1>1, <1>3, <1>4, <3>1 DEF Slab
        <3> QED BY <1>4, <1>6, <3>1, <3>2
    <2>2. CASE b \in blocks
        <3>1. PICK j \in DOMAIN slabs : /\ slabs[j].chunk = b.chunk
                                        /\ b.at + b.size <= slabs[j].next_allocation
            BY <2>2 DEF IInv, BlocksBelowNext
        <3>2. CASE j # i
            BY <1>6, <3>1, <3>2
        <3>3. CASE j = i
            <4>1. b.at + b.size \in Nat
                <5>1. b.at \in Nat /\ b.size \in Requests
                    BY <2>2 DEF IInv, ArenaTypeOK, Block
                <5>2. b.size \in Nat
                    BY <5>1, ArenaAssumption
                <5> QED BY <5>1, <5>2
            <4>2. b.at + b.size <= t.next_allocation
                <5> DEFINE end == b.at + b.size
                           next == slabs[i].next_allocation
                <5>1. end \in Nat /\ next \in Nat /\ nsize \in Nat /\ end <= next
                    BY <1>1, <1>3, <3>1, <3>3, <4>1 DEF Slab
                <5> HIDE DEF end, next
                <5>2. end <= next + nsize
                    BY <5>1
                <5> QED BY <1>4, <5>2 DEF end, next
            <4> QED BY <1>4, <1>6, <3>1, <3>3, <4>2
        <3> QED BY <3>2, <3>3
    <2> QED BY <1>7, <2>1, <2>2
<1> QED BY <1>10, <1>11, <1>12, <1>13 DEF IInv

\* A slab that malloc grants has room for the request and its header, and is at
\* least a page.  If the page size does not double, an int could not count what
\* the arena has obtained.
LEMMA GrantedSizes ==
    ASSUME IInv, NEW nsize \in Nat \ {0}, Granted(nsize)
    PROVE  /\ SlabSize(nsize) \in Nat
           /\ nsize + Header <= SlabSize(nsize)
           /\ held' = held + SlabSize(nsize)
           /\ held' \in 0..Memory
           /\ pagesize' \in -(IntMax + 1)..IntMax
           /\ pagesize' <= FirstPage + held'
           /\ pagesize' <= 0 => FirstPage + held' > IntMax
           /\ SlabSize(nsize) <= FirstPage + held'
<1> DEFINE m == SlabSize(nsize)
<1>1. /\ status = "open" /\ pagesize > 0
      /\ held' = held + m /\ held' <= Memory
      /\ pagesize' = AsInt(2 * pagesize)
    BY DEF Granted, NextPagesize
<1>2. /\ pagesize \in Nat \ {0} /\ pagesize <= IntMax /\ held \in Nat
      /\ pagesize <= FirstPage + held
    BY <1>1, ArenaAssumption DEF IInv, ArenaTypeOK, PageSizePaidFor
<1>3. /\ Header \in Nat /\ FirstPage \in Nat /\ IntMax \in Nat /\ Memory \in Nat
    BY ArenaAssumption
<1>4. nsize + Header \in Nat /\ nsize + Header > 0
    BY <1>3
<1>5. m \in Nat /\ nsize + Header <= m /\ pagesize <= m
    BY <1>2, <1>4, RoundUp DEF SlabSize
<1> HIDE DEF m
<1>6. held' \in 0..Memory /\ m <= FirstPage + held' /\ 2 * pagesize <= FirstPage + held'
    BY <1>1, <1>2, <1>3, <1>5
<1>7. pagesize' \in -(IntMax + 1)..IntMax
    BY <1>1, <1>2, AsIntInRange
<1>8. CASE 2 * pagesize <= IntMax
    <2>1. 2 * pagesize \in 0..IntMax /\ 2 * pagesize > 0
        BY <1>2, <1>3, <1>8
    <2>2. pagesize' = 2 * pagesize
        BY <1>1, <2>1, AsIntExact
    <2> QED BY <1>1, <1>5, <1>6, <1>7, <2>1, <2>2 DEF m
<1>9. CASE 2 * pagesize > IntMax
    <2>1. FirstPage + held' > IntMax
        BY <1>1, <1>2, <1>3, <1>5, <1>6, <1>9
    <2>2. pagesize' <= FirstPage + held'
        BY <1>1, <1>2, <1>3, <1>5, <1>7, <2>1
    <2> QED BY <1>1, <1>5, <1>6, <1>7, <2>1, <2>2 DEF m
<1> QED BY <1>2, <1>3, <1>8, <1>9

\* A request served by a new slab, whose int fields hold what it has.
LEMMA TakeFromNewSlabIInv ==
    ASSUME IInv, NEW size \in Requests, TakeFromNewSlab(size)
    PROVE  IInv'
<1> DEFINE nsize == roundup(size, Unit)
           sz == AsInt(SlabSize(nsize) - Header)
           slab == [chunk |-> Len(slabs), sz |-> sz, remaining |-> sz, next_allocation |-> 0]
<1>1. /\ size \in Nat \ {0} /\ nsize \in Nat \ {0} /\ size <= nsize
      /\ \E k \in Nat : nsize = k * Unit
    BY RequestSize
<1>2. /\ pagesize' \in -(IntMax + 1)..IntMax /\ held' \in 0..Memory
      /\ sz \in 0..IntMax /\ nsize <= sz
      /\ pagesize' <= FirstPage + held'
      /\ pagesize' <= 0 => FirstPage + held' > IntMax
    <2> DEFINE m == SlabSize(nsize)
    <2>1. Granted(nsize) /\ sz = m - Header /\ sz = AsInt(m - Header)
        BY DEF TakeFromNewSlab
    <2>2. /\ m \in Nat /\ nsize + Header <= m /\ held' \in 0..Memory
          /\ pagesize' \in -(IntMax + 1)..IntMax
          /\ pagesize' <= FirstPage + held'
          /\ pagesize' <= 0 => FirstPage + held' > IntMax
        BY <1>1, <2>1, GrantedSizes
    <2>3. Header \in Nat /\ IntMax \in Nat
        BY ArenaAssumption
    <2> HIDE DEF m, sz, nsize
    <2>4. m - Header \in Nat /\ nsize <= m - Header
        BY <1>1, <2>2, <2>3
    <2>5. AsInt(m - Header) \in -(IntMax + 1)..IntMax
        BY <2>4, AsIntInRange
    <2> QED BY <2>1, <2>2, <2>3, <2>4, <2>5
<1>3. /\ slabs' = <<Take(slab, nsize)>> \o slabs
      /\ blocks' = blocks \cup {NewBlock(slab, size)}
      /\ used' = used + nsize
      /\ UNCHANGED status
    BY DEF TakeFromNewSlab, HandOut, NewBlock
<1> HIDE DEF sz, nsize
<1>4. slabs \in Seq(Slab) /\ Len(slabs) \in Nat /\ DOMAIN slabs = 1..Len(slabs)
    BY DEF IInv, ArenaTypeOK
<1>5. slab \in Slab /\ slab.chunk = Len(slabs) /\ slab.sz = sz /\ slab.remaining = sz
      /\ slab.next_allocation = 0
    BY <1>2, <1>4 DEF Slab
<1> HIDE DEF slab
<1>6. \E k \in Nat : slab.next_allocation = k * Unit
    <2>1. 0 = 0 * Unit
        BY ArenaAssumption
    <2> QED BY <1>5, <2>1
<1> DEFINE t == Take(slab, nsize)
<1>7. /\ t \in Slab
      /\ t.chunk = Len(slabs)
      /\ t.sz = sz
      /\ t.next_allocation = nsize
      /\ t.remaining = sz - nsize
      /\ \E k \in Nat : t.next_allocation = k * Unit
    BY <1>1, <1>2, <1>5, <1>6, TakeKept
<1>8. slabs' = <<t>> \o slabs
    BY <1>3
<1> HIDE DEF t
<1>9. /\ slabs' \in Seq(Slab) /\ Len(slabs') = Len(slabs) + 1
      /\ DOMAIN slabs' = 1..Len(slabs) + 1
      /\ slabs'[1] = t
      /\ \A j \in DOMAIN slabs : slabs'[j + 1] = slabs[j]
    BY <1>4, <1>7, <1>8
<1>10. used \in Nat /\ used' \in Nat /\ used <= used' /\ nsize <= used'
    BY <1>1, <1>3 DEF IInv, ArenaTypeOK
<1>11. ArenaTypeOK'
    <2>1. NewBlock(slab, size) \in Block
        BY <1>5 DEF NewBlock, Block, Slab
    <2>2. blocks' \subseteq Block
        BY <1>3, <2>1 DEF IInv, ArenaTypeOK
    <2>3. status' \in {"open", "deallocated", "broken"}
        BY <1>3 DEF IInv, ArenaTypeOK
    <2> QED BY <1>2, <1>9, <1>10, <2>2, <2>3 DEF ArenaTypeOK, Block, Slab
<1>12. PageSizePaidFor'
    <2>1. status' = "open"
        BY <1>3 DEF TakeFromNewSlab, Granted
    <2> QED BY <1>2, <2>1 DEF PageSizePaidFor
<1>13. SlabsKept'
    <2> SUFFICES ASSUME NEW j \in 1..Len(slabs) + 1
                 PROVE  /\ slabs'[j].chunk = Len(slabs) + 1 - j
                        /\ \E k \in Nat : slabs'[j].next_allocation = k * Unit
                        /\ slabs'[j].next_allocation + slabs'[j].remaining = slabs'[j].sz
                        /\ slabs'[j].next_allocation <= used'
        <3>1. DOMAIN slabs' = 1..Len(slabs) + 1 /\ Len(slabs') = Len(slabs) + 1
            BY <1>9
        <3> QED BY <3>1 DEF SlabsKept
    <2>1. CASE j = 1
        <3>1. t.next_allocation + t.remaining = t.sz
            BY <1>1, <1>2, <1>7
        <3>2. t.chunk = Len(slabs) + 1 - j
            BY <1>4, <1>7, <2>1
        <3> QED BY <1>7, <1>9, <1>10, <2>1, <3>1, <3>2
    <2>2. CASE j # 1
        <3> DEFINE i == j - 1
        <3>1. i \in DOMAIN slabs /\ j = i + 1
            BY <1>4, <2>2
        <3> HIDE DEF i
        <3>2. slabs'[j] = slabs[i] /\ slabs[i] \in Slab
            BY <1>4, <1>9, <3>1
        <3>3. /\ slabs[i].chunk = Len(slabs) - i
              /\ \E k \in Nat : slabs[i].next_allocation = k * Unit
              /\ slabs[i].next_allocation + slabs[i].remaining = slabs[i].sz
              /\ slabs[i].next_allocation <= used
            BY <3>1 DEF IInv, SlabsKept
        <3>4. Len(slabs) - i = Len(slabs) + 1 - j
            BY <1>4, <3>1
        <3>5. slabs[i].next_allocation <= used'
            BY <1>10, <3>2, <3>3 DEF Slab
        <3> QED BY <3>2, <3>3, <3>4, <3>5
    <2> QED BY <2>1, <2>2
<1>14. BlocksBelowNext'
    <2> SUFFICES ASSUME NEW b \in blocks'
                 PROVE  \E j \in 1..Len(slabs) + 1 :
                            /\ slabs'[j].chunk = b.chunk
                            /\ b.at + b.size <= slabs'[j].next_allocation
        BY <1>9 DEF BlocksBelowNext
    <2>1. CASE b = NewBlock(slab, size)
        <3>1. b.chunk = Len(slabs) /\ b.at = 0 /\ b.size = size
            BY <1>5, <2>1 DEF NewBlock
        <3>2. b.at + b.size <= t.next_allocation
            BY <1>1, <1>7, <3>1
        <3>3. 1 \in 1..Len(slabs) + 1
            BY <1>4
        <3> QED BY <1>7, <1>9, <3>1, <3>2, <3>3
    <2>2. CASE b \in blocks
        <3>1. PICK i \in DOMAIN slabs : /\ slabs[i].chunk = b.chunk
                                        /\ b.at + b.size <= slabs[i].next_allocation
            BY <2>2 DEF IInv, BlocksBelowNext
        <3>2. i + 1 \in 1..Len(slabs) + 1 /\ slabs'[i + 1] = slabs[i]
            BY <1>4, <1>9
        <3> QED BY <3>1, <3>2
    <2> QED BY <1>3, <2>1, <2>2
<1> QED BY <1>11, <1>12, <1>13, <1>14 DEF IInv

\* A slab too large for its int fields: more memory than an int can count.
LEMMA TakeFromHugeSlabIInv ==
    ASSUME IInv, NEW size \in Requests, TakeFromHugeSlab(size)
    PROVE  IInv'
<1> DEFINE nsize == roundup(size, Unit)
           m == SlabSize(nsize)
<1>1. nsize \in Nat \ {0}
    BY RequestSize
<1>2. /\ Granted(nsize) /\ AsInt(m - Header) # m - Header
      /\ status' = "broken" /\ used' = used + nsize
      /\ UNCHANGED <<slabs, blocks>>
    BY DEF TakeFromHugeSlab
<1>3. /\ m \in Nat /\ nsize + Header <= m /\ held' \in 0..Memory
      /\ pagesize' \in -(IntMax + 1)..IntMax
      /\ pagesize' <= FirstPage + held' /\ m <= FirstPage + held'
    BY <1>1, <1>2, GrantedSizes
<1>4. Header \in Nat /\ IntMax \in Nat /\ FirstPage \in Nat
    BY ArenaAssumption
<1> HIDE DEF nsize, m
<1>5. m - Header \notin 0..IntMax
    BY <1>2, AsIntExact
<1>6. FirstPage + held' > IntMax
    <2>1. m - Header \in Nat
        BY <1>1, <1>3, <1>4
    <2>2. m > IntMax
        BY <1>3, <1>4, <1>5, <2>1
    <2> DEFINE all == FirstPage + held'
    <2>3. m <= all
        BY <1>3
    <2>4. all \in Int
        <3>1. held' \in Int
            <4>1. held' \in 0..Memory
                BY <1>3
            <4> QED BY <4>1, ArenaAssumption
        <3> QED BY <1>4, <3>1
    <2>5. m \in Int /\ IntMax \in Int
        BY <1>3, <1>4
    <2> HIDE DEF all
    <2>6. all > IntMax
        BY <2>2, <2>3, <2>4, <2>5
    <2> QED BY <2>6 DEF all
<1>7. used \in Nat /\ used' \in Nat /\ used <= used'
    BY <1>1, <1>2 DEF IInv, ArenaTypeOK
<1>8. ArenaTypeOK'
    BY <1>2, <1>3, <1>7 DEF IInv, ArenaTypeOK, Block, Slab
<1>9. PageSizePaidFor'
    BY <1>3, <1>6 DEF PageSizePaidFor
<1>10. SlabsKept'
    <2> SUFFICES ASSUME NEW j \in DOMAIN slabs
                 PROVE  slabs[j].next_allocation <= used'
        BY <1>2 DEF IInv, SlabsKept
    <2>1. slabs[j] \in Slab
        BY DEF IInv, ArenaTypeOK
    <2>2. slabs[j].next_allocation <= used
        BY DEF IInv, SlabsKept
    <2> QED BY <1>7, <2>1, <2>2 DEF Slab
<1>11. BlocksBelowNext'
    BY <1>2 DEF IInv, BlocksBelowNext
<1> QED BY <1>8, <1>9, <1>10, <1>11 DEF IInv

\* No slab at all: the page size has overflowed before.
LEMMA TakeFromNoSlabIInv ==
    ASSUME IInv, NEW size \in Requests, TakeFromNoSlab(size)
    PROVE  IInv'
<1>1. /\ pagesize <= 0 /\ status' = "broken"
      /\ UNCHANGED <<slabs, pagesize, blocks, held, used>>
    BY DEF TakeFromNoSlab
<1>2. ArenaTypeOK'
    BY <1>1 DEF IInv, ArenaTypeOK, Block, Slab
<1>3. PageSizePaidFor'
    BY <1>1 DEF IInv, PageSizePaidFor
<1>4. SlabsKept' /\ BlocksBelowNext'
    BY <1>1 DEF IInv, SlabsKept, BlocksBelowNext
<1> QED BY <1>2, <1>3, <1>4 DEF IInv

(* ------------------------------------------------------------------------ *)
(* free_arena_contents and deallocate_arena                                   *)

\* Emptied slabs are where they were, and have given nothing.
LEMMA FreeIInv ==
    ASSUME IInv, free_arena_contents
    PROVE  IInv'
<1>1. slabs \in Seq(Slab) /\ Len(slabs) \in Nat /\ DOMAIN slabs = 1..Len(slabs)
    BY DEF IInv, ArenaTypeOK
<1>2. \A j \in DOMAIN slabs : slabs[j] \in Slab
    BY <1>1
<1>3. slabs' = Emptied /\ blocks' = {} /\ used' = 0 /\ UNCHANGED <<pagesize, held, status>>
    BY DEF free_arena_contents
<1>4. \A j \in DOMAIN slabs :
          LET s == [slabs[j] EXCEPT !.remaining = slabs[j].sz, !.next_allocation = 0]
          IN  /\ s \in Slab /\ s.chunk = slabs[j].chunk /\ s.sz = slabs[j].sz
              /\ s.remaining = slabs[j].sz /\ s.next_allocation = 0
    BY <1>2 DEF Slab
<1>5. /\ DOMAIN slabs' = 1..Len(slabs)
      /\ \A j \in 1..Len(slabs) :
            /\ slabs'[j] \in Slab /\ slabs'[j].chunk = slabs[j].chunk
            /\ slabs'[j].sz = slabs[j].sz
            /\ slabs'[j].remaining = slabs[j].sz /\ slabs'[j].next_allocation = 0
      /\ slabs' = [j \in 1..Len(slabs) |-> slabs'[j]]
    BY <1>1, <1>3, <1>4 DEF Emptied
<1>6. slabs' \in Seq(Slab) /\ Len(slabs') = Len(slabs)
    BY <1>1, <1>5
<1>7. ArenaTypeOK'
    <2>1. status' \in {"open", "deallocated", "broken"}
        BY <1>3 DEF IInv, ArenaTypeOK
    <2> QED BY <1>3, <1>6, <2>1 DEF IInv, ArenaTypeOK, Block, Slab
<1>8. PageSizePaidFor'
    BY <1>3 DEF IInv, PageSizePaidFor
<1>9. SlabsKept'
    <2> SUFFICES ASSUME NEW j \in 1..Len(slabs)
                 PROVE  /\ slabs'[j].chunk = Len(slabs) - j
                        /\ \E k \in Nat : slabs'[j].next_allocation = k * Unit
                        /\ slabs'[j].next_allocation + slabs'[j].remaining = slabs'[j].sz
                        /\ slabs'[j].next_allocation <= used'
        BY <1>5, <1>6 DEF SlabsKept
    <2>1. slabs'[j].chunk = Len(slabs) - j
        BY <1>1, <1>5 DEF IInv, SlabsKept
    <2>2. 0 = 0 * Unit
        BY ArenaAssumption
    <2>3. slabs[j].sz \in Nat
        <3>1. slabs[j].sz \in 0..IntMax
            BY <1>1, <1>2 DEF Slab
        <3> QED BY <3>1, ArenaAssumption
    <2> QED BY <1>3, <1>5, <2>1, <2>2, <2>3
<1>10. BlocksBelowNext'
    BY <1>3 DEF BlocksBelowNext
<1> QED BY <1>7, <1>8, <1>9, <1>10 DEF IInv

\* After deallocate_arena no slab and no block are left.
LEMMA DeallocateIInv ==
    ASSUME IInv, deallocate_arena
    PROVE  IInv'
<1>1. slabs' = <<>> /\ DOMAIN slabs' = {} /\ blocks' = {} /\ status' = "deallocated"
      /\ UNCHANGED <<pagesize, held, used>>
    BY DEF deallocate_arena
<1>2. slabs' \in Seq(Slab)
    BY <1>1
<1>3. status' \in {"open", "deallocated", "broken"}
    BY <1>1
<1>4. ArenaTypeOK'
    BY <1>1, <1>2, <1>3 DEF IInv, ArenaTypeOK, Block, Slab
<1>5. PageSizePaidFor' /\ SlabsKept' /\ BlocksBelowNext'
    BY <1>1 DEF IInv, PageSizePaidFor, SlabsKept, BlocksBelowNext
<1> QED BY <1>4, <1>5 DEF IInv

\* The invariant holds of every arena, whether or not its page size overflows.
THEOREM ArenaInvariant == ArenaSpec => []IInv
<1>1. IInv /\ [ArenaNext]_arenaVars => IInv'
    <2> SUFFICES ASSUME IInv, [ArenaNext]_arenaVars PROVE IInv'
        OBVIOUS
    <2>1. ASSUME NEW size \in Requests, TakeFromSlab(size) PROVE IInv'
        BY <2>1, TakeFromSlabIInv
    <2>2. ASSUME NEW size \in Requests, TakeFromNewSlab(size) PROVE IInv'
        BY <2>2, TakeFromNewSlabIInv
    <2>3. CASE free_arena_contents
        BY <2>3, FreeIInv
    <2>4. CASE deallocate_arena
        BY <2>4, DeallocateIInv
    <2>5. ASSUME NEW size \in Requests, TakeFromHugeSlab(size) PROVE IInv'
        BY <2>5, TakeFromHugeSlabIInv
    <2>6. ASSUME NEW size \in Requests, TakeFromNoSlab(size) PROVE IInv'
        BY <2>6, TakeFromNoSlabIInv
    <2>7. CASE UNCHANGED arenaVars
        BY <2>7 DEF arenaVars, IInv, ArenaTypeOK, PageSizePaidFor, SlabsKept, BlocksBelowNext,
                    Slab, Block
    <2> QED BY <2>1, <2>2, <2>3, <2>4, <2>5, <2>6, <2>7 DEF ArenaNext, Stopped
<1> QED BY InitIInv, <1>1, PTL DEF ArenaSpec

(* ------------------------------------------------------------------------ *)
(* the properties                                                             *)

\* Every variable of the allocator keeps its type, however much memory there
\* is: as long as a slab is in the list, its remainder is not negative, and
\* the page size may be negative.
THEOREM TypeCorrect == ArenaSpec => []ArenaTypeOK
<1>1. IInv => ArenaTypeOK
    BY DEF IInv
<1> QED BY ArenaInvariant, <1>1, PTL

\* Every block lies inside its slab, behind the header (arena.c:134-151).
THEOREM BlocksStayInside == ArenaSpec => []BlocksInsideSlabs
<1>1. IInv => BlocksInsideSlabs
    <2> SUFFICES ASSUME IInv, NEW b \in blocks
                 PROVE  \E i \in DOMAIN slabs :
                            /\ slabs[i].chunk = b.chunk
                            /\ b.at + b.size <= slabs[i].next_allocation
                            /\ slabs[i].next_allocation <= slabs[i].sz
                            /\ slabs[i].next_allocation + slabs[i].remaining = slabs[i].sz
        BY DEF BlocksInsideSlabs
    <2>1. PICK i \in DOMAIN slabs : /\ slabs[i].chunk = b.chunk
                                    /\ b.at + b.size <= slabs[i].next_allocation
        BY DEF IInv, BlocksBelowNext
    <2>2. slabs[i] \in Slab
        BY DEF IInv, ArenaTypeOK
    <2>3. slabs[i].next_allocation + slabs[i].remaining = slabs[i].sz
        BY DEF IInv, SlabsKept
    <2>4. slabs[i].next_allocation <= slabs[i].sz
        BY <2>2, <2>3 DEF Slab
    <2> QED BY <2>1, <2>3, <2>4
<1> QED BY ArenaInvariant, <1>1, PTL

\* The doubling of arena.c:136 overflows, and a slab is unusable, only in an
\* arena that has obtained more than an int can count, the first page included.
THEOREM FailsOnlyBeyondAnInt == ArenaSpec => []PageSizePaidFor
<1>1. IInv => PageSizePaidFor
    BY DEF IInv
<1> QED BY ArenaInvariant, <1>1, PTL

\* malloc is called only for more memory than any slab of the arena has.
THEOREM ArenaIsReused == ArenaSpec => GrowsOnlyForMore
<1>1. IInv /\ [ArenaNext]_arenaVars
        => [held' # held => \A i \in DOMAIN slabs : used' > slabs[i].sz]_arenaVars
    <2> SUFFICES ASSUME IInv, ArenaNext, held' # held, NEW i \in DOMAIN slabs
                 PROVE  used' > slabs[i].sz
        OBVIOUS
    <2>1. PICK size \in Requests : TakeFromNewSlab(size) \/ TakeFromHugeSlab(size)
        BY DEF ArenaNext, TakeFromSlab, TakeFromNoSlab, Stopped, arenaVars,
               free_arena_contents, deallocate_arena
    <2> DEFINE nsize == roundup(size, Unit)
    <2>2. ~(nsize <= slabs[i].remaining) /\ used' = used + nsize
        BY <2>1 DEF TakeFromNewSlab, TakeFromHugeSlab, Granted, WithRoom, HandOut
    <2>3. nsize \in Nat
        BY RequestSize
    <2> HIDE DEF nsize
    <2>4. slabs[i] \in Slab /\ used \in Nat
        BY DEF IInv, ArenaTypeOK
    <2>5. /\ slabs[i].next_allocation + slabs[i].remaining = slabs[i].sz
          /\ slabs[i].next_allocation <= used
        BY DEF IInv, SlabsKept
    <2> QED BY <2>2, <2>3, <2>4, <2>5 DEF Slab
<1> QED BY ArenaInvariant, <1>1, PTL DEF ArenaSpec, GrowsOnlyForMore

\* A block cut off a slab is aligned and shares no byte with the others.
LEMMA NewBlockIsDistinct ==
    ASSUME IInv, NEW size \in Requests, NEW slab \in Slab,
           \E k \in Nat : slab.next_allocation = k * Unit,
           blocks' = blocks \cup {NewBlock(slab, size)},
           \A b \in blocks : \/ b.chunk # slab.chunk
                             \/ b.at + b.size <= slab.next_allocation
    PROVE  Distinct!Allocate
<1> DEFINE b == NewBlock(slab, size)
<1>1. b.chunk = slab.chunk /\ b.at = slab.next_allocation /\ b.size = size
    BY DEF NewBlock
<1>2. b.at % Unit = 0
    BY <1>1, Multiples, ArenaAssumption
<1>3. \A c \in blocks : Distinct!Apart(b, c)
    BY <1>1 DEF Distinct!Apart
<1>4. b \in blocks' /\ blocks' = blocks \cup {b}
    OBVIOUS
<1> HIDE DEF b
<1> QED BY <1>1, <1>2, <1>3, <1>4 DEF Distinct!Allocate

\* The arena implements the allocator of separate blocks.
THEOREM ArenaAllocatesDistinctBlocks == ArenaSpec => ImplementsDistinctBlocks
<1>1. ArenaInit => Distinct!DistinctInit
    BY DEF ArenaInit, Distinct!DistinctInit
<1>2. IInv /\ [ArenaNext]_arenaVars => [Distinct!Allocate \/ Distinct!Empty]_blocks
    <2> SUFFICES ASSUME IInv, [ArenaNext]_arenaVars
                 PROVE  Distinct!Allocate \/ Distinct!Empty \/ blocks' = blocks
        OBVIOUS
    <2>0. slabs \in Seq(Slab) /\ Len(slabs) \in Nat /\ DOMAIN slabs = 1..Len(slabs)
        BY DEF IInv, ArenaTypeOK
    <2>1. ASSUME NEW size \in Requests, TakeFromSlab(size) PROVE Distinct!Allocate
        <3>1. PICK i \in DOMAIN slabs : HandOut(slabs[i], size, roundup(size, Unit))
            BY <2>1 DEF TakeFromSlab, WithRoom
        <3>2. blocks' = blocks \cup {NewBlock(slabs[i], size)}
            BY <3>1 DEF HandOut, NewBlock
        <3>3. slabs[i] \in Slab /\ \E k \in Nat : slabs[i].next_allocation = k * Unit
            BY <2>0 DEF IInv, SlabsKept
        <3>4. ASSUME NEW b \in blocks, b.chunk = slabs[i].chunk
              PROVE  b.at + b.size <= slabs[i].next_allocation
            <4>1. PICK j \in DOMAIN slabs : /\ slabs[j].chunk = b.chunk
                                            /\ b.at + b.size <= slabs[j].next_allocation
                BY DEF IInv, BlocksBelowNext
            <4>2. slabs[j].chunk = Len(slabs) - j /\ slabs[i].chunk = Len(slabs) - i
                BY DEF IInv, SlabsKept
            <4>3. Len(slabs) - i = Len(slabs) - j
                BY <3>4, <4>1, <4>2
            <4>4. i = j
                BY <2>0, <4>3
            <4> QED BY <4>1, <4>4
        <3> QED BY <3>2, <3>3, <3>4, NewBlockIsDistinct
    <2>2. ASSUME NEW size \in Requests, TakeFromNewSlab(size) PROVE Distinct!Allocate
        <3> DEFINE nsize == roundup(size, Unit)
                   sz == AsInt(SlabSize(nsize) - Header)
                   slab == [chunk |-> Len(slabs), sz |-> sz, remaining |-> sz,
                            next_allocation |-> 0]
        <3>1. blocks' = blocks \cup {NewBlock(slab, size)}
            BY <2>2 DEF TakeFromNewSlab, HandOut, NewBlock
        <3>2. sz \in 0..IntMax
            <4> DEFINE m == SlabSize(nsize)
            <4>1. Granted(nsize) /\ sz = m - Header /\ sz = AsInt(m - Header)
                BY <2>2 DEF TakeFromNewSlab
            <4>2. nsize \in Nat \ {0} /\ Header \in Nat /\ IntMax \in Nat
                BY RequestSize, ArenaAssumption
            <4>3. m \in Nat /\ nsize + Header <= m
                BY <4>1, <4>2, GrantedSizes
            <4> HIDE DEF m, sz, nsize
            <4>4. m - Header \in Nat
                BY <4>2, <4>3
            <4>5. AsInt(m - Header) \in -(IntMax + 1)..IntMax
                BY <4>4, AsIntInRange
            <4> QED BY <4>1, <4>2, <4>4, <4>5
        <3> HIDE DEF sz, nsize
        <3>3. slab \in Slab /\ slab.chunk = Len(slabs) /\ slab.next_allocation = 0
            BY <2>0, <3>2 DEF Slab
        <3> HIDE DEF slab
        <3>4. 0 = 0 * Unit
            BY ArenaAssumption
        <3>5. ASSUME NEW b \in blocks PROVE b.chunk # slab.chunk
            <4>1. PICK j \in DOMAIN slabs : slabs[j].chunk = b.chunk
                BY DEF IInv, BlocksBelowNext
            <4>2. slabs[j].chunk = Len(slabs) - j
                BY DEF IInv, SlabsKept
            <4> QED BY <2>0, <3>3, <4>1, <4>2
        <3> QED BY <3>1, <3>3, <3>4, <3>5, NewBlockIsDistinct
    <2>3. CASE free_arena_contents
        BY <2>3 DEF free_arena_contents, Distinct!Empty
    <2>4. CASE deallocate_arena
        BY <2>4 DEF deallocate_arena, Distinct!Empty
    <2>5. ASSUME NEW size \in Requests, TakeFromHugeSlab(size) PROVE blocks' = blocks
        BY <2>5 DEF TakeFromHugeSlab
    <2>6. ASSUME NEW size \in Requests, TakeFromNoSlab(size) PROVE blocks' = blocks
        BY <2>6 DEF TakeFromNoSlab
    <2>7. CASE UNCHANGED arenaVars
        BY <2>7 DEF arenaVars
    <2> QED BY <2>1, <2>2, <2>3, <2>4, <2>5, <2>6, <2>7 DEF ArenaNext, Stopped
<1> QED BY ArenaInvariant, <1>1, <1>2, PTL DEF ArenaSpec, ImplementsDistinctBlocks,
           Distinct!DistinctSpec

=============================================================================
