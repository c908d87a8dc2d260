--------------------------- MODULE NodeHeapProofs ---------------------------
(***************************************************************************)
(* The operations of NodeHeap.  They keep its types; free_node's steps     *)
(* keep the free list a list, the reference counts exact and the graphs    *)
(* without cycles; and so do new nodes above old ones.                     *)
(***************************************************************************)
EXTENDS NodeHeap, FiniteSetTheorems, SequenceTheorems, TLAPS

\* What new_term or new_application puts in a node.
Cell == [label : Label, left : Address, right : Address]

\* A piece of free_node's pending work: a call, or a node to be linked.
Task == [op : {"free"}, node : Address] \cup [op : {"link"}, node : Node]

\* A node handed out by new_node is one the arena has.
LEMMA FreshIsNode ==
    ASSUME HeapTypeOK, NEW k \in Nat, CanAllocate(k), NEW i \in 1..k
    PROVE  Fresh(i) \in Node
<1>1. CASE i <= Len(freeList)
  BY <1>1 DEF HeapTypeOK, Fresh
<1>2. CASE i > Len(freeList)
  <2>1. /\ Len(freeList) \in Nat /\ allocated \in 0..MaxNode /\ MaxNode \in Nat
        /\ allocated + k - Len(freeList) <= MaxNode
    BY MaxNodeAssumption DEF HeapTypeOK, CanAllocate
  <2> QED
    BY <1>2, <2>1 DEF Fresh, Node
<1> QED
  BY <1>1, <1>2 DEF HeapTypeOK

\* Counting the mentions of a node in a list of cells gives a number.
LEMMA MentionsIsNatural ==
    ASSUME NEW cells \in Seq(Cell), NEW n
    PROVE  Mentions(cells, n) \in Nat
<1>1. IsFiniteSet(DOMAIN cells)
  <2>1. DOMAIN cells = 1..Len(cells) /\ Len(cells) \in Nat
    OBVIOUS
  <2> QED
    BY <2>1, FS_Interval
<1>2. /\ IsFiniteSet({i \in DOMAIN cells : cells[i].left = n})
      /\ IsFiniteSet({i \in DOMAIN cells : cells[i].right = n})
  BY <1>1, FS_Subset
<1> QED
  BY <1>2, FS_CardinalityType DEF Mentions

\* The values that a caller of NewNodes gives refcnt and updateable.
LEMMA CountedAndClearedTypes ==
    ASSUME HeapTypeOK, NEW cells \in Seq(Cell)
    PROVE  /\ Counted(cells) \in [Address -> Int]
           /\ Cleared(cells) \in [Address -> {"left", "right", "none"}]
<1>1. \A n \in Address : Mentions(cells, n) \in Int
  BY MentionsIsNatural
<1>2. Counted(cells) \in [Address -> Int]
  BY <1>1 DEF Counted, HeapTypeOK
<1> QED
  BY <1>2 DEF Cleared, HeapTypeOK

\* Building cells keeps the heap's types, whatever counts the caller gives.
LEMMA NewNodesTypes ==
    ASSUME HeapTypeOK, NEW cells \in Seq(Cell), NewNodes(cells),
           refcnt' \in [Address -> Int],
           updateable' \in [Address -> {"left", "right", "none"}]
    PROVE  HeapTypeOK'
<1> DEFINE new == {Fresh(i) : i \in DOMAIN cells}
           cell(n) == cells[CHOOSE i \in DOMAIN cells : Fresh(i) = n]
           k == Len(cells)
<1>1. \A n \in new : cell(n) \in Cell
  OBVIOUS
<1>2. /\ k \in Nat /\ Len(freeList) \in Nat /\ allocated \in Nat
      /\ MaxNode \in Nat /\ allocated + k - Len(freeList) <= MaxNode
  BY MaxNodeAssumption DEF HeapTypeOK, NewNodes, CanAllocate
<1>3. label' \in [Address -> Label \cup {Blank}]
  BY <1>1 DEF HeapTypeOK, NewNodes, Cell
<1>4. /\ left' \in [Address -> Address]
      /\ right' \in [Address -> Address]
  <2>1. \A n \in new : cell(n).left \in Address /\ cell(n).right \in Address
    BY <1>1 DEF Cell
  <2>2. left' = [n \in Address |-> IF n \in new THEN cell(n).left ELSE left[n]]
    BY DEF NewNodes
  <2>3. right' = [n \in Address |-> IF n \in new THEN cell(n).right ELSE right[n]]
    BY DEF NewNodes
  <2>4. left \in [Address -> Address] /\ right \in [Address -> Address]
    BY DEF HeapTypeOK
  <2> HIDE DEF new, cell
  <2> QED
    BY <2>1, <2>2, <2>3, <2>4
<1>5. allocated' \in 0..MaxNode
  BY <1>2 DEF HeapTypeOK, NewNodes
<1>6. freeList' \in Seq(Node)
  <2>1. freeList' = SubSeq(freeList, k + 1, Len(freeList))
    BY DEF NewNodes
  <2>2. \A i \in k+1..Len(freeList) : freeList[i] \in Node
    BY <1>2 DEF HeapTypeOK
  <2> QED
    BY <1>2, <2>1, <2>2, SubSeqProperties DEF HeapTypeOK
<1>7. todo' \in Seq(Task)
  BY DEF HeapTypeOK, NewNodes, Task
<1> QED
  BY <1>3, <1>4, <1>5, <1>6, <1>7 DEF HeapTypeOK, Task

\* One step of free_node keeps the heap's types.
LEMMA FreeStepTypes ==
    ASSUME HeapTypeOK, FreeStep
    PROVE  HeapTypeOK'
<1>1. todo \in Seq(Task) /\ todo # <<>>
  BY DEF HeapTypeOK, FreeStep, Task
<1>2. Tail(todo) \in Seq(Task) /\ todo[1] \in Task
  BY <1>1
<1>3. CASE /\ todo[1].op = "free"
           /\ DropReference(todo[1].node, Tail(todo))
           /\ UNCHANGED <<right, freeList>>
  <2> DEFINE n == todo[1].node
  <2>1. n \in Address
    BY <1>2 DEF Task, Address
  <2>2. CASE n = Null
    BY <1>2, <1>3, <2>2 DEF HeapTypeOK, FreeStep, DropReference, Task
  <2>3. CASE n # Null
    <3>1. refcnt' \in [Address -> Int]
      <4>1. refcnt' = [refcnt EXCEPT ![n] = @ - 1]
        BY <1>3, <2>3 DEF DropReference
      <4>2. refcnt \in [Address -> Int] /\ refcnt[n] - 1 \in Int
        BY <2>1 DEF HeapTypeOK
      <4> HIDE DEF n
      <4> QED
        BY <4>1, <4>2
    <3>2. FreeCall(left[n]) \in Seq(Task) /\ FreeCall(right[n]) \in Seq(Task)
      BY <2>1 DEF HeapTypeOK, FreeCall, Task
    <3>3. <<[op |-> "link", node |-> n]>> \in Seq(Task)
      BY <2>1, <2>3 DEF Task, Address
    <3> DEFINE children == IF label[n] = App
                           THEN FreeCall(left[n]) \o FreeCall(right[n]) ELSE <<>>
    <3>4. children \in Seq(Task)
      BY <3>2, ConcatProperties
    <3>5. todo' \in Seq(Task)
      <4>1. todo' = IF refcnt[n] # 1 THEN Tail(todo)
                    ELSE children \o <<[op |-> "link", node |-> n]>> \o Tail(todo)
        BY <1>3, <2>3 DEF DropReference
      <4>2. children \o <<[op |-> "link", node |-> n]>> \in Seq(Task)
        BY <3>3, <3>4, ConcatProperties
      <4>3. children \o <<[op |-> "link", node |-> n]>> \o Tail(todo) \in Seq(Task)
        BY <1>2, <4>2, ConcatProperties
      <4> QED
        BY <1>2, <4>1, <4>3
    <3> QED
      BY <1>3, <3>1, <3>5 DEF HeapTypeOK, FreeStep, Task
  <2> QED
    BY <2>2, <2>3
<1>4. CASE /\ todo[1].op = "link"
           /\ LinkFree(todo[1].node, Tail(todo))
           /\ UNCHANGED refcnt
  <2> DEFINE n == todo[1].node
  <2>1. n \in Node
    BY <1>2, <1>4 DEF Task
  <2>2. freeList' \in Seq(Node)
    <3>1. <<n>> \in Seq(Node) /\ freeList \in Seq(Node)
      BY <2>1 DEF HeapTypeOK
    <3> QED
      BY <1>4, <3>1, ConcatProperties DEF LinkFree
  <2>3. right' \in [Address -> Address]
    <3>1. (IF freeList = <<>> THEN Null ELSE freeList[1]) \in Address
      BY DEF HeapTypeOK, Address
    <3> QED
      BY <1>4, <3>1 DEF HeapTypeOK, LinkFree
  <2>4. todo' \in Seq(Task)
    BY <1>2, <1>4 DEF LinkFree
  <2> QED
    BY <1>4, <2>2, <2>3, <2>4 DEF HeapTypeOK, FreeStep, Task
<1> QED
  BY <1>3, <1>4 DEF FreeStep

-----------------------------------------------------------------------------
\* The arena is finite.
LEMMA FiniteNodes ==
    /\ IsFiniteSet(Node) /\ IsFiniteSet(Address)
<1>1. IsFiniteSet(1..MaxNode)
  BY MaxNodeAssumption, FS_Interval
<1>2. IsFiniteSet(Node)
  BY <1>1 DEF Node
<1> QED
  BY <1>2, FS_AddElement DEF Address

\* A set of nodes has a highest element, whatever measures the height.
LEMMA MaximalExists ==
    ASSUME NEW f \in [Address -> Nat], NEW T \in SUBSET Address, T # {}
    PROVE  \E x \in T : \A y \in T : f[y] <= f[x]
<1> DEFINE Above(x) == {y \in T : f[y] > f[x]}
           R == StrictSubsetOrdering(T)
           S == {Above(x) : x \in T}
<1>1. IsFiniteSet(T)
  BY FiniteNodes, FS_Subset
<1>2. IsWellFoundedOn(R, FiniteSubsetsOf(T)) /\ FiniteSubsetsOf(T) = SUBSET T
  BY <1>1, FS_StrictSubsetOrderingWellFounded, FS_FiniteSubsetsOfFinite
<1>3. S \subseteq SUBSET T /\ S # {}
  OBVIOUS
<1>4. PICK U \in S : \A V \in S : ~ (<<V, U>> \in R)
  <2> HIDE DEF R, S
  <2> QED
    BY <1>2, <1>3, WFMin
<1>5. PICK x \in T : U = Above(x)
  BY <1>4
<1>6. SUFFICES ASSUME NEW y \in T, ~(f[y] <= f[x]) PROVE FALSE
  BY <1>5
<1>7. f[x] \in Nat /\ f[y] \in Nat /\ \A z \in T : f[z] \in Nat
  OBVIOUS
<1>8. Above(y) \subseteq Above(x) /\ y \in Above(x) /\ y \notin Above(y)
  BY <1>6, <1>7
<1>9. <<Above(y), Above(x)>> \in R
  BY <1>8 DEF StrictSubsetOrdering
<1> QED
  <2>1. Above(y) \in S
    OBVIOUS
  <2> HIDE DEF R, S, Above
  <2> QED
    BY <2>1, <1>4, <1>5, <1>9

\* And a lowest.
LEMMA MinimalExists ==
    ASSUME NEW f \in [Address -> Nat], NEW T \in SUBSET Address, T # {}
    PROVE  \E x \in T : \A y \in T : f[x] <= f[y]
<1> DEFINE Below(x) == {y \in T : f[y] < f[x]}
           R == StrictSubsetOrdering(T)
           S == {Below(x) : x \in T}
<1>1. IsFiniteSet(T)
  BY FiniteNodes, FS_Subset
<1>2. IsWellFoundedOn(R, FiniteSubsetsOf(T)) /\ FiniteSubsetsOf(T) = SUBSET T
  BY <1>1, FS_StrictSubsetOrderingWellFounded, FS_FiniteSubsetsOfFinite
<1>3. S \subseteq SUBSET T /\ S # {}
  OBVIOUS
<1>4. PICK U \in S : \A V \in S : ~ (<<V, U>> \in R)
  <2> HIDE DEF R, S
  <2> QED
    BY <1>2, <1>3, WFMin
<1>5. PICK x \in T : U = Below(x)
  BY <1>4
<1>6. SUFFICES ASSUME NEW y \in T, ~(f[x] <= f[y]) PROVE FALSE
  BY <1>5
<1>7. f[x] \in Nat /\ f[y] \in Nat /\ \A z \in T : f[z] \in Nat
  OBVIOUS
<1>8. Below(y) \subseteq Below(x) /\ y \in Below(x) /\ y \notin Below(y)
  BY <1>6, <1>7
<1>9. <<Below(y), Below(x)>> \in R
  BY <1>8 DEF StrictSubsetOrdering
<1> QED
  <2>1. Below(y) \in S
    OBVIOUS
  <2> HIDE DEF R, S, Below
  <2> QED
    BY <2>1, <1>4, <1>5, <1>9

-----------------------------------------------------------------------------
\* A reference that is there or not, as a number.
Bit(b) == IF b THEN 1 ELSE 0

\* Two finite sets that differ in one element at most.
LEMMA CountDiffers ==
    ASSUME NEW S, NEW T, NEW x, IsFiniteSet(S), T \ {x} = S \ {x}
    PROVE  /\ IsFiniteSet(T)
           /\ Cardinality(S) \in Nat /\ Cardinality(T) \in Nat
           /\ Cardinality(T) = Cardinality(S) + Bit(x \in T) - Bit(x \in S)
<1> DEFINE U == S \ {x}
<1>1. /\ IsFiniteSet(U) /\ Cardinality(S) \in Nat /\ Cardinality(U) \in Nat
      /\ Cardinality(U) = Cardinality(S) - Bit(x \in S)
  BY FS_RemoveElement, FS_CardinalityType DEF Bit
<1>2. CASE x \in T
  <2>1. T = U \cup {x} /\ x \notin U
    BY <1>2
  <2>2. IsFiniteSet(T) /\ Cardinality(T) = Cardinality(U) + 1
    <3> HIDE DEF U
    <3> QED
      BY <1>1, <2>1, FS_AddElement
  <2> QED
    BY <1>1, <1>2, <2>2 DEF Bit
<1>3. CASE x \notin T
  <2>1. T = U
    BY <1>3
  <2> QED
    BY <1>1, <1>3, <2>1 DEF Bit
<1> QED
  BY <1>2, <1>3

\* The sets of nodes, one within the other.
LEMMA LiveNodes ==
    ASSUME HeapTypeOK
    PROVE  /\ Live \subseteq Node /\ InUse \subseteq Live /\ Parents \subseteq InUse
           /\ IsFiniteSet(Parents) /\ Null \notin Node /\ Node \subseteq Address
<1>1. Live \subseteq Node /\ InUse \subseteq Live /\ Parents \subseteq InUse
  BY MaxNodeAssumption DEF HeapTypeOK, Live, InUse, Parents, Node
<1>2. IsFiniteSet(Parents)
  BY <1>1, FiniteNodes, FS_Subset
<1> QED
  BY <1>1, <1>2 DEF Node, Null, Address

\* A node has no edges exactly when no parent holds it.
LEMMA EdgesOfParents ==
    ASSUME HeapTypeOK, NEW n
    PROVE  /\ Edges(n) \in Nat
           /\ Edges(n) = 0 <=> \A p \in Parents : left[p] # n /\ right[p] # n
<1> DEFINE L == {p \in Parents : left[p] = n}
           R == {p \in Parents : right[p] = n}
<1>1. /\ IsFiniteSet(L) /\ Cardinality(L) \in Nat
      /\ IsFiniteSet(R) /\ Cardinality(R) \in Nat
  BY LiveNodes, FS_Subset, FS_CardinalityType
<1>2. /\ Cardinality(L) = 0 <=> L = {}
      /\ Cardinality(R) = 0 <=> R = {}
  <2> HIDE DEF L, R
  <2> QED
    BY <1>1, FS_EmptySet
<1>3. Edges(n) = Cardinality(L) + Cardinality(R)
  BY DEF Edges
<1>4. Edges(n) \in Nat /\ (Edges(n) = 0 <=> L = {} /\ R = {})
  <2> HIDE DEF L, R
  <2> QED
    BY <1>1, <1>2, <1>3
<1> QED
  BY <1>4

\* The edges to n after a step that changes one parent's children, or makes
\* or unmakes one parent.
LEMMA EdgesDiffer ==
    ASSUME HeapTypeOK, NEW p, NEW n, Parents' \ {p} = Parents \ {p},
           \A q \in Parents \ {p} : left'[q] = left[q] /\ right'[q] = right[q]
    PROVE  Edges(n)' = Edges(n)
              + Bit(p \in Parents' /\ left'[p] = n) + Bit(p \in Parents' /\ right'[p] = n)
              - Bit(p \in Parents /\ left[p] = n) - Bit(p \in Parents /\ right[p] = n)
<1> DEFINE L == {q \in Parents : left[q] = n}
           R == {q \in Parents : right[q] = n}
           L2 == {q \in Parents' : left'[q] = n}
           R2 == {q \in Parents' : right'[q] = n}
<1>1. IsFiniteSet(L) /\ IsFiniteSet(R)
  BY LiveNodes, FS_Subset
<1>2. L2 \ {p} = L \ {p} /\ R2 \ {p} = R \ {p}
  OBVIOUS
<1>3. /\ Cardinality(L) \in Nat /\ Cardinality(R) \in Nat
      /\ Cardinality(L2) = Cardinality(L) + Bit(p \in L2) - Bit(p \in L)
      /\ Cardinality(R2) = Cardinality(R) + Bit(p \in R2) - Bit(p \in R)
  <2> HIDE DEF L, R, L2, R2
  <2> QED
    BY <1>1, <1>2, CountDiffers
<1>4. Edges(n) = Cardinality(L) + Cardinality(R) /\ Edges(n)' = Cardinality(L2) + Cardinality(R2)
  BY DEF Edges
<1>5. /\ (p \in L <=> p \in Parents /\ left[p] = n)
      /\ (p \in R <=> p \in Parents /\ right[p] = n)
      /\ (p \in L2 <=> p \in Parents' /\ left'[p] = n)
      /\ (p \in R2 <=> p \in Parents' /\ right'[p] = n)
  OBVIOUS
<1> HIDE DEF L, R, L2, R2
<1> QED
  BY <1>3, <1>4, <1>5 DEF Bit

-----------------------------------------------------------------------------
\* How often x occurs in s.
Occurs(s, x) == Cardinality({i \in DOMAIN s : s[i] = x})

\* Occurrences in a concatenation,
LEMMA OccursConcat ==
    ASSUME NEW S, NEW s \in Seq(S), NEW t \in Seq(S), NEW x
    PROVE  /\ Occurs(s, x) \in Nat /\ Occurs(t, x) \in Nat
           /\ Occurs(s \o t, x) = Occurs(s, x) + Occurs(t, x)
<1> DEFINE m == Len(s)
           k == Len(t)
           A == {i \in 1..m : s[i] = x}
           B == {i \in 1..k : t[i] = x}
           C == {i \in m+1..m+k : t[i - m] = x}
<1>1. m \in Nat /\ k \in Nat /\ DOMAIN s = 1..m /\ DOMAIN t = 1..k
  BY LenProperties
<1>2. IsFiniteSet(A) /\ IsFiniteSet(B) /\ IsFiniteSet(C)
  <2>1. IsFiniteSet(1..m) /\ IsFiniteSet(1..k) /\ IsFiniteSet(m+1..m+k)
    BY <1>1, FS_Interval
  <2> QED
    BY <2>1, FS_Subset
<1>3. Cardinality(C) = Cardinality(B)
  <2> DEFINE f == [i \in B |-> i + m]
  <2>1. f \in [B -> C]
    BY <1>1
  <2>2. \A i, j \in B : f[i] = f[j] => i = j
    BY <1>1
  <2>3. \A c \in C : \E i \in B : f[i] = c
    <3> SUFFICES ASSUME NEW c \in C PROVE c - m \in B /\ f[c - m] = c
      OBVIOUS
    <3> QED
      BY <1>1
  <2>4. f \in Bijection(B, C)
    <3> HIDE DEF f, B, C
    <3> QED
      BY <2>1, <2>2, <2>3 DEF Bijection, Injection, Surjection, IsInjective
  <2> HIDE DEF f, B, C
  <2> QED
    BY <1>2, <2>4, FS_Bijection DEF ExistsBijection
<1>4. {i \in DOMAIN (s \o t) : (s \o t)[i] = x} = A \cup C
  <2>1. /\ DOMAIN (s \o t) = 1..m+k
        /\ \A i \in 1..m+k : (s \o t)[i] = IF i <= m THEN s[i] ELSE t[i - m]
    BY <1>1, ConcatProperties, LenProperties
  <2> QED
    BY <1>1, <2>1
<1>5. A \cap C = {}
  BY <1>1
<1>6. /\ Cardinality(A \cup C) = Cardinality(A) + Cardinality(C)
      /\ Cardinality(A) \in Nat /\ Cardinality(B) \in Nat
  <2> HIDE DEF A, B, C
  <2>1. Cardinality(A \cap C) = 0
    BY <1>5, FS_EmptySet
  <2>2. Cardinality(A) \in Nat /\ Cardinality(B) \in Nat /\ Cardinality(C) \in Nat
    BY <1>2, FS_CardinalityType
  <2>3. Cardinality(A \cup C) = Cardinality(A) + Cardinality(C) - Cardinality(A \cap C)
    BY <1>2, FS_Union
  <2> QED
    BY <2>1, <2>2, <2>3
<1> QED
  BY <1>1, <1>3, <1>4, <1>6 DEF Occurs

\* in a list of one element,
LEMMA OccursOnce ==
    ASSUME NEW x, NEW y
    PROVE  Occurs(<<y>>, x) = Bit(y = x)
<1>1. {i \in DOMAIN <<y>> : <<y>>[i] = x} = IF y = x THEN {1} ELSE {}
  OBVIOUS
<1>2. Cardinality({1}) = 1 /\ Cardinality({}) = 0
  BY FS_Singleton, FS_EmptySet
<1> QED
  BY <1>1, <1>2 DEF Occurs, Bit

\* and apart from the first element.
LEMMA OccursFirst ==
    ASSUME NEW S, NEW s \in Seq(S), s # <<>>, NEW x
    PROVE  /\ Occurs(s, x) \in Nat /\ Occurs(Tail(s), x) \in Nat
           /\ Occurs(s, x) = Bit(s[1] = x) + Occurs(Tail(s), x)
<1>1. Tail(s) \in Seq(S) /\ s[1] \in S /\ <<s[1]>> \in Seq(S)
  OBVIOUS
<1>2. s = <<s[1]>> \o Tail(s)
  OBVIOUS
<1>3. Occurs(<<s[1]>> \o Tail(s), x) = Occurs(<<s[1]>>, x) + Occurs(Tail(s), x)
  BY <1>1, OccursConcat
<1>4. Occurs(s, x) \in Nat /\ Occurs(Tail(s), x) \in Nat
  BY <1>1, OccursConcat
<1> QED
  BY <1>2, <1>3, <1>4, OccursOnce

\* x occurs exactly when some element is x
LEMMA OccursPositive ==
    ASSUME NEW S, NEW s \in Seq(S), NEW x
    PROVE  Occurs(s, x) \in Nat /\ (Occurs(s, x) = 0 <=> \A i \in DOMAIN s : s[i] # x)
<1> DEFINE A == {i \in DOMAIN s : s[i] = x}
<1>1. IsFiniteSet(A)
  <2>1. IsFiniteSet(DOMAIN s)
    BY LenProperties, FS_Interval
  <2> QED
    BY <2>1, FS_Subset
<1>2. Cardinality(A) \in Nat /\ (Cardinality(A) = 0 <=> A = {})
  <2> HIDE DEF A
  <2> QED
    BY <1>1, FS_CardinalityType, FS_EmptySet
<1> QED
  BY <1>2 DEF Occurs

-----------------------------------------------------------------------------
\* Two lists of one element.
LEMMA TwoConcat ==
    ASSUME NEW S, NEW a \in S, NEW b \in S
    PROVE  <<a>> \o <<b>> = <<a, b>>
<1> DEFINE s == <<a>>
           t == <<b>>
           e == s \o t
           u == <<a, b>>
<1>1. /\ s \in Seq(S) /\ Len(s) = 1 /\ s[1] = a
      /\ t \in Seq(S) /\ Len(t) = 1 /\ t[1] = b
      /\ u \in Seq(S) /\ Len(u) = 2 /\ u[1] = a /\ u[2] = b
  OBVIOUS
<1>2. e \in Seq(S) /\ Len(e) = 2 /\ e[1] = a /\ e[2] = b
  <2> HIDE DEF s, t
  <2>1. /\ e \in Seq(S) /\ Len(e) = Len(s) + Len(t)
        /\ \A i \in 1..Len(s) + Len(t) :
              e[i] = IF i <= Len(s) THEN s[i] ELSE t[i - Len(s)]
    BY <1>1, ConcatProperties
  <2> QED
    BY <1>1, <2>1
<1> HIDE DEF s, t, e, u
<1>3. \A i \in 1..Len(e) : e[i] = u[i]
  BY <1>1, <1>2
<1>4. e = u
  BY <1>1, <1>2, <1>3, SeqEqual
<1> QED
  BY <1>4 DEF e, u, s, t

\* The two kinds of work.
FreeTask(c) == [op |-> "free", node |-> c]
LinkTask(c) == [op |-> "link", node |-> c]

\* A piece of work is of one kind.
LEMMA TaskFields ==
    ASSUME NEW t \in Task
    PROVE  /\ t.op \in {"free", "link"} /\ t.node \in Address
           /\ t.op = "link" => t.node \in Node /\ t = LinkTask(t.node)
           /\ t.op = "free" => t = FreeTask(t.node)
           /\ \A c : t = FreeTask(c) => t.op = "free" /\ t.node = c
BY DEF Task, FreeTask, LinkTask, Address

\* The elements of the pending work.
LEMMA TodoIsTasks ==
    ASSUME HeapTypeOK
    PROVE  /\ todo \in Seq(Task)
           /\ Len(todo) \in Nat /\ DOMAIN todo = 1..Len(todo)
           /\ \A i \in DOMAIN todo : todo[i] \in Task
<1>1. todo \in Seq(Task)
  BY DEF HeapTypeOK, Task
<1> QED
  BY <1>1, LenProperties, ElementOfSeq

\* The free_node calls still to run, as occurrences in the list.
LEMMA PendingOccurs ==
    ASSUME HeapTypeOK, NEW c
    PROVE  /\ Pending(c) = Occurs(todo, FreeTask(c))
           /\ Pending(c) \in Nat
           /\ Pending(c) = 0 <=> \A i \in DOMAIN todo : todo[i] # FreeTask(c)
<1>1. Pending(c) = Occurs(todo, FreeTask(c))
  BY DEF Pending, Occurs, FreeTask
<1> QED
  BY <1>1, TodoIsTasks, OccursPositive

\* One piece of free_node's work, and what is left of it.
FreeNothing ==
    /\ todo[1] = FreeTask(Null) /\ todo' = Tail(todo)
    /\ UNCHANGED <<refcnt, right, freeList>>

\* n keeps other references.
FreeShared(n) ==
    /\ todo[1] = FreeTask(n) /\ refcnt[n] # 1 /\ todo' = Tail(todo)
    /\ refcnt' = [refcnt EXCEPT ![n] = @ - 1]
    /\ UNCHANGED <<right, freeList>>

\* The calls free_node makes for the fields of n.
Children(n) == IF label[n] = App THEN <<FreeTask(left[n]), FreeTask(right[n])>> ELSE <<>>

\* The last reference to n goes.
FreeLast(n) ==
    /\ todo[1] = FreeTask(n) /\ refcnt[n] = 1
    /\ todo' = Children(n) \o <<LinkTask(n)>> \o Tail(todo)
    /\ refcnt' = [refcnt EXCEPT ![n] = @ - 1]
    /\ UNCHANGED <<right, freeList>>

\* n's children are done.
LinkOne(n) ==
    /\ todo[1] = LinkTask(n) /\ LinkFree(n, Tail(todo))
    /\ UNCHANGED refcnt

\* free_node does one of these things.
LEMMA FreeStepCases ==
    ASSUME HeapTypeOK, FreeStep
    PROVE  /\ todo # <<>> /\ UNCHANGED <<label, left, updateable, allocated>>
           /\ \/ FreeNothing
              \/ \E n \in Node : FreeShared(n) \/ FreeLast(n) \/ LinkOne(n)
<1>1. todo # <<>> /\ todo[1] \in Task
  BY TodoIsTasks DEF FreeStep
<1>2. todo[1].op \in {"free", "link"} /\ todo[1].node \in Address
  BY <1>1, TaskFields
<1> DEFINE n == todo[1].node
<1>3. CASE todo[1].op = "free"
  <2>1. /\ todo[1] = FreeTask(n) /\ DropReference(n, Tail(todo))
        /\ UNCHANGED <<right, freeList>>
    BY <1>1, <1>3, TaskFields DEF FreeStep
  <2>2. CASE n = Null
    BY <2>1, <2>2 DEF FreeNothing, DropReference, FreeStep
  <2>3. CASE n # Null
    <3>1. n \in Node
      BY <1>2, <2>3 DEF Address
    <3>2. /\ refcnt' = [refcnt EXCEPT ![n] = @ - 1]
          /\ todo' = IF refcnt[n] # 1 THEN Tail(todo)
                     ELSE (IF label[n] = App THEN FreeCall(left[n]) \o FreeCall(right[n])
                                             ELSE <<>>) \o <<LinkTask(n)>> \o Tail(todo)
      BY <2>1, <2>3 DEF DropReference, LinkTask
    <3>3. \A a, b \in Address : FreeCall(a) \o FreeCall(b) = <<FreeTask(a), FreeTask(b)>>
      <4>1. ASSUME NEW a \in Address, NEW b \in Address
            PROVE  FreeCall(a) \o FreeCall(b) = <<FreeTask(a), FreeTask(b)>>
        <5>1. FreeCall(a) = <<FreeTask(a)>> /\ FreeCall(b) = <<FreeTask(b)>>
          BY DEF FreeCall, FreeTask
        <5>2. FreeTask(a) \in Task /\ FreeTask(b) \in Task
          BY DEF FreeTask, Task
        <5>3. <<FreeTask(a)>> \o <<FreeTask(b)>> = <<FreeTask(a), FreeTask(b)>>
          BY <5>2, TwoConcat
        <5> QED
          BY <5>1, <5>3
      <4> QED
        BY <4>1
    <3>5. left[n] \in Address /\ right[n] \in Address
      BY <1>2 DEF HeapTypeOK
    <3>4. FreeShared(n) \/ FreeLast(n)
      <4> HIDE DEF n
      <4> QED
        BY <2>1, <3>2, <3>3, <3>5 DEF FreeShared, FreeLast, Children
    <3> QED
      BY <3>1, <3>4 DEF FreeStep
  <2> QED
    BY <2>2, <2>3
<1>4. CASE todo[1].op = "link"
  <2>1. n \in Node /\ todo[1] = LinkTask(n)
    BY <1>1, <1>4, TaskFields
  <2>2. LinkOne(n)
    BY <1>4, <2>1 DEF FreeStep, LinkOne
  <2> QED
    BY <1>1, <2>1, <2>2 DEF FreeStep
<1> QED
  BY <1>2, <1>3, <1>4

\* What dropping the first piece of work leaves.
LEMMA TailOfTodo ==
    ASSUME HeapTypeOK, todo # <<>>, todo' = Tail(todo)
    PROVE  /\ DOMAIN todo' = 1..Len(todo) - 1 /\ 1 \in DOMAIN todo
           /\ \A i \in DOMAIN todo' : i + 1 \in DOMAIN todo /\ todo'[i] = todo[i + 1]
           /\ \A i \in DOMAIN todo : i # 1 => i - 1 \in DOMAIN todo' /\ todo'[i - 1] = todo[i]
           /\ \A c : Pending(c)' \in Nat /\ Pending(c)' = Pending(c) - Bit(todo[1] = FreeTask(c))
<1>1. /\ todo \in Seq(Task) /\ Len(todo) \in Nat /\ DOMAIN todo = 1..Len(todo)
  BY TodoIsTasks
<1>2. /\ Len(todo) # 0 /\ todo' \in Seq(Task) /\ Len(todo') = Len(todo) - 1
      /\ \A i \in 1..Len(todo) - 1 : todo'[i] = todo[i + 1]
  BY <1>1, HeadTailProperties, EmptySeq
<1>3. DOMAIN todo' = 1..Len(todo) - 1
  BY <1>2, LenProperties
<1>4. /\ \A i \in DOMAIN todo' : i + 1 \in DOMAIN todo /\ todo'[i] = todo[i + 1]
      /\ \A i \in DOMAIN todo : i # 1 => i - 1 \in DOMAIN todo' /\ todo'[i - 1] = todo[i]
  BY <1>1, <1>2, <1>3
<1>5. ASSUME NEW c
      PROVE  Pending(c)' \in Nat /\ Pending(c)' = Pending(c) - Bit(todo[1] = FreeTask(c))
  <2>1. Pending(c) = Occurs(todo, FreeTask(c)) /\ Pending(c)' = Occurs(todo', FreeTask(c))
    BY DEF Pending, Occurs, FreeTask
  <2>2. /\ Occurs(todo, FreeTask(c)) \in Nat /\ Occurs(Tail(todo), FreeTask(c)) \in Nat
        /\ Occurs(todo, FreeTask(c)) = Bit(todo[1] = FreeTask(c)) + Occurs(Tail(todo), FreeTask(c))
    BY <1>1, OccursFirst
  <2> QED
    BY <2>1, <2>2 DEF Bit
<1> QED
  BY <1>1, <1>2, <1>3, <1>4, <1>5

\* What is left when the last reference to n goes: its children, then n itself.
LEMMA ReleasedTodo ==
    ASSUME HeapTypeOK, todo # <<>>, NEW n \in Node, todo[1] = FreeTask(n),
           todo' = Children(n) \o <<LinkTask(n)>> \o Tail(todo)
    PROVE  /\ \E k \in {0, 2} :
                /\ k = IF label[n] = App THEN 2 ELSE 0
                /\ DOMAIN todo' = 1..Len(todo) + k
                /\ k = 2 => todo'[1] = FreeTask(left[n]) /\ todo'[2] = FreeTask(right[n])
                /\ todo'[k + 1] = LinkTask(n)
                /\ \A i \in k+2..Len(todo) + k : i - k \in DOMAIN todo /\ todo'[i] = todo[i - k]
                /\ \A i \in DOMAIN todo : i # 1 => i + k \in DOMAIN todo' /\ todo'[i + k] = todo[i]
           /\ \A c : /\ Pending(c)' \in Nat
                     /\ Pending(c)' = Pending(c) - Bit(c = n)
                          + Bit(label[n] = App /\ left[n] = c)
                          + Bit(label[n] = App /\ right[n] = c)
<1> DEFINE k == IF label[n] = App THEN 2 ELSE 0
           m == Len(todo)
           front == Children(n) \o <<LinkTask(n)>>
<1>1. /\ todo \in Seq(Task) /\ m \in Nat /\ m >= 1 /\ DOMAIN todo = 1..m
  <2>1. todo \in Seq(Task) /\ m \in Nat /\ DOMAIN todo = 1..m
    BY TodoIsTasks
  <2> QED
    BY <2>1, EmptySeq
<1>2. /\ Tail(todo) \in Seq(Task) /\ Len(Tail(todo)) = m - 1
      /\ \A i \in 1..m - 1 : Tail(todo)[i] = todo[i + 1]
  BY <1>1, HeadTailProperties
<1>3. FreeTask(left[n]) \in Task /\ FreeTask(right[n]) \in Task /\ LinkTask(n) \in Task
  BY LiveNodes DEF HeapTypeOK, FreeTask, LinkTask, Task
<1>4. /\ Children(n) \in Seq(Task) /\ Len(Children(n)) = k
      /\ k = 2 => Children(n)[1] = FreeTask(left[n]) /\ Children(n)[2] = FreeTask(right[n])
  BY <1>3 DEF Children
<1>5. /\ front \in Seq(Task) /\ Len(front) = k + 1 /\ front[k + 1] = LinkTask(n)
      /\ \A i \in 1..k : front[i] = Children(n)[i]
  <2>1. <<LinkTask(n)>> \in Seq(Task) /\ Len(<<LinkTask(n)>>) = 1
    BY <1>3
  <2> QED
    BY <1>4, <2>1, ConcatProperties
<1>6. /\ todo' \in Seq(Task) /\ Len(todo') = m + k
      /\ \A i \in 1..m + k : todo'[i] = IF i <= k + 1 THEN front[i] ELSE Tail(todo)[i - (k + 1)]
  <2> HIDE DEF front
  <2>1. todo' = front \o Tail(todo)
    BY DEF front
  <2>2. /\ front \o Tail(todo) \in Seq(Task)
        /\ Len(front \o Tail(todo)) = Len(front) + Len(Tail(todo))
        /\ \A i \in 1..Len(front) + Len(Tail(todo)) :
              (front \o Tail(todo))[i] = IF i <= Len(front) THEN front[i] ELSE Tail(todo)[i - Len(front)]
    BY <1>2, <1>5, ConcatProperties
  <2>3. Len(front) + Len(Tail(todo)) = m + k
    BY <1>1, <1>2, <1>5
  <2> QED
    BY <1>5, <2>1, <2>2, <2>3
<1>7. DOMAIN todo' = 1..m + k
  BY <1>6, LenProperties
<1>8. /\ k \in {0, 2}
      /\ k = 2 => todo'[1] = FreeTask(left[n]) /\ todo'[2] = FreeTask(right[n])
      /\ todo'[k + 1] = LinkTask(n)
  <2> HIDE DEF front
  <2> QED
    BY <1>1, <1>4, <1>5, <1>6
<1>9. /\ \A i \in k+2..m + k : i - k \in DOMAIN todo /\ todo'[i] = todo[i - k]
      /\ \A i \in DOMAIN todo : i # 1 => i + k \in DOMAIN todo' /\ todo'[i + k] = todo[i]
  <2> HIDE DEF front, k
  <2>1. ASSUME NEW i \in k+2..m + k PROVE i - k \in DOMAIN todo /\ todo'[i] = todo[i - k]
    <3>1. i \in 1..m+k /\ ~(i <= k + 1) /\ i - (k + 1) \in 1..m - 1
      BY <1>1, <1>8, <2>1
    <3>2. todo'[i] = Tail(todo)[i - (k + 1)] /\ Tail(todo)[i - (k + 1)] = todo[i - (k + 1) + 1]
      BY <1>2, <1>6, <3>1
    <3>3. i - (k + 1) + 1 = i - k
      BY <1>1, <1>8, <2>1
    <3>4. i - k \in 1..m
      BY <1>1, <1>8, <2>1
    <3> QED
      BY <1>1, <3>2, <3>3, <3>4
  <2>2. ASSUME NEW i \in DOMAIN todo, i # 1
        PROVE  i + k \in DOMAIN todo' /\ todo'[i + k] = todo[i]
    <3>1. i + k \in k+2..m + k /\ (i + k) - k = i
      BY <1>1, <1>8, <2>2
    <3>2. i + k \in 1..m + k
      BY <1>1, <1>8, <2>2
    <3> QED
      BY <1>1, <1>7, <2>1, <3>1, <3>2
  <2> QED
    BY <2>1, <2>2
<1>10. ASSUME NEW c
       PROVE  /\ Pending(c)' \in Nat
              /\ Pending(c)' = Pending(c) - Bit(c = n) + Bit(label[n] = App /\ left[n] = c)
                                          + Bit(label[n] = App /\ right[n] = c)
  <2> DEFINE x == FreeTask(c)
  <2>1. Pending(c) = Occurs(todo, x) /\ Pending(c)' = Occurs(todo', x)
    BY DEF Pending, Occurs, FreeTask
  <2>2. /\ Occurs(Tail(todo), x) \in Nat /\ Occurs(todo, x) \in Nat
        /\ Occurs(todo, x) = Bit(todo[1] = x) + Occurs(Tail(todo), x)
    BY <1>1, OccursFirst
  <2>3. Occurs(todo', x) = Occurs(Children(n), x) + Occurs(<<LinkTask(n)>>, x) + Occurs(Tail(todo), x)
    <3>1. <<LinkTask(n)>> \in Seq(Task)
      BY <1>3
    <3>2. /\ Occurs(front, x) = Occurs(Children(n), x) + Occurs(<<LinkTask(n)>>, x)
      BY <1>4, <3>1, OccursConcat
    <3>3. Occurs(front \o Tail(todo), x) = Occurs(front, x) + Occurs(Tail(todo), x)
      <4>1. front \in Seq(Task) /\ Tail(todo) \in Seq(Task)
        BY <1>2, <1>5
      <4> HIDE DEF front, x
      <4> QED
        BY <4>1, OccursConcat
    <3> QED
      BY <3>2, <3>3
  <2>4. Occurs(<<LinkTask(n)>>, x) = 0
    BY OccursOnce DEF LinkTask, FreeTask, Bit
  <2>5. Bit(todo[1] = x) = Bit(c = n)
    BY DEF FreeTask, Bit
  <2>6. Occurs(Children(n), x) = Bit(label[n] = App /\ left[n] = c) + Bit(label[n] = App /\ right[n] = c)
    <3>1. CASE label[n] # App
      <4>1. Children(n) = <<>> /\ {i \in DOMAIN <<>> : <<>>[i] = x} = {}
        BY <3>1 DEF Children
      <4>2. Occurs(<<>>, x) = 0
        BY <4>1, FS_EmptySet DEF Occurs
      <4> QED
        BY <3>1, <4>1, <4>2 DEF Bit
    <3>2. CASE label[n] = App
      <4>1. Children(n) = <<FreeTask(left[n])>> \o <<FreeTask(right[n])>>
        BY <3>2 DEF Children
      <4>2. Occurs(Children(n), x) = Bit(FreeTask(left[n]) = x) + Bit(FreeTask(right[n]) = x)
        <5>1. <<FreeTask(left[n])>> \in Seq(Task) /\ <<FreeTask(right[n])>> \in Seq(Task)
          BY <1>3
        <5>2. Occurs(<<FreeTask(left[n])>> \o <<FreeTask(right[n])>>, x)
                = Occurs(<<FreeTask(left[n])>>, x) + Occurs(<<FreeTask(right[n])>>, x)
          <6> HIDE DEF x
          <6> QED
            BY <5>1, OccursConcat
        <5>3. \A y : Occurs(<<y>>, x) = Bit(y = x)
          BY OccursOnce
        <5> QED
          BY <4>1, <5>2, <5>3
      <4>3. (FreeTask(left[n]) = x <=> left[n] = c) /\ (FreeTask(right[n]) = x <=> right[n] = c)
        BY DEF FreeTask
      <4> QED
        BY <3>2, <4>2, <4>3 DEF Bit
    <3> QED
      BY <3>1, <3>2
  <2> HIDE DEF x
  <2> QED
    BY <2>1, <2>2, <2>3, <2>4, <2>5, <2>6 DEF Bit
<1> QED
  <2> HIDE DEF front
  <2>1. k = IF label[n] = App THEN 2 ELSE 0
    OBVIOUS
  <2> HIDE DEF k
  <2> QED
    BY <1>7, <1>8, <1>9, <1>10, <2>1

\* What every state of the heap says of its nodes, and so of the next one.
NodeFacts ==
    /\ Live \subseteq Node /\ InUse \subseteq Live /\ Parents \subseteq InUse
    /\ Node \subseteq Address /\ Null \notin Node /\ Null \in Address
    /\ \A n \in Address : /\ refcnt[n] \in Int /\ left[n] \in Address /\ right[n] \in Address
    /\ \A n : /\ Edges(n) \in Nat
              /\ Edges(n) = 0 <=> \A p \in Parents : left[p] # n /\ right[p] # n
    /\ \A c : /\ Pending(c) \in Nat
              /\ Pending(c) = 0 <=> \A i \in DOMAIN todo : todo[i] # FreeTask(c)

\* They follow from the types,
LEMMA NodeFactsHold == HeapTypeOK => NodeFacts
<1> SUFFICES ASSUME HeapTypeOK PROVE NodeFacts
  OBVIOUS
<1>1. \A n \in Address : refcnt[n] \in Int /\ left[n] \in Address /\ right[n] \in Address
  BY DEF HeapTypeOK
<1>2. Null \in Address
  BY DEF Address
<1> QED
  BY <1>1, <1>2, LiveNodes, EdgesOfParents, PendingOccurs DEF NodeFacts

\* in the next state too.
LEMMA NodeFactsLater == HeapTypeOK' => NodeFacts'
  BY NodeFactsHold, PTL

-----------------------------------------------------------------------------
\* The nodes that wait to be linked are live, and each waits once.
LinksOnce ==
    /\ \A i \in DOMAIN todo : todo[i].op = "link" => todo[i].node \in Live
    /\ \A i, j \in DOMAIN todo :
          todo[i].op = "link" /\ todo[j].op = "link" /\ todo[i].node = todo[j].node
              => i = j

\* What is not in use has no references left to take back.
DeadUncounted == \A n \in Node \ InUse : refcnt[n] <= 0

\* The free list is a list and stays one: what is not in use is never released.
ListInv == FreeListChained /\ LinksOnce /\ DeadUncounted

\* The nodes that wait to be linked, as pending work.
LEMMA LinkingNodes ==
    ASSUME HeapTypeOK
    PROVE  /\ \A i \in DOMAIN todo : todo[i].op = "link" => todo[i].node \in Linking
           /\ \A n \in Linking : n \in Node /\ \E i \in DOMAIN todo : todo[i] = LinkTask(n)
<1>1. \A i \in DOMAIN todo : todo[i] \in Task
  BY TodoIsTasks
<1> QED
  BY <1>1, TaskFields DEF Linking

\* Dropping a piece of free_node's work.
LEMMA DropOneTask ==
    ASSUME HeapTypeOK, HeapTypeOK', ListInv, todo # <<>>, todo' = Tail(todo), todo[1].op = "free",
           UNCHANGED <<label, left, right, allocated, freeList>>
    PROVE  /\ Live' = Live /\ Linking' = Linking /\ InUse' = InUse /\ Parents' = Parents
           /\ FreeListChained' /\ LinksOnce'
           /\ \A n : Edges(n)' = Edges(n)
<1>1. Live' = Live
  BY DEF Live
<1>2. Linking' = Linking
  <2>1. /\ DOMAIN todo' = 1..Len(todo) - 1
        /\ \A i \in DOMAIN todo' : i + 1 \in DOMAIN todo /\ todo'[i] = todo[i + 1]
        /\ \A i \in DOMAIN todo : i # 1 => i - 1 \in DOMAIN todo' /\ todo'[i - 1] = todo[i]
    BY TailOfTodo
  <2>2. Linking' \subseteq Linking
    BY <2>1 DEF Linking
  <2>3. Linking \subseteq Linking'
    <3> SUFFICES ASSUME NEW i \in DOMAIN todo, todo[i].op = "link"
                 PROVE  todo[i].node \in Linking'
      BY DEF Linking
    <3>1. i # 1
      OBVIOUS
    <3> QED
      BY <2>1, <3>1 DEF Linking
  <2> QED
    BY <2>2, <2>3
<1>3. InUse' = InUse /\ Parents' = Parents
  BY <1>1, <1>2 DEF InUse, Parents
<1>4. FreeListChained'
  BY DEF ListInv, FreeListChained
<1>5. LinksOnce'
  <2>1. /\ DOMAIN todo' = 1..Len(todo) - 1
        /\ \A i \in DOMAIN todo' : i + 1 \in DOMAIN todo /\ todo'[i] = todo[i + 1]
    BY TailOfTodo
  <2>2. ASSUME NEW i \in DOMAIN todo', todo'[i].op = "link" PROVE todo'[i].node \in Live'
    BY <1>1, <2>1, <2>2 DEF ListInv, LinksOnce
  <2>3. ASSUME NEW i \in DOMAIN todo', NEW j \in DOMAIN todo', todo'[i].op = "link",
               todo'[j].op = "link", todo'[i].node = todo'[j].node
        PROVE  i = j
    <3>1. i + 1 = j + 1
      BY <2>1, <2>3 DEF ListInv, LinksOnce
    <3>2. i \in Int /\ j \in Int
      BY <2>1, TodoIsTasks
    <3> QED
      BY <3>1, <3>2
  <2> QED
    BY <2>2, <2>3 DEF LinksOnce
<1>6. \A n : Edges(n)' = Edges(n)
  BY <1>3 DEF Edges
<1> QED
  BY <1>1, <1>2, <1>3, <1>4, <1>5, <1>6

\* Each kind of work keeps the list. A node with other references stays.
LEMMA FreeSharedList ==
    ASSUME HeapTypeOK, HeapTypeOK', ListInv, FreeStep, NEW n \in Node, FreeShared(n)
    PROVE  /\ ListInv'
           /\ Live' = Live /\ InUse' = InUse /\ Parents' = Parents
           /\ \A c : Edges(c)' = Edges(c) /\ Pending(c)' = Pending(c) - Bit(c = n)
           /\ \A c \in Address : refcnt'[c] = refcnt[c] - Bit(c = n)
<1>1. /\ todo # <<>> /\ todo[1] = FreeTask(n) /\ todo' = Tail(todo)
      /\ UNCHANGED <<label, left, right, allocated, freeList>>
      /\ refcnt' = [refcnt EXCEPT ![n] = @ - 1]
  BY DEF FreeStep, FreeShared
<1>2. todo[1].op = "free"
  BY <1>1 DEF FreeTask
<1>3. /\ Live' = Live /\ Linking' = Linking /\ InUse' = InUse /\ Parents' = Parents
      /\ FreeListChained' /\ LinksOnce'
      /\ \A c : Edges(c)' = Edges(c)
  BY <1>1, <1>2, DropOneTask
<1>4. \A c \in Address : refcnt'[c] = refcnt[c] - Bit(c = n)
  BY <1>1, LiveNodes DEF HeapTypeOK, Bit
<1>5. DeadUncounted'
  <2> SUFFICES ASSUME NEW c \in Node \ InUse PROVE refcnt'[c] <= 0
    BY <1>3 DEF DeadUncounted
  <2>1. c \in Address /\ refcnt[c] \in Int /\ refcnt[c] <= 0
    BY LiveNodes DEF ListInv, DeadUncounted, HeapTypeOK
  <2> QED
    BY <1>4, <2>1 DEF Bit
<1>6. \A c : Pending(c)' = Pending(c) - Bit(c = n)
  <2>1. \A c : Pending(c)' = Pending(c) - Bit(todo[1] = FreeTask(c))
    BY <1>1, TailOfTodo
  <2>2. \A c : todo[1] = FreeTask(c) <=> c = n
    BY <1>1 DEF FreeTask
  <2> QED
    BY <2>1, <2>2 DEF Bit
<1> QED
  BY <1>3, <1>4, <1>5, <1>6 DEF ListInv

\* free_node(NULL) returns at once.
LEMMA FreeNothingList ==
    ASSUME HeapTypeOK, HeapTypeOK', ListInv, FreeStep, FreeNothing
    PROVE  /\ ListInv'
           /\ Live' = Live /\ InUse' = InUse /\ Parents' = Parents
           /\ \A c : Edges(c)' = Edges(c)
           /\ \A c \in Node : Pending(c)' = Pending(c)
           /\ refcnt' = refcnt
<1>1. /\ todo # <<>> /\ todo[1] = FreeTask(Null) /\ todo' = Tail(todo)
      /\ UNCHANGED <<label, left, right, allocated, freeList, refcnt>>
  BY DEF FreeStep, FreeNothing
<1>2. todo[1].op = "free"
  BY <1>1 DEF FreeTask
<1>3. /\ Live' = Live /\ Linking' = Linking /\ InUse' = InUse /\ Parents' = Parents
      /\ FreeListChained' /\ LinksOnce'
      /\ \A c : Edges(c)' = Edges(c)
  BY <1>1, <1>2, DropOneTask
<1>4. DeadUncounted'
  BY <1>1, <1>3 DEF ListInv, DeadUncounted
<1>5. \A c \in Node : Pending(c)' = Pending(c)
  <2>1. \A c : /\ Pending(c)' = Pending(c) - Bit(todo[1] = FreeTask(c))
    BY <1>1, TailOfTodo
  <2>2. \A c \in Node : todo[1] # FreeTask(c)
    BY <1>1, LiveNodes DEF FreeTask
  <2>3. \A c : Pending(c) \in Nat
    BY PendingOccurs
  <2> QED
    BY <2>1, <2>2, <2>3 DEF Bit
<1> QED
  BY <1>1, <1>3, <1>4, <1>5 DEF ListInv

\* n was counted, so it is in use, and its last reference is being dropped.
LEMMA FreeLastList ==
    ASSUME HeapTypeOK, HeapTypeOK', ListInv, FreeStep, NEW n \in Node, FreeLast(n)
    PROVE  /\ ListInv'
           /\ n \in InUse /\ Live' = Live /\ InUse' = InUse \ {n} /\ Parents' = Parents \ {n}
           /\ \A c : Edges(c)' = Edges(c) - Bit(label[n] = App /\ left[n] = c)
                                          - Bit(label[n] = App /\ right[n] = c)
           /\ \A c : Pending(c)' = Pending(c) - Bit(c = n)
                                    + Bit(label[n] = App /\ left[n] = c)
                                    + Bit(label[n] = App /\ right[n] = c)
           /\ \A c \in Address : refcnt'[c] = refcnt[c] - Bit(c = n)
<1>1. /\ todo # <<>> /\ todo[1] = FreeTask(n) /\ refcnt[n] = 1
      /\ todo' = Children(n) \o <<LinkTask(n)>> \o Tail(todo)
      /\ UNCHANGED <<label, left, right, allocated, freeList>>
      /\ refcnt' = [refcnt EXCEPT ![n] = @ - 1]
  BY DEF FreeStep, FreeLast
<1>2. n \in InUse
  BY <1>1 DEF ListInv, DeadUncounted
<1>3. n \in Live /\ n \notin Linking
  BY <1>2 DEF InUse
<1>4. Live' = Live
  BY <1>1 DEF Live
<1>5. PICK k \in {0, 2} :
        /\ k = IF label[n] = App THEN 2 ELSE 0
        /\ DOMAIN todo' = 1..Len(todo) + k
        /\ k = 2 => todo'[1] = FreeTask(left[n]) /\ todo'[2] = FreeTask(right[n])
        /\ todo'[k + 1] = LinkTask(n)
        /\ \A i \in k+2..Len(todo) + k : i - k \in DOMAIN todo /\ todo'[i] = todo[i - k]
        /\ \A i \in DOMAIN todo : i # 1 => i + k \in DOMAIN todo' /\ todo'[i + k] = todo[i]
  BY <1>1, ReleasedTodo
<1>6. Len(todo) \in Nat /\ Len(todo) >= 1 /\ DOMAIN todo = 1..Len(todo)
  <2>1. Len(todo) \in Nat /\ DOMAIN todo = 1..Len(todo) /\ todo \in Seq(Task)
    BY TodoIsTasks
  <2> QED
    BY <1>1, <2>1, EmptySeq
\* where the link tasks of the new list come from
<1>7. ASSUME NEW i \in DOMAIN todo', todo'[i].op = "link"
      PROVE  \/ i = k + 1 /\ todo'[i].node = n
             \/ i > k + 1 /\ i - k \in DOMAIN todo /\ todo'[i] = todo[i - k]
  <2>1. CASE i <= k
    <3>1. k = 2 /\ i \in {1, 2}
      BY <1>5, <1>6, <2>1
    <3> QED
      BY <1>5, <1>7, <3>1 DEF FreeTask
  <2>2. CASE i = k + 1
    BY <1>5, <2>2 DEF LinkTask
  <2>3. CASE i > k + 1
    <3>1. i \in k+2..Len(todo) + k
      BY <1>5, <1>6, <2>3
    <3> QED
      BY <1>5, <2>3, <3>1
  <2> QED
    BY <1>5, <1>6, <2>1, <2>2, <2>3
<1>8. Linking' = Linking \cup {n}
  <2>1. Linking' \subseteq Linking \cup {n}
    <3> SUFFICES ASSUME NEW i \in DOMAIN todo', todo'[i].op = "link"
                 PROVE  todo'[i].node \in Linking \cup {n}
      BY DEF Linking
    <3> QED
      BY <1>7 DEF Linking
  <2>2. n \in Linking'
    <3>1. k + 1 \in DOMAIN todo' /\ todo'[k + 1].op = "link" /\ todo'[k + 1].node = n
      BY <1>5, <1>6 DEF LinkTask
    <3> QED
      BY <3>1 DEF Linking
  <2>3. Linking \subseteq Linking'
    <3> SUFFICES ASSUME NEW i \in DOMAIN todo, todo[i].op = "link"
                 PROVE  todo[i].node \in Linking'
      BY DEF Linking
    <3>1. i # 1
      BY <1>1 DEF FreeTask
    <3>2. i + k \in DOMAIN todo' /\ todo'[i + k] = todo[i]
      BY <1>5, <3>1
    <3> QED
      BY <3>2 DEF Linking
  <2> QED
    BY <2>1, <2>2, <2>3
<1>9. InUse' = InUse \ {n} /\ Parents' = Parents \ {n}
  BY <1>1, <1>4, <1>8 DEF InUse, Parents
<1>10. LinksOnce'
  <2>1. ASSUME NEW i \in DOMAIN todo', todo'[i].op = "link" PROVE todo'[i].node \in Live'
    BY <1>3, <1>4, <1>7, <2>1 DEF ListInv, LinksOnce
  <2>2. ASSUME NEW i \in DOMAIN todo', NEW j \in DOMAIN todo', todo'[i].op = "link",
               todo'[j].op = "link", todo'[i].node = todo'[j].node
        PROVE  i = j
    <3>1. \A a \in DOMAIN todo : todo[a].op = "link" => todo[a].node # n
      BY <1>3, LinkingNodes
    <3>2. CASE i = k + 1
      BY <1>7, <2>2, <3>1, <3>2
    <3>3. CASE j = k + 1
      BY <1>7, <2>2, <3>1, <3>3
    <3>4. CASE i # k + 1 /\ j # k + 1
      <4>1. i - k = j - k
        BY <1>7, <2>2, <3>4 DEF ListInv, LinksOnce
      <4> QED
        BY <1>5, <1>6, <4>1
    <3> QED
      BY <3>2, <3>3, <3>4
  <2> QED
    BY <2>1, <2>2 DEF LinksOnce
<1>11. \A c \in Address : refcnt'[c] = refcnt[c] - Bit(c = n)
  BY <1>1, LiveNodes DEF HeapTypeOK, Bit
<1>12. DeadUncounted'
  BY <1>1, <1>9, <1>11, LiveNodes DEF ListInv, DeadUncounted, Bit
<1>13. FreeListChained'
  BY <1>1 DEF ListInv, FreeListChained
<1>14. \A c : Edges(c)' = Edges(c) - Bit(label[n] = App /\ left[n] = c)
                                   - Bit(label[n] = App /\ right[n] = c)
  <2> SUFFICES ASSUME NEW c
               PROVE  Edges(c)' = Edges(c) - Bit(label[n] = App /\ left[n] = c)
                                           - Bit(label[n] = App /\ right[n] = c)
    OBVIOUS
  <2>1. Parents' \ {n} = Parents \ {n} /\ n \notin Parents'
    BY <1>9
  <2>2. \A q \in Parents \ {n} : left'[q] = left[q] /\ right'[q] = right[q]
    BY <1>1
  <2>3. Edges(c)' = Edges(c)
              + Bit(n \in Parents' /\ left'[n] = c) + Bit(n \in Parents' /\ right'[n] = c)
              - Bit(n \in Parents /\ left[n] = c) - Bit(n \in Parents /\ right[n] = c)
    BY <2>1, <2>2, EdgesDiffer
  <2>4. n \in Parents <=> label[n] = App
    BY <1>2 DEF Parents
  <2>5. Edges(c) \in Nat
    BY EdgesOfParents
  <2> QED
    BY <2>1, <2>3, <2>4, <2>5 DEF Bit
<1>15. \A c : Pending(c)' = Pending(c) - Bit(c = n)
                                    + Bit(label[n] = App /\ left[n] = c)
                                    + Bit(label[n] = App /\ right[n] = c)
  BY <1>1, ReleasedTodo
<1> QED
  BY <1>2, <1>4, <1>9, <1>10, <1>11, <1>12, <1>13, <1>14, <1>15 DEF ListInv

\* A node whose children are gone goes to the head of the free list.
LEMMA LinkOneList ==
    ASSUME HeapTypeOK, HeapTypeOK', ListInv, FreeStep, NEW n \in Node, LinkOne(n)
    PROVE  /\ ListInv'
           /\ n \notin InUse /\ Live' = Live \ {n} /\ InUse' = InUse /\ Parents' = Parents
           /\ \A c : Edges(c)' = Edges(c) /\ Pending(c)' = Pending(c)
           /\ \A c \in Address \ {n} : right'[c] = right[c]
           /\ refcnt' = refcnt
<1>1. /\ todo # <<>> /\ todo[1] = LinkTask(n) /\ todo' = Tail(todo)
      /\ UNCHANGED <<label, left, allocated, refcnt>>
      /\ right' = [right EXCEPT ![n] = IF freeList = <<>> THEN Null ELSE freeList[1]]
      /\ freeList' = <<n>> \o freeList
  BY DEF FreeStep, LinkOne, LinkFree
<1>2. /\ DOMAIN todo' = 1..Len(todo) - 1 /\ 1 \in DOMAIN todo
      /\ \A i \in DOMAIN todo' : i + 1 \in DOMAIN todo /\ todo'[i] = todo[i + 1]
      /\ \A i \in DOMAIN todo : i # 1 => i - 1 \in DOMAIN todo' /\ todo'[i - 1] = todo[i]
      /\ \A c : Pending(c)' \in Nat /\ Pending(c)' = Pending(c) - Bit(todo[1] = FreeTask(c))
  BY <1>1, TailOfTodo
<1>3. todo[1].op = "link" /\ todo[1].node = n
  BY <1>1 DEF LinkTask
<1>4. n \in Live /\ n \in Linking
  BY <1>2, <1>3, LinkingNodes DEF ListInv, LinksOnce
<1>5. Linking' = Linking \ {n}
  <2>1. Linking' \subseteq Linking
    BY <1>2 DEF Linking
  <2>2. n \notin Linking'
    <3> SUFFICES ASSUME NEW i \in DOMAIN todo', todo'[i].op = "link", todo'[i].node = n
                 PROVE  FALSE
      BY DEF Linking
    <3>1. i + 1 = 1
      BY <1>2, <1>3 DEF ListInv, LinksOnce
    <3> QED
      BY <1>2, <3>1, TodoIsTasks
  <2>3. Linking \ {n} \subseteq Linking'
    <3> SUFFICES ASSUME NEW i \in DOMAIN todo, todo[i].op = "link", todo[i].node # n
                 PROVE  todo[i].node \in Linking'
      BY DEF Linking
    <3> QED
      BY <1>2, <1>3 DEF Linking
  <2> QED
    BY <2>1, <2>2, <2>3
<1>6. /\ freeList \in Seq(Node) /\ Len(freeList) \in Nat /\ DOMAIN freeList = 1..Len(freeList)
      /\ freeList' \in Seq(Node) /\ Len(freeList') = Len(freeList) + 1
      /\ DOMAIN freeList' = 1..Len(freeList) + 1
      /\ freeList'[1] = n /\ \A i \in 1..Len(freeList) : freeList'[i + 1] = freeList[i]
  <2>1. <<n>> \in Seq(Node) /\ freeList \in Seq(Node) /\ Len(<<n>>) = 1 /\ <<n>>[1] = n
    BY DEF HeapTypeOK
  <2>2. Len(freeList) \in Nat /\ DOMAIN freeList = 1..Len(freeList)
    BY <2>1, LenProperties
  <2>3. /\ <<n>> \o freeList \in Seq(Node) /\ Len(<<n>> \o freeList) = 1 + Len(freeList)
        /\ \A i \in 1..1 + Len(freeList) :
              (<<n>> \o freeList)[i] = IF i <= 1 THEN <<n>>[i] ELSE freeList[i - 1]
    BY <2>1, ConcatProperties
  <2> QED
    BY <1>1, <2>1, <2>2, <2>3, LenProperties
<1>7. Live' = Live \ {n}
  <2> DEFINE listed == {freeList[i] : i \in DOMAIN freeList}
  <2>1. {freeList'[i] : i \in DOMAIN freeList'} = {n} \cup listed
    <3>1. \A i \in DOMAIN freeList' : freeList'[i] \in {n} \cup listed
      <4> SUFFICES ASSUME NEW i \in DOMAIN freeList', i # 1 PROVE freeList'[i] \in listed
        BY <1>6
      <4>1. i - 1 \in 1..Len(freeList) /\ (i - 1) + 1 = i
        BY <1>6
      <4> QED
        BY <1>6, <4>1
    <3>2. n \in {freeList'[i] : i \in DOMAIN freeList'}
      BY <1>6
    <3>3. \A i \in DOMAIN freeList : freeList[i] \in {freeList'[j] : j \in DOMAIN freeList'}
      <4> SUFFICES ASSUME NEW i \in DOMAIN freeList PROVE i + 1 \in DOMAIN freeList'
        BY <1>6
      <4> QED
        BY <1>6
    <3> QED
      BY <3>1, <3>2, <3>3
  <2> QED
    BY <1>1, <2>1 DEF Live
<1>8. InUse' = InUse /\ n \notin InUse
  BY <1>4, <1>5, <1>7 DEF InUse
<1>9. Parents' = Parents /\ n \notin Parents
  BY <1>1, <1>8 DEF Parents
<1>10. \A c \in Address \ {n} : right'[c] = right[c]
  BY <1>1 DEF HeapTypeOK
<1>11. FreeListChained'
  <2>1. n \notin {freeList[i] : i \in DOMAIN freeList} /\ n \in 1..allocated
    BY <1>4 DEF Live
  <2>2. ASSUME NEW i \in DOMAIN freeList', NEW j \in DOMAIN freeList', freeList'[i] = freeList'[j]
        PROVE  i = j
    <3>1. \A a \in DOMAIN freeList' : a # 1 => /\ a - 1 \in DOMAIN freeList
                                               /\ freeList'[a] = freeList[a - 1]
      <4> SUFFICES ASSUME NEW a \in DOMAIN freeList', a # 1
                   PROVE  a - 1 \in DOMAIN freeList /\ freeList'[a] = freeList[a - 1]
        OBVIOUS
      <4>1. a - 1 \in 1..Len(freeList) /\ (a - 1) + 1 = a
        BY <1>6
      <4> QED
        BY <1>6, <4>1
    <3>2. CASE i = 1 \/ j = 1
      BY <1>6, <2>1, <2>2, <3>1, <3>2
    <3>3. CASE i # 1 /\ j # 1
      <4>1. i - 1 = j - 1
        BY <2>2, <3>1, <3>3 DEF ListInv, FreeListChained
      <4> QED
        BY <1>6, <4>1
    <3> QED
      BY <3>2, <3>3
  <2>3. ASSUME NEW i \in DOMAIN freeList'
        PROVE  /\ freeList'[i] \in 1..allocated'
               /\ right'[freeList'[i]] = IF i = Len(freeList') THEN Null ELSE freeList'[i + 1]
    <3>1. CASE i = 1
      <4>1. right'[n] = IF freeList = <<>> THEN Null ELSE freeList[1]
        BY <1>1, LiveNodes DEF HeapTypeOK
      <4>2. freeList = <<>> <=> Len(freeList) = 0
        BY <1>6, EmptySeq
      <4>3. Len(freeList) # 0 => freeList'[2] = freeList[1]
        BY <1>6
      <4> QED
        BY <1>1, <1>6, <2>1, <3>1, <4>1, <4>2, <4>3
    <3>2. CASE i # 1
      <4>1. i - 1 \in 1..Len(freeList) /\ (i - 1) + 1 = i
        BY <1>6, <3>2
      <4>2. freeList'[i] = freeList[i - 1] /\ freeList[i - 1] \in 1..allocated
            /\ freeList[i - 1] # n
            /\ right[freeList[i - 1]] = IF i - 1 = Len(freeList) THEN Null ELSE freeList[i]
        BY <1>6, <2>1, <4>1 DEF ListInv, FreeListChained
      <4>3. right'[freeList[i - 1]] = right[freeList[i - 1]]
        <5>1. freeList[i - 1] \in Address
          BY <1>6, <4>1, ElementOfSeq, LiveNodes
        <5> QED
          BY <1>10, <4>2, <5>1
      <4>4. i # Len(freeList') => freeList'[i + 1] = freeList[i]
        <5>1. i # Len(freeList') => i \in 1..Len(freeList)
          BY <1>6
        <5> QED
          BY <1>6, <5>1
      <4> QED
        BY <1>1, <1>6, <4>1, <4>2, <4>3, <4>4
    <3> QED
      BY <3>1, <3>2
  <2> QED
    BY <2>2, <2>3 DEF FreeListChained
<1>12. LinksOnce'
  <2>1. ASSUME NEW i \in DOMAIN todo', todo'[i].op = "link" PROVE todo'[i].node \in Live'
    <3>1. todo'[i].node \in Live /\ todo'[i].node \in Linking'
      BY <1>2, <2>1 DEF ListInv, LinksOnce, Linking
    <3> QED
      BY <1>5, <1>7, <3>1
  <2>2. ASSUME NEW i \in DOMAIN todo', NEW j \in DOMAIN todo', todo'[i].op = "link",
               todo'[j].op = "link", todo'[i].node = todo'[j].node
        PROVE  i = j
    <3>1. i + 1 = j + 1
      BY <1>2, <2>2 DEF ListInv, LinksOnce
    <3>2. i \in Int /\ j \in Int
      BY <1>2, TodoIsTasks
    <3> QED
      BY <3>1, <3>2
  <2> QED
    BY <2>1, <2>2 DEF LinksOnce
<1>13. DeadUncounted'
  BY <1>1, <1>8 DEF ListInv, DeadUncounted
<1>14. \A c : Pending(c)' = Pending(c)
  <2>1. \A c : todo[1] # FreeTask(c)
    BY <1>1 DEF FreeTask, LinkTask
  <2>2. \A c : Pending(c) \in Nat
    BY PendingOccurs
  <2> QED
    BY <1>2, <2>1, <2>2 DEF Bit
<1>15. \A c : Edges(c)' = Edges(c)
  <2> SUFFICES ASSUME NEW c PROVE Edges(c)' = Edges(c)
    OBVIOUS
  <2>1. \A q \in Parents : left'[q] = left[q] /\ right'[q] = right[q]
    BY <1>1, <1>9, <1>10, LiveNodes
  <2>2. /\ {p \in Parents' : left'[p] = c} = {p \in Parents : left[p] = c}
        /\ {p \in Parents' : right'[p] = c} = {p \in Parents : right[p] = c}
    BY <1>9, <2>1
  <2> QED
    BY <2>2 DEF Edges
<1> QED
  BY <1>1, <1>7, <1>8, <1>9, <1>10, <1>11, <1>12, <1>13, <1>14, <1>15 DEF ListInv

-----------------------------------------------------------------------------
\* Each node in use is counted once for each field and each pending call that
\* holds it, and hold says what else does.
CountsExact(hold) == \A n \in Live : refcnt[n] = Edges(n) + Pending(n) + hold[n]

\* The graphs have no cycles, and children belong to the graph of their parent.
Ordered(level, graph) ==
    \A p \in Parents : \A c \in {left[p], right[p]} \ {Null} :
        c \in InUse /\ level[p] < level[c] /\ graph[p] = graph[c]

\* free_node is called on nodes in use.
CallsInUse == \A i \in DOMAIN todo : todo[i].op = "free" => todo[i].node \in InUse \cup {Null}

\* What a step of free_node leaves of the graphs: a node leaves them only when
\* its last reference is dropped, and then it hands that reference on.
Thinned(hold) ==
    /\ InUse' \subseteq InUse /\ Parents' \subseteq Parents
    /\ UNCHANGED <<label, left, updateable, allocated>>
    /\ \A c \in InUse : right'[c] = right[c]
    /\ \A c \in InUse \ InUse' :
          /\ refcnt[c] = 1 /\ Edges(c) = 0 /\ Pending(c) = 1 /\ hold[c] = 0
          /\ label[c] = App => \A d \in {left[c], right[c]} \ {Null} : Pending(d)' > 0
    /\ \A c \in InUse' :
          /\ refcnt'[c] = refcnt[c] \/ (refcnt[c] > 1 /\ refcnt'[c] = refcnt[c] - 1)
          /\ refcnt[c] = 1 /\ Pending(c) > 0 => Pending(c)' > 0

\* A step of free_node, as its callers see it: counts stay exact, graphs stay
\* ordered, and nothing leaves but nodes without a reference.
LEMMA FreeStepGraph ==
    ASSUME HeapTypeOK, HeapTypeOK', ListInv, FreeStep,
           NEW hold \in [Address -> Nat], CountsExact(hold),
           NEW level \in [Address -> Nat], NEW graph \in [Address -> Nat],
           Ordered(level, graph), CallsInUse
    PROVE  /\ ListInv' /\ CountsExact(hold)' /\ Ordered(level, graph)' /\ CallsInUse'
           /\ Thinned(hold)
<1> USE DEF Thinned
<1>1. /\ todo # <<>> /\ UNCHANGED <<label, left, updateable, allocated>>
      /\ \/ FreeNothing
         \/ \E n \in Node : FreeShared(n) \/ FreeLast(n) \/ LinkOne(n)
  BY FreeStepCases
<1>2. /\ \A c : Edges(c) \in Nat /\ Pending(c) \in Nat
      /\ \A c \in Address : refcnt[c] \in Int /\ refcnt'[c] \in Int
      /\ \A c \in Address : hold[c] \in Nat /\ level[c] \in Nat
      /\ Live \subseteq Node /\ InUse \subseteq Live /\ Parents \subseteq InUse /\ Node \subseteq Address
      /\ Null \notin Node
  <2>1. NodeFacts /\ NodeFacts'
    BY NodeFactsHold, NodeFactsLater
  <2> QED
    BY <2>1 DEF NodeFacts
<1>3. CASE FreeNothing \/ \E n \in Node : FreeShared(n)
  <2>1. /\ todo' = Tail(todo) /\ todo[1].op = "free" /\ UNCHANGED <<right, freeList>>
    <3>1. \A c : FreeTask(c).op = "free"
      BY DEF FreeTask
    <3> QED
      BY <1>3, <3>1 DEF FreeNothing, FreeShared
  <2>2. /\ ListInv' /\ Live' = Live /\ InUse' = InUse /\ Parents' = Parents
        /\ \A c : Edges(c)' = Edges(c)
    BY <1>3, FreeNothingList, FreeSharedList
  <2>3. CallsInUse'
    <3>1. \A i \in DOMAIN todo' : i + 1 \in DOMAIN todo /\ todo'[i] = todo[i + 1]
      BY <1>1, <2>1, TailOfTodo
    <3> QED
      BY <2>2, <3>1 DEF CallsInUse
  <2>4. Ordered(level, graph)'
    BY <1>1, <2>1, <2>2 DEF Ordered
  <2>5. CASE FreeNothing
    <3>1. (\A c \in Node : Pending(c)' = Pending(c)) /\ refcnt' = refcnt
      BY <2>5, FreeNothingList
    <3>2. CountsExact(hold)'
      BY <1>2, <2>2, <3>1 DEF CountsExact
    <3>3. Thinned(hold)
      BY <1>1, <1>2, <2>1, <2>2, <3>1
    <3> QED
      BY <2>2, <2>3, <2>4, <3>2, <3>3
  <2>6. ASSUME NEW n \in Node, FreeShared(n)
        PROVE  CountsExact(hold)' /\ Thinned(hold)
    <3>1. /\ \A c : Pending(c)' = Pending(c) - Bit(c = n)
          /\ \A c \in Address : refcnt'[c] = refcnt[c] - Bit(c = n)
      BY <2>6, FreeSharedList
    <3>2. CountsExact(hold)'
      <4> SUFFICES ASSUME NEW c \in Live
                   PROVE  refcnt'[c] = Edges(c)' + Pending(c)' + hold[c]
        BY <2>2 DEF CountsExact
      <4>1. refcnt[c] = Edges(c) + Pending(c) + hold[c]
        BY DEF CountsExact
      <4>2. refcnt'[c] = refcnt[c] - Bit(c = n) /\ Pending(c)' = Pending(c) - Bit(c = n)
            /\ Edges(c)' = Edges(c)
        BY <1>2, <2>2, <3>1
      <4>3. c \in Address
        BY <1>2
      <4> QED
        BY <1>2, <4>1, <4>2, <4>3 DEF Bit
    <3>3. refcnt[n] # 1 /\ todo[1] = FreeTask(n)
      BY <2>6 DEF FreeShared
    <3>4. Pending(n) >= 1
      <4>1. 1 \in DOMAIN todo
        BY <1>1, <2>1, TailOfTodo
      <4> QED
        BY <1>2, <3>3, <4>1, PendingOccurs
    <3>5. ASSUME NEW c \in InUse'
          PROVE  /\ refcnt'[c] = refcnt[c] \/ (refcnt[c] > 1 /\ refcnt'[c] = refcnt[c] - 1)
                 /\ refcnt[c] = 1 /\ Pending(c) > 0 => Pending(c)' > 0
      <4>1. c \in Live /\ c \in Address
        BY <1>2, <2>2, <3>5
      <4>2. refcnt[c] = Edges(c) + Pending(c) + hold[c]
        BY <4>1 DEF CountsExact
      <4>3. CASE c = n
        <5>1. refcnt[n] > 1
          BY <1>2, <3>3, <3>4, <4>1, <4>2, <4>3
        <5> QED
          BY <3>1, <3>3, <4>1, <4>3, <5>1 DEF Bit
      <4>4. CASE c # n
        BY <1>2, <3>1, <4>1, <4>4 DEF Bit
      <4> QED
        BY <4>3, <4>4
    <3>6. Thinned(hold)
      BY <1>1, <1>2, <2>1, <2>2, <3>5
    <3> QED
      BY <3>2, <3>6
  <2> QED
    BY <1>3, <2>2, <2>3, <2>4, <2>5, <2>6
<1>4. ASSUME NEW n \in Node, FreeLast(n)
      PROVE  /\ ListInv' /\ CountsExact(hold)' /\ Ordered(level, graph)' /\ CallsInUse'
             /\ Thinned(hold)
  <2>1. /\ ListInv'
        /\ n \in InUse /\ Live' = Live /\ InUse' = InUse \ {n} /\ Parents' = Parents \ {n}
        /\ \A c : Edges(c)' = Edges(c) - Bit(label[n] = App /\ left[n] = c)
                                       - Bit(label[n] = App /\ right[n] = c)
        /\ \A c : Pending(c)' = Pending(c) - Bit(c = n)
                                 + Bit(label[n] = App /\ left[n] = c)
                                 + Bit(label[n] = App /\ right[n] = c)
        /\ \A c \in Address : refcnt'[c] = refcnt[c] - Bit(c = n)
    BY <1>4, FreeLastList
  <2>2. /\ refcnt[n] = 1 /\ todo[1] = FreeTask(n) /\ right' = right
        /\ todo' = Children(n) \o <<LinkTask(n)>> \o Tail(todo)
    BY <1>4 DEF FreeLast
  <2>3. 1 \in DOMAIN todo
    BY <1>1, TodoIsTasks, EmptySeq
  <2>4. Pending(n) >= 1
    BY <1>2, <2>2, <2>3, PendingOccurs
  <2>5. Edges(n) = 0 /\ Pending(n) = 1 /\ hold[n] = 0
    <3>1. refcnt[n] = Edges(n) + Pending(n) + hold[n] /\ n \in Address
      BY <1>2, <2>1 DEF CountsExact
    <3> QED
      BY <1>2, <2>2, <2>4, <3>1
  <2>6. CountsExact(hold)'
    <3> SUFFICES ASSUME NEW c \in Live
                 PROVE  refcnt'[c] = Edges(c)' + Pending(c)' + hold[c]
      BY <2>1 DEF CountsExact
    <3>1. refcnt[c] = Edges(c) + Pending(c) + hold[c] /\ c \in Address
      BY <1>2 DEF CountsExact
    <3>2. /\ refcnt'[c] = refcnt[c] - Bit(c = n)
          /\ Edges(c)' = Edges(c) - Bit(label[n] = App /\ left[n] = c)
                                  - Bit(label[n] = App /\ right[n] = c)
          /\ Pending(c)' = Pending(c) - Bit(c = n) + Bit(label[n] = App /\ left[n] = c)
                                                   + Bit(label[n] = App /\ right[n] = c)
      BY <2>1, <3>1
    <3> QED
      BY <1>2, <3>1, <3>2 DEF Bit
  <2>7. \A p \in Parents : left[p] # n /\ right[p] # n
    BY <2>5, EdgesOfParents
  <2>8. Ordered(level, graph)'
    BY <1>1, <2>1, <2>2, <2>7 DEF Ordered
  <2>9. label[n] = App =>
            \A c \in {left[n], right[n]} \ {Null} : c \in InUse' /\ Pending(c)' > 0
    <3> SUFFICES ASSUME label[n] = App, NEW c \in {left[n], right[n]} \ {Null}
                 PROVE  c \in InUse' /\ Pending(c)' > 0
      OBVIOUS
    <3>1. c \in InUse /\ level[n] < level[c] /\ n \in Parents
      BY <2>1 DEF Ordered, Parents
    <3>2. c # n
      BY <2>7, <3>1
    <3>3. Pending(c)' = Pending(c) + Bit(left[n] = c) + Bit(right[n] = c)
      BY <1>2, <2>1, <3>2 DEF Bit
    <3> QED
      BY <1>2, <2>1, <3>1, <3>2, <3>3 DEF Bit
  <2>10. CallsInUse'
    <3> SUFFICES ASSUME NEW i \in DOMAIN todo', todo'[i].op = "free"
                 PROVE  todo'[i].node \in InUse' \cup {Null}
      BY DEF CallsInUse
    <3>1. PICK k \in {0, 2} :
            /\ k = IF label[n] = App THEN 2 ELSE 0
            /\ DOMAIN todo' = 1..Len(todo) + k
            /\ k = 2 => todo'[1] = FreeTask(left[n]) /\ todo'[2] = FreeTask(right[n])
            /\ todo'[k + 1] = LinkTask(n)
            /\ \A j \in k+2..Len(todo) + k : j - k \in DOMAIN todo /\ todo'[j] = todo[j - k]
      BY <1>1, <2>2, ReleasedTodo
    <3>2. CASE i <= k
      <4>1. k = 2 /\ i \in {1, 2}
        BY <3>1, <3>2, TodoIsTasks
      <4>2. todo'[i].node \in {left[n], right[n]} /\ label[n] = App
        BY <3>1, <4>1 DEF FreeTask
      <4> QED
        BY <2>9, <4>2
    <3>3. CASE i = k + 1
      BY <3>1, <3>3 DEF LinkTask
    <3>4. CASE i > k + 1
      <4>1. i \in k+2..Len(todo) + k
        BY <3>1, <3>4, TodoIsTasks
      <4>2. todo'[i].node \in InUse \cup {Null}
        BY <3>1, <4>1 DEF CallsInUse
      <4>3. todo'[i].node # n
        <5>1. Pending(n)' = 0
          <6>1. label[n] = App => left[n] # n /\ right[n] # n
            BY <2>1, <2>7 DEF Parents
          <6> QED
            BY <2>1, <2>5, <6>1 DEF Bit
        <5>2. \A j \in DOMAIN todo' : todo'[j] # FreeTask(n)
          <6>1. \A c : Pending(c)' = 0 <=> \A j \in DOMAIN todo' : todo'[j] # FreeTask(c)
            BY NodeFactsLater DEF NodeFacts
          <6> QED
            BY <5>1, <6>1
        <5>3. todo'[i] \in Task
          BY <3>1, <4>1, TodoIsTasks
        <5> QED
          BY <5>2, <5>3, TaskFields
      <4> QED
        BY <2>1, <4>2, <4>3
    <3> QED
      BY <3>1, <3>2, <3>3, <3>4, TodoIsTasks
  <2>11. Thinned(hold)
    <3>1. ASSUME NEW c \in InUse \ InUse'
          PROVE  /\ refcnt[c] = 1 /\ Edges(c) = 0 /\ Pending(c) = 1 /\ hold[c] = 0
                 /\ label[c] = App => \A d \in {left[c], right[c]} \ {Null} : Pending(d)' > 0
      BY <2>1, <2>2, <2>5, <2>9, <3>1
    <3>2. ASSUME NEW c \in InUse'
          PROVE  /\ refcnt'[c] = refcnt[c] \/ (refcnt[c] > 1 /\ refcnt'[c] = refcnt[c] - 1)
                 /\ refcnt[c] = 1 /\ Pending(c) > 0 => Pending(c)' > 0
      <4>1. c # n /\ c \in Address
        BY <1>2, <2>1, <3>2
      <4>2. refcnt'[c] = refcnt[c] - 0
        BY <2>1, <4>1 DEF Bit
      <4>3. Pending(c)' >= Pending(c)
        <5>1. Pending(c)' = Pending(c) - 0 + Bit(label[n] = App /\ left[n] = c)
                                           + Bit(label[n] = App /\ right[n] = c)
          BY <2>1, <4>1 DEF Bit
        <5> QED
          BY <1>2, <5>1 DEF Bit
      <4>4. Pending(c)' \in Int
        <5>1. Pending(c)' = Pending(c) - 0 + Bit(label[n] = App /\ left[n] = c)
                                           + Bit(label[n] = App /\ right[n] = c)
          BY <2>1, <4>1 DEF Bit
        <5> QED
          BY <1>2, <5>1 DEF Bit
      <4> QED
        BY <1>2, <4>1, <4>2, <4>3, <4>4
    <3> QED
      BY <1>1, <2>1, <2>2, <3>1, <3>2
  <2> QED
    BY <2>1, <2>6, <2>8, <2>10, <2>11
<1>5. ASSUME NEW n \in Node, LinkOne(n)
      PROVE  /\ ListInv' /\ CountsExact(hold)' /\ Ordered(level, graph)' /\ CallsInUse'
             /\ Thinned(hold)
  <2>1. /\ ListInv'
        /\ n \notin InUse /\ Live' = Live \ {n} /\ InUse' = InUse /\ Parents' = Parents
        /\ \A c : Edges(c)' = Edges(c) /\ Pending(c)' = Pending(c)
        /\ \A c \in Address \ {n} : right'[c] = right[c]
        /\ refcnt' = refcnt
    BY <1>5, LinkOneList
  <2>2. todo' = Tail(todo)
    BY <1>5 DEF LinkOne, LinkFree
  <2>3. CallsInUse'
    <3>1. \A i \in DOMAIN todo' : i + 1 \in DOMAIN todo /\ todo'[i] = todo[i + 1]
      BY <1>1, <2>2, TailOfTodo
    <3> QED
      BY <2>1, <3>1 DEF CallsInUse
  <2>4. \A c \in InUse : right'[c] = right[c]
    BY <1>2, <2>1
  <2>5. Ordered(level, graph)'
    BY <1>1, <1>2, <2>1, <2>4 DEF Ordered
  <2>6. CountsExact(hold)'
    BY <2>1 DEF CountsExact
  <2>7. Thinned(hold)
    BY <1>1, <1>2, <2>1, <2>4
  <2> QED
    BY <2>1, <2>3, <2>5, <2>6, <2>7
<1> QED
  BY <1>1, <1>3, <1>4, <1>5

-----------------------------------------------------------------------------
\* An injective function keeps the number of elements.
LEMMA ImageCount ==
    ASSUME NEW I, IsFiniteSet(I), NEW f, \A i, j \in I : f[i] = f[j] => i = j
    PROVE  /\ IsFiniteSet({f[i] : i \in I})
           /\ Cardinality({f[i] : i \in I}) = Cardinality(I)
<1> DEFINE T == {f[i] : i \in I}
           g == [i \in I |-> f[i]]
<1>1. g \in Bijection(I, T)
  <2>1. g \in [I -> T]
    OBVIOUS
  <2>2. \A i, j \in I : g[i] = g[j] => i = j
    OBVIOUS
  <2>3. \A t \in T : \E i \in I : g[i] = t
    OBVIOUS
  <2> HIDE DEF g, T
  <2> QED
    BY <2>1, <2>2, <2>3 DEF Bijection, Injection, Surjection, IsInjective
<1> HIDE DEF g, T
<1>2. IsFiniteSet(T) /\ Cardinality(T) = Cardinality(I)
  BY <1>1, FS_Bijection DEF ExistsBijection
<1> QED
  BY <1>2 DEF T

\* Two finite sets without common elements.
LEMMA CountDisjoint ==
    ASSUME NEW S, NEW T, IsFiniteSet(S), IsFiniteSet(T), S \cap T = {}
    PROVE  /\ Cardinality(S) \in Nat /\ Cardinality(T) \in Nat
           /\ Cardinality(S \cup T) = Cardinality(S) + Cardinality(T)
<1>1. Cardinality(S) \in Nat /\ Cardinality(T) \in Nat
  BY FS_CardinalityType
<1>2. Cardinality(S \cap T) = 0
  BY FS_EmptySet
<1>3. Cardinality(S \cup T) = Cardinality(S) + Cardinality(T) - Cardinality(S \cap T)
  BY FS_Union
<1> QED
  BY <1>1, <1>2, <1>3

-----------------------------------------------------------------------------
\* The nodes that the cells go into.
New(cells) == {Fresh(i) : i \in DOMAIN cells}

\* new_node returns nodes that are not live, a different one each time.
LEMMA FreshNodes ==
    ASSUME HeapTypeOK, FreeListChained, NEW k \in Nat, CanAllocate(k)
    PROVE  /\ \A i \in 1..k : Fresh(i) \in Node /\ Fresh(i) \notin Live
           /\ \A i, j \in 1..k : Fresh(i) = Fresh(j) => i = j
<1>1. /\ freeList \in Seq(Node) /\ Len(freeList) \in Nat /\ DOMAIN freeList = 1..Len(freeList)
      /\ allocated \in Nat
  BY LenProperties DEF HeapTypeOK
<1>2. \A i \in DOMAIN freeList : freeList[i] \in 1..allocated
  BY DEF FreeListChained
<1>3. ASSUME NEW i \in 1..k
      PROVE  Fresh(i) \in Node /\ Fresh(i) \notin Live
  <2>1. Fresh(i) \in Node
    BY FreshIsNode
  <2>2. CASE i <= Len(freeList)
    BY <1>1, <2>1, <2>2 DEF Fresh, Live
  <2>3. CASE i > Len(freeList)
    BY <1>1, <2>1, <2>3 DEF Fresh, Live
  <2> QED
    BY <1>1, <2>2, <2>3
<1>4. ASSUME NEW i \in 1..k, NEW j \in 1..k, Fresh(i) = Fresh(j) PROVE i = j
  <2>1. CASE i <= Len(freeList) /\ j <= Len(freeList)
    <3>1. i \in DOMAIN freeList /\ j \in DOMAIN freeList /\ freeList[i] = freeList[j]
      BY <1>1, <1>4, <2>1 DEF Fresh
    <3> QED
      BY <3>1 DEF FreeListChained
  <2>2. CASE i > Len(freeList) /\ j > Len(freeList)
    BY <1>1, <1>4, <2>2 DEF Fresh
  <2>3. CASE i <= Len(freeList) /\ j > Len(freeList)
    <3>1. i \in DOMAIN freeList
      BY <1>1, <2>3
    <3>2. Fresh(i) <= allocated /\ Fresh(j) > allocated
      BY <1>1, <1>2, <2>3, <3>1 DEF Fresh
    <3> QED
      BY <1>1, <1>4, <3>1, <3>2, <1>2, <2>3 DEF Fresh
  <2>4. CASE i > Len(freeList) /\ j <= Len(freeList)
    <3>1. j \in DOMAIN freeList
      BY <1>1, <2>4
    <3>2. Fresh(j) <= allocated /\ Fresh(i) > allocated
      BY <1>1, <1>2, <2>4, <3>1 DEF Fresh
    <3> QED
      BY <1>1, <1>4, <3>1, <3>2, <1>2, <2>4 DEF Fresh
  <2> QED
    BY <1>1, <2>1, <2>2, <2>3, <2>4
<1> QED
  BY <1>3, <1>4

\* They become live, and what is left of the free list is chained.
LEMMA NewNodesLive ==
    ASSUME HeapTypeOK, HeapTypeOK', FreeListChained, NEW cells \in Seq(Cell), NewNodes(cells)
    PROVE  /\ FreeListChained' /\ Live' = Live \cup New(cells)
<1> DEFINE k == Len(cells)
           m == Len(freeList)
<1>1. /\ freeList \in Seq(Node) /\ m \in Nat /\ DOMAIN freeList = 1..m
      /\ allocated \in Nat /\ k \in Nat /\ DOMAIN cells = 1..k
      /\ freeList' = SubSeq(freeList, k + 1, m)
      /\ allocated' = IF k <= m THEN allocated ELSE allocated + k - m
      /\ \A n \in Address \ New(cells) : right'[n] = right[n]
  BY LenProperties DEF HeapTypeOK, NewNodes, New
<1>2. \A i \in 1..m : freeList[i] \in Node /\ freeList[i] \in 1..allocated
  BY <1>1, ElementOfSeq DEF FreeListChained
<1>3. /\ \A i \in 1..k : Fresh(i) \in Node /\ Fresh(i) \notin Live
      /\ \A i, j \in 1..k : Fresh(i) = Fresh(j) => i = j
  BY <1>1, FreshNodes DEF NewNodes
<1>0. k = Len(cells) /\ m = Len(freeList) /\ k \in Nat /\ m \in Nat
  BY <1>1
<1> HIDE DEF k, m
<1>4. CASE k <= m
  <2>1. /\ Len(freeList') = m - k /\ DOMAIN freeList' = 1..m - k
        /\ \A i \in 1..m - k : freeList'[i] = freeList[i + k]
    <3>1. \A i \in k+1..m : freeList[i] \in Node
      BY <1>0, <1>1, <1>2
    <3>2. /\ Len(SubSeq(freeList, k + 1, m)) = m - k
          /\ SubSeq(freeList, k + 1, m) \in Seq(Node)
          /\ \A i \in 1..m - k : SubSeq(freeList, k + 1, m)[i] = freeList[i + k]
      <4>1. /\ SubSeq(freeList, k + 1, m) \in Seq(Node)
            /\ Len(SubSeq(freeList, k + 1, m)) = IF k + 1 <= m THEN m - (k + 1) + 1 ELSE 0
            /\ \A i \in 1..m - (k + 1) + 1 :
                  SubSeq(freeList, k + 1, m)[i] = freeList[(k + 1) + i - 1]
        <5>1. k + 1 \in Int /\ m \in Int
          BY <1>0, <1>1
        <5> QED
          BY <3>1, <5>1, SubSeqProperties
      <4>2. /\ m - (k + 1) + 1 = m - k
            /\ (IF k + 1 <= m THEN m - (k + 1) + 1 ELSE 0) = m - k
        BY <1>0, <1>1, <1>4
      <4>3. ASSUME NEW i \in 1..m - k
            PROVE  SubSeq(freeList, k + 1, m)[i] = freeList[i + k]
        <5>1. (k + 1) + i - 1 = i + k
          BY <1>0, <1>1
        <5> QED
          BY <4>1, <4>2, <5>1
      <4> QED
        BY <4>1, <4>2, <4>3
    <3> QED
      BY <1>0, <1>1, <3>2, LenProperties
  <2>2. \A i \in 1..m - k : i + k \in 1..m
    BY <1>0, <1>1
  <2>3. Live' = Live \cup New(cells)
    <3>1. \A x : x \in New(cells) <=> \E i \in 1..k : x = freeList[i]
      <4>1. \A i \in 1..k : Fresh(i) = freeList[i]
        BY <1>0, <1>1, <1>4 DEF Fresh
      <4> QED
        BY <1>0, <1>1, <4>1 DEF New
    <3>2. \A x : x \in Live <=> x \in 1..allocated /\ ~ \E i \in 1..m : x = freeList[i]
      BY <1>0, <1>1 DEF Live
    <3>3. \A x : x \in Live' <=> x \in 1..allocated /\ ~ \E i \in 1..m - k : x = freeList[i + k]
      <4>1. {freeList'[i] : i \in DOMAIN freeList'} = {freeList[i + k] : i \in 1..m - k}
        BY <2>1
      <4>2. allocated' = allocated
        BY <1>1, <1>4
      <4> QED
        BY <4>1, <4>2 DEF Live
    <3>4. \A i \in 1..k : ~ \E j \in 1..m - k : freeList[i] = freeList[j + k]
      <4> SUFFICES ASSUME NEW i \in 1..k, NEW j \in 1..m - k, freeList[i] = freeList[j + k]
                   PROVE  FALSE
        OBVIOUS
      <4>1. i \in 1..m /\ j + k \in 1..m /\ i # j + k
        BY <1>0, <1>1, <1>4
      <4> QED
        BY <1>0, <1>1, <4>1 DEF FreeListChained
    <3>5. \A i \in 1..m : i \in 1..k \/ \E j \in 1..m - k : i = j + k
      <4> SUFFICES ASSUME NEW i \in 1..m, i \notin 1..k PROVE i - k \in 1..m - k /\ i = (i - k) + k
        OBVIOUS
      <4> QED
        BY <1>0, <1>1
    <3>6. \A i \in 1..k : freeList[i] \in 1..allocated
      BY <1>0, <1>1, <1>2, <1>4
    <3> QED
      BY <2>2, <3>1, <3>2, <3>3, <3>4, <3>5, <3>6
  <2>4. FreeListChained'
    <3>1. \A i, j \in DOMAIN freeList' : freeList'[i] = freeList'[j] => i = j
      <4> SUFFICES ASSUME NEW i \in DOMAIN freeList', NEW j \in DOMAIN freeList',
                          freeList'[i] = freeList'[j]
                   PROVE  i = j
        OBVIOUS
      <4>1. i + k = j + k
        <5>1. i + k \in DOMAIN freeList /\ j + k \in DOMAIN freeList
          BY <1>1, <2>1, <2>2
        <5>2. freeList[i + k] = freeList[j + k]
          BY <2>1
        <5> QED
          BY <5>1, <5>2 DEF FreeListChained
      <4> QED
        BY <1>0, <1>1, <2>1, <4>1
    <3>2. ASSUME NEW i \in DOMAIN freeList'
          PROVE  /\ freeList'[i] \in 1..allocated'
                 /\ right'[freeList'[i]] = IF i = Len(freeList') THEN Null ELSE freeList'[i + 1]
      <4>1. i \in 1..m - k /\ i + k \in 1..m /\ freeList'[i] = freeList[i + k]
        BY <2>1, <2>2
      <4>2. /\ freeList[i + k] \in 1..allocated
            /\ right[freeList[i + k]] = IF i + k = m THEN Null ELSE freeList[i + k + 1]
        BY <1>0, <1>1, <4>1 DEF FreeListChained
      <4>3. right'[freeList[i + k]] = right[freeList[i + k]]
        <5>1. freeList[i + k] \in Address
          BY <1>2, <4>1 DEF Address
        <5>2. freeList[i + k] \notin New(cells)
          <6> SUFFICES ASSUME NEW j \in 1..k, Fresh(j) = freeList[i + k] PROVE FALSE
            BY <1>0, <1>1 DEF New
          <6>1. j \in 1..m /\ i + k # j /\ freeList[j] = freeList[i + k]
            BY <1>0, <1>1, <1>4, <4>1 DEF Fresh
          <6> QED
            BY <1>0, <1>1, <4>1, <6>1 DEF FreeListChained
        <5> QED
          BY <1>0, <1>1, <5>1, <5>2
      <4>4. CASE i = m - k
        BY <1>0, <1>1, <1>4, <2>1, <4>1, <4>2, <4>3, <4>4
      <4>5. CASE i # m - k
        <5>1. i + 1 \in 1..m - k /\ i + k # m /\ (i + 1) + k = i + k + 1
          BY <1>0, <1>1, <4>1, <4>5
        <5>2. freeList'[i + 1] = freeList[i + k + 1]
          BY <2>1, <5>1
        <5> QED
          BY <1>0, <1>1, <1>4, <2>1, <4>1, <4>2, <4>3, <4>5, <5>1, <5>2
      <4> QED
        BY <4>4, <4>5
    <3> QED
      BY <3>1, <3>2 DEF FreeListChained
  <2> QED
    BY <2>3, <2>4
<1>5. CASE k > m
  <2>1. freeList' = <<>>
    <3>1. k + 1 > m /\ k + 1 \in Int /\ m \in Int
      BY <1>0, <1>1, <1>5
    <3> QED
      BY <1>0, <1>1, <3>1, SubSeqEmpty
  <2>2. FreeListChained'
    BY <2>1 DEF FreeListChained
  <2>3. Live' = 1..allocated + k - m
    BY <1>0, <1>1, <1>5, <2>1 DEF Live
  <2>4. \A x : x \in New(cells) <=> \/ \E i \in 1..m : x = freeList[i]
                                    \/ x \in allocated+1..allocated + k - m
    <3>1. \A i \in 1..m : i \in 1..k /\ Fresh(i) = freeList[i]
      BY <1>0, <1>1, <1>5 DEF Fresh
    <3>2. \A i \in 1..k : i \in 1..m \/ Fresh(i) \in allocated+1..allocated + k - m
      BY <1>0, <1>1, <1>5 DEF Fresh
    <3>3. ASSUME NEW x \in allocated+1..allocated + k - m
          PROVE  x - allocated + m \in 1..k /\ Fresh(x - allocated + m) = x
      BY <1>0, <1>1, <1>5 DEF Fresh
    <3>4. New(cells) = {Fresh(i) : i \in 1..k}
      BY <1>1 DEF New
    <3> QED
      BY <3>1, <3>2, <3>3, <3>4
  <2>5. Live' = Live \cup New(cells)
    <3>1. \A x : x \in Live <=> x \in 1..allocated /\ ~ \E i \in 1..m : x = freeList[i]
      BY <1>0, <1>1 DEF Live
    <3>2. \A x : x \in 1..allocated + k - m <=> x \in 1..allocated \/ x \in allocated+1..allocated + k - m
      BY <1>0, <1>1, <1>5
    <3> QED
      BY <1>2, <2>3, <2>4, <3>1, <3>2
  <2> QED
    BY <2>2, <2>5
<1> QED
  BY <1>0, <1>1, <1>4, <1>5

-----------------------------------------------------------------------------
\* What the cells become, and what they leave alone.
LEMMA NewNodesFields ==
    ASSUME HeapTypeOK, HeapTypeOK', FreeListChained, NEW cells \in Seq(Cell), NewNodes(cells)
    PROVE  /\ New(cells) \subseteq Node /\ New(cells) \cap Live = {}
           /\ \A i, j \in DOMAIN cells : Fresh(i) = Fresh(j) => i = j
           /\ \A i \in DOMAIN cells :
                 /\ Fresh(i) \in New(cells) /\ cells[i] \in Cell
                 /\ label'[Fresh(i)] = cells[i].label /\ left'[Fresh(i)] = cells[i].left
                 /\ right'[Fresh(i)] = cells[i].right
           /\ \A n \in Address \ New(cells) :
                 label'[n] = label[n] /\ left'[n] = left[n] /\ right'[n] = right[n]
<1> DEFINE cell(n) == cells[CHOOSE i \in DOMAIN cells : Fresh(i) = n]
<1>1. /\ label' = [n \in Address |-> IF n \in New(cells) THEN cell(n).label ELSE label[n]]
      /\ left' = [n \in Address |-> IF n \in New(cells) THEN cell(n).left ELSE left[n]]
      /\ right' = [n \in Address |-> IF n \in New(cells) THEN cell(n).right ELSE right[n]]
      /\ CanAllocate(Len(cells))
  BY DEF NewNodes, New
<1>2. Len(cells) \in Nat /\ DOMAIN cells = 1..Len(cells) /\ \A i \in DOMAIN cells : cells[i] \in Cell
  BY LenProperties
<1>3. /\ \A i \in DOMAIN cells : Fresh(i) \in Node /\ Fresh(i) \notin Live
      /\ \A i, j \in DOMAIN cells : Fresh(i) = Fresh(j) => i = j
  BY <1>1, <1>2, FreshNodes
<1>4. \A i \in DOMAIN cells : cell(Fresh(i)) = cells[i]
  BY <1>3
<1>5. \A i \in DOMAIN cells : Fresh(i) \in New(cells) /\ Fresh(i) \in Address
  BY <1>3, LiveNodes DEF New
<1>6. New(cells) \subseteq Node /\ New(cells) \cap Live = {}
  BY <1>3 DEF New
<1> HIDE DEF cell
<1> QED
  BY <1>1, <1>2, <1>3, <1>4, <1>5, <1>6

\* Between two free_node calls, building cells keeps the list, the order of
\* the counts and the graphs: Edges grows by the mentions in the cells.
LEMMA NewNodesGraph ==
    ASSUME HeapTypeOK, HeapTypeOK', ListInv, todo = <<>>,
           NEW cells \in Seq(Cell), NewNodes(cells),
           \A i \in DOMAIN cells :
              /\ {cells[i].left, cells[i].right} \subseteq Live \cup New(cells) \cup {Null}
              /\ cells[i].label # App => cells[i].left = Null /\ cells[i].right = Null,
           \A n \in Node \ (Live \cup New(cells)) : refcnt'[n] = Counted(cells)[n]
    PROVE  /\ ListInv' /\ todo' = <<>>
           /\ InUse = Live /\ Live' = Live \cup New(cells) /\ InUse' = InUse \cup New(cells)
           /\ Parents' = Parents \cup {Fresh(i) : i \in {j \in DOMAIN cells : cells[j].label = App}}
           /\ \A n \in Node : Edges(n)' = Edges(n) + Mentions(cells, n)
           /\ \A n : Pending(n) = 0 /\ Pending(n)' = 0
           /\ \A n \in Address : Counted(cells)[n] = (IF n \in New(cells) THEN 0 ELSE refcnt[n])
                                                      + Mentions(cells, n)
           /\ \A n : Mentions(cells, n) \in Nat
           /\ \A n : Mentions(cells, n) = 0 <=> \A i \in DOMAIN cells : cells[i].left # n /\ cells[i].right # n
<1>1. FreeListChained' /\ Live' = Live \cup New(cells) /\ todo' = <<>>
  BY NewNodesLive DEF ListInv, NewNodes
<1>2. /\ New(cells) \subseteq Node /\ New(cells) \cap Live = {}
      /\ \A i, j \in DOMAIN cells : Fresh(i) = Fresh(j) => i = j
      /\ \A i \in DOMAIN cells :
            /\ Fresh(i) \in New(cells) /\ cells[i] \in Cell
            /\ label'[Fresh(i)] = cells[i].label /\ left'[Fresh(i)] = cells[i].left
            /\ right'[Fresh(i)] = cells[i].right
      /\ \A n \in Address \ New(cells) :
            label'[n] = label[n] /\ left'[n] = left[n] /\ right'[n] = right[n]
  BY NewNodesFields DEF ListInv
<1>3. Linking = {} /\ Linking' = {}
  BY <1>1 DEF Linking
<1>4. InUse = Live /\ InUse' = InUse \cup New(cells)
  BY <1>1, <1>3 DEF InUse
<1>5. /\ Live \subseteq Node /\ Parents \subseteq InUse /\ Node \subseteq Address /\ Null \notin Node
  BY LiveNodes
<1> DEFINE K(S) == {Fresh(i) : i \in S}
           A == {j \in DOMAIN cells : cells[j].label = App}
<1>6. Parents' = Parents \cup K(A)
  <2>1. \A n \in Live : n \in Parents' <=> n \in Parents
    BY <1>1, <1>2, <1>4, <1>5 DEF Parents
  <2>2. \A i \in DOMAIN cells : Fresh(i) \in Parents' <=> cells[i].label = App
    BY <1>2, <1>4 DEF Parents
  <2>3. \A n \in New(cells) : n \in Parents' <=> n \in K(A)
    <3> SUFFICES ASSUME NEW i \in DOMAIN cells
                 PROVE  Fresh(i) \in Parents' <=> Fresh(i) \in K(A)
      BY DEF New
    <3> QED
      BY <1>2, <2>2
  <2>4. Parents' \subseteq Live \cup New(cells)
    BY <1>4 DEF Parents
  <2>5. K(A) \subseteq New(cells) /\ Parents \subseteq Live
    BY <1>4, <1>5 DEF New
  <2> HIDE DEF K, A
  <2> QED
    BY <1>2, <2>1, <2>3, <2>4, <2>5
<1>7. \A n : /\ Mentions(cells, n) \in Nat
             /\ Mentions(cells, n) = 0 <=> \A i \in DOMAIN cells : cells[i].left # n /\ cells[i].right # n
  <2> SUFFICES ASSUME NEW n
               PROVE  /\ Mentions(cells, n) \in Nat
                      /\ Mentions(cells, n) = 0 <=> \A i \in DOMAIN cells : cells[i].left # n /\ cells[i].right # n
    OBVIOUS
  <2> DEFINE L == {i \in DOMAIN cells : cells[i].left = n}
             R == {i \in DOMAIN cells : cells[i].right = n}
  <2>1. IsFiniteSet(L) /\ IsFiniteSet(R)
    <3>1. IsFiniteSet(DOMAIN cells)
      BY LenProperties, FS_Interval
    <3> QED
      BY <3>1, FS_Subset
  <2>2. /\ Cardinality(L) \in Nat /\ Cardinality(R) \in Nat
        /\ (Cardinality(L) = 0 <=> L = {}) /\ (Cardinality(R) = 0 <=> R = {})
    <3> HIDE DEF L, R
    <3> QED
      BY <2>1, FS_CardinalityType, FS_EmptySet
  <2>3. Mentions(cells, n) = Cardinality(L) + Cardinality(R)
    BY DEF Mentions
  <2>4. Mentions(cells, n) \in Nat /\ (Mentions(cells, n) = 0 <=> L = {} /\ R = {})
    <3> HIDE DEF L, R
    <3> QED
      BY <2>2, <2>3
  <2> QED
    BY <2>4
<1>8. \A n \in Node : Edges(n)' = Edges(n) + Mentions(cells, n)
  <2> SUFFICES ASSUME NEW n \in Node PROVE Edges(n)' = Edges(n) + Mentions(cells, n)
    OBVIOUS
  <2> DEFINE L == {p \in Parents : left[p] = n}
             R == {p \in Parents : right[p] = n}
             I == {i \in DOMAIN cells : cells[i].left = n}
             J == {i \in DOMAIN cells : cells[i].right = n}
  <2>1. I \subseteq A /\ J \subseteq A
    BY <1>5
  <2>2. /\ {p \in Parents' : left'[p] = n} = L \cup K(I)
        /\ {p \in Parents' : right'[p] = n} = R \cup K(J)
    <3>1. \A p \in Parents : left'[p] = left[p] /\ right'[p] = right[p]
      BY <1>2, <1>4, <1>5
    <3>2. \A i \in A : left'[Fresh(i)] = cells[i].left /\ right'[Fresh(i)] = cells[i].right
      BY <1>2
    <3>3. \A i \in A : i \in I <=> cells[i].left = n
      OBVIOUS
    <3>4. \A i \in A : i \in J <=> cells[i].right = n
      OBVIOUS
    <3> HIDE DEF A, I, J
    <3> QED
      BY <1>6, <2>1, <3>1, <3>2, <3>3, <3>4
  <2>3. /\ IsFiniteSet(I) /\ IsFiniteSet(J) /\ IsFiniteSet(L) /\ IsFiniteSet(R)
    <3>1. IsFiniteSet(DOMAIN cells)
      BY LenProperties, FS_Interval
    <3>2. IsFiniteSet(Parents)
      BY LiveNodes
    <3> QED
      BY <3>1, <3>2, FS_Subset
  <2>4. ASSUME NEW S \in SUBSET DOMAIN cells, IsFiniteSet(S)
        PROVE  IsFiniteSet(K(S)) /\ Cardinality(K(S)) = Cardinality(S)
    <3> DEFINE f == [i \in DOMAIN cells |-> Fresh(i)]
    <3>1. \A i, j \in S : f[i] = f[j] => i = j
      BY <1>2
    <3>2. K(S) = {f[i] : i \in S}
      OBVIOUS
    <3> HIDE DEF f, K
    <3> QED
      BY <2>4, <3>1, <3>2, ImageCount
  <2>5. L \cap K(I) = {} /\ R \cap K(J) = {}
    <3>1. K(I) \subseteq New(cells) /\ K(J) \subseteq New(cells)
      BY DEF New
    <3>2. L \subseteq Live /\ R \subseteq Live
      BY <1>4, <1>5
    <3> HIDE DEF K, L, R, I, J
    <3> QED
      BY <1>2, <3>1, <3>2
  <2>6. Mentions(cells, n) = Cardinality(I) + Cardinality(J)
        /\ Edges(n) = Cardinality(L) + Cardinality(R)
        /\ Edges(n)' = Cardinality(L \cup K(I)) + Cardinality(R \cup K(J))
    BY <2>2 DEF Edges, Mentions
  <2>7. I \in SUBSET DOMAIN cells /\ J \in SUBSET DOMAIN cells
    OBVIOUS
  <2> HIDE DEF L, R, I, J, K
  <2>8. /\ IsFiniteSet(K(I)) /\ IsFiniteSet(K(J)) /\ Cardinality(K(I)) = Cardinality(I)
        /\ Cardinality(K(J)) = Cardinality(J)
    BY <2>3, <2>4, <2>7
  <2>9. /\ Cardinality(L \cup K(I)) = Cardinality(L) + Cardinality(K(I))
        /\ Cardinality(R \cup K(J)) = Cardinality(R) + Cardinality(K(J))
        /\ Cardinality(L) \in Nat /\ Cardinality(R) \in Nat
        /\ Cardinality(K(I)) \in Nat /\ Cardinality(K(J)) \in Nat
    BY <2>3, <2>5, <2>8, CountDisjoint
  <2> QED
    BY <2>6, <2>8, <2>9
<1>9. \A n : Pending(n) = 0 /\ Pending(n)' = 0
  <2>1. \A n : {i \in DOMAIN <<>> : <<>>[i] = FreeTask(n)} = {}
    OBVIOUS
  <2> QED
    BY <1>1, <2>1, FS_EmptySet DEF Pending, FreeTask
<1>10. \A n \in Address : Counted(cells)[n] = (IF n \in New(cells) THEN 0 ELSE refcnt[n])
                                                + Mentions(cells, n)
  BY DEF Counted, New
<1>11. DeadUncounted'
  <2> SUFFICES ASSUME NEW n \in Node, n \notin InUse' PROVE refcnt'[n] <= 0
    BY DEF DeadUncounted
  <2>1. n \notin Live \cup New(cells)
    BY <1>4
  <2>2. Mentions(cells, n) = 0
    BY <1>5, <1>7, <2>1
  <2>3. refcnt'[n] = refcnt[n] + 0
    BY <1>5, <1>10, <2>1, <2>2
  <2>4. refcnt[n] \in Int /\ refcnt[n] <= 0
    BY <1>4, <1>5, <2>1 DEF ListInv, DeadUncounted, HeapTypeOK
  <2> QED
    BY <2>3, <2>4
<1>12. LinksOnce'
  BY <1>1 DEF LinksOnce
<1> QED
  BY <1>1, <1>4, <1>6, <1>7, <1>8, <1>9, <1>10, <1>11, <1>12 DEF ListInv

=============================================================================
