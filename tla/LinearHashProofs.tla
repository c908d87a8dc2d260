-------------------------- MODULE LinearHashProofs --------------------------
(***************************************************************************)
(* Theorems about the hash table of hashtable.c, for every hash function,  *)
(* every number of buckets to start with and every load: a lookup always   *)
(* looks where the string is, and one split per insertion keeps the load.  *)
(***************************************************************************)
EXTENDS LinearHash, FiniteSetTheorems, TLAPS

-----------------------------------------------------------------------------
(* Remainders.                                                             *)

\* Quotient and remainder are determined by what they are.
LEMMA RemainderUnique ==
    ASSUME NEW v \in Nat, NEW m \in Nat \ {0}, NEW k \in Nat, NEW r \in 0..m-1,
           v = m * k + r
    PROVE  v % m = r
BY Z3

\* A remainder is smaller than the modulus.
LEMMA RemainderRange ==
    ASSUME NEW v \in Nat, NEW m \in Nat \ {0}
    PROVE  v % m \in 0..m-1
BY Z3

\* Quotients of naturals are naturals.
LEMMA QuotientIsNat ==
    ASSUME NEW v \in Nat, NEW m \in Nat \ {0}
    PROVE  v \div m \in Nat
BY Z3

\* What \div and % are together.
LEMMA Division ==
    ASSUME NEW v \in Nat, NEW m \in Nat \ {0}
    PROVE  v = m * (v \div m) + (v % m)
BY Z3

\* One more bit of the hash value either is not set or adds the modulus.
LEMMA OneMoreBit ==
    ASSUME NEW v \in Nat, NEW m \in Nat \ {0}
    PROVE  v % (2 * m) = v % m \/ v % (2 * m) = (v % m) + m
<1> DEFINE r == v % (2 * m)
           k == v \div (2 * m)
<1>1. 2 * m \in Nat \ {0}
  BY Z3
<1>2. v = (2 * m) * k + r /\ k \in Nat /\ r \in 0..2*m-1
  BY <1>1, RemainderRange, QuotientIsNat, Division
<1> HIDE DEF r, k
<1>3. CASE r < m
  <2>1. v = m * (2 * k) + r /\ 2 * k \in Nat /\ r \in 0..m-1
    BY <1>2, <1>3, Z3
  <2>2. v % m = r
    BY <2>1, RemainderUnique
  <2> QED
    BY <2>2 DEF r
<1>4. CASE r >= m
  <2>1. v = m * (2 * k + 1) + (r - m) /\ 2 * k + 1 \in Nat /\ r - m \in 0..m-1
    BY <1>2, <1>4, Z3
  <2>2. v % m = r - m
    BY <2>1, RemainderUnique
  <2>3. r = (v % m) + m
    BY <1>2, <2>2, Z3
  <2> QED
    BY <2>3 DEF r
<1> QED
  BY <1>2, <1>3, <1>4, Z3

-----------------------------------------------------------------------------
(* Buckets.                                                                *)

\* A lookup stays inside the buckets in use.
LEMMA BucketInUse ==
    ASSUME NEW v \in Nat, NEW m \in Nat \ {0}, NEW q \in 0..m-1
    PROVE  BucketOf(v, q, m) \in 0..m+q-1
<1> DEFINE a == v % m
           b == v % (2 * m)
<1>1. a \in 0..m-1 /\ (b = a \/ b = a + m)
  BY RemainderRange, OneMoreBit
<1>2. BucketOf(v, q, m) = IF a < q THEN b ELSE a
  BY DEF BucketOf
<1> HIDE DEF a, b
<1> QED
  BY <1>1, <1>2, SMT

\* A split moves the pointer and perhaps begins a round; it changes the
\* bucket of no hash value outside the bucket that is split ...
LEMMA SplitLeavesOthers ==
    ASSUME NEW v \in Nat, NEW m \in Nat \ {0}, NEW q \in 0..m-1,
           BucketOf(v, q, m) # q
    PROVE  BucketOf(v, IF q + 1 = m THEN 0 ELSE q + 1, IF q + 1 = m THEN 2 * m ELSE m)
             = BucketOf(v, q, m)
<1> DEFINE a == v % m
           b == v % (2 * m)
           c == v % (2 * (2 * m))
<1>1. a \in 0..m-1 /\ b \in 0..2*m-1
  <2>1. 2 * m \in Nat \ {0}
    BY Z3
  <2> QED
    BY <2>1, RemainderRange
<1>2. BucketOf(v, q, m) = IF a < q THEN b ELSE a
  BY DEF BucketOf
<1>3. BucketOf(v, q + 1, m) = IF a < q + 1 THEN b ELSE a
  BY DEF BucketOf
<1>4. BucketOf(v, 0, 2 * m) = IF b < 0 THEN c ELSE b
  BY DEF BucketOf
<1> HIDE DEF a, b, c
<1>5. a # q \/ a < q
  BY <1>1, <1>2, SMT
<1>6. CASE q + 1 = m
  BY <1>1, <1>2, <1>4, <1>5, <1>6, SMT
<1>7. CASE q + 1 # m
  BY <1>1, <1>2, <1>3, <1>5, <1>7, SMT
<1> QED
  BY <1>6, <1>7

\* ... and sends those inside it to itself or to the new one.
LEMMA SplitDividesOne ==
    ASSUME NEW v \in Nat, NEW m \in Nat \ {0}, NEW q \in 0..m-1,
           BucketOf(v, q, m) = q
    PROVE  BucketOf(v, IF q + 1 = m THEN 0 ELSE q + 1, IF q + 1 = m THEN 2 * m ELSE m)
             \in {q, q + m}
<1> DEFINE a == v % m
           b == v % (2 * m)
           c == v % (2 * (2 * m))
<1>1. a \in 0..m-1 /\ (b = a \/ b = a + m)
  BY RemainderRange, OneMoreBit
<1>2. BucketOf(v, q, m) = IF a < q THEN b ELSE a
  BY DEF BucketOf
<1>3. BucketOf(v, q + 1, m) = IF a < q + 1 THEN b ELSE a
  BY DEF BucketOf
<1>4. BucketOf(v, 0, 2 * m) = IF b < 0 THEN c ELSE b
  BY DEF BucketOf
<1> HIDE DEF a, b, c
<1>5. a = q
  BY <1>1, <1>2, SMT
<1>6. CASE q + 1 = m
  BY <1>1, <1>4, <1>5, <1>6, SMT
<1>7. CASE q + 1 # m
  BY <1>1, <1>3, <1>5, <1>7, SMT
<1> QED
  BY <1>6, <1>7

-----------------------------------------------------------------------------
(* rehash_hashtable                                                        *)

\* A split keeps the split pointer inside its round, and the array grows in
\* time for the new bucket.
LEMMA SplitKeepsTypes ==
    ASSUME TableTypeOK, NEW b \in [0..allocated-1 -> SUBSET Node], SplitBucket(b)
    PROVE  /\ maxp' \in Nat \ {0} /\ p' \in 0..maxp'-1
           /\ currentsize' = maxp' + p'
           /\ allocated' \in Nat /\ allocated' >= currentsize'
           /\ Grown(b) \in [0..allocated'-1 -> SUBSET Node]
           /\ \A i \in 0..allocated-1 : i \in 0..allocated'-1 /\ Grown(b)[i] = b[i]
           /\ \A i \in 0..allocated'-1 : i \notin 0..allocated-1 => Grown(b)[i] = {}
           /\ p \in 0..allocated-1 /\ p + maxp \in 0..allocated'-1
           /\ p # p + maxp
<1>1. /\ maxp \in Nat \ {0} /\ p \in 0..maxp-1
      /\ currentsize = maxp + p
      /\ allocated \in Nat /\ allocated >= currentsize
  BY DEF TableTypeOK
<1>2. /\ p' = IF p + 1 = maxp THEN 0 ELSE p + 1
      /\ maxp' = IF p + 1 = maxp THEN 2 * maxp ELSE maxp
      /\ currentsize' = currentsize + 1
      /\ allocated' = IF currentsize >= allocated THEN 2 * allocated ELSE allocated
  BY DEF SplitBucket, NextSplit, NextRound
<1>3. /\ maxp' \in Nat \ {0} /\ p' \in 0..maxp'-1
      /\ currentsize' = maxp' + p'
      /\ p # p + maxp
  BY <1>1, <1>2
<1>4. /\ allocated' \in Nat /\ allocated' >= currentsize'
      /\ p \in 0..allocated-1 /\ p + maxp \in 0..allocated'-1
  BY <1>1, <1>2
<1>5. CASE currentsize >= allocated
  <2>1. Grown(b) = [i \in 0..allocated'-1 |-> IF i < allocated THEN b[i] ELSE {}]
    BY <1>2, <1>5 DEF Grown
  <2> QED
    BY <1>1, <1>2, <1>3, <1>4, <1>5, <2>1
<1>6. CASE ~(currentsize >= allocated)
  <2>1. Grown(b) = b /\ allocated' = allocated
    BY <1>2, <1>6 DEF Grown
  <2> QED
    BY <1>3, <1>4, <2>1
<1> QED
  BY <1>5, <1>6

\* What the three kinds of bucket hold after a split.
LEMMA SplitContents ==
    ASSUME TableTypeOK, NEW b \in [0..allocated-1 -> SUBSET Node], SplitBucket(b)
    PROVE  /\ buckets' \in [0..allocated'-1 -> SUBSET Node]
           /\ buckets'[p] = b[p] \ Moving(b[p])
           /\ buckets'[p + maxp] = Grown(b)[p + maxp] \cup Moving(b[p])
           /\ \A i \in 0..allocated'-1 :
                i # p /\ i # p + maxp => buckets'[i] = Grown(b)[i]
<1> DEFINE g == Grown(b)
           mv == Moving(b[p])
<1>1. /\ g \in [0..allocated'-1 -> SUBSET Node]
      /\ p \in 0..allocated'-1 /\ p + maxp \in 0..allocated'-1
      /\ p # p + maxp
      /\ g[p] = b[p] /\ b[p] \in SUBSET Node
  BY SplitKeepsTypes
<1>2. buckets' = [g EXCEPT ![p] = @ \ mv, ![p + maxp] = @ \cup mv]
  BY DEF SplitBucket
<1>3. mv \subseteq b[p]
  BY DEF Moving
<1> HIDE DEF g, mv
<1>4. buckets' \in [0..allocated'-1 -> SUBSET Node]
  BY <1>1, <1>2, <1>3
<1>5. buckets'[p] = g[p] \ mv
  BY <1>1, <1>2
<1>6. buckets'[p + maxp] = g[p + maxp] \cup mv
  BY <1>1, <1>2
<1>7. \A i \in 0..allocated'-1 : i # p /\ i # p + maxp => buckets'[i] = g[i]
  BY <1>1, <1>2
<1> QED
  BY <1>1, <1>4, <1>5, <1>6, <1>7 DEF g, mv

\* Where the nodes of one bucket are to be looked for after a split.
LEMMA IndexAfterSplit ==
    ASSUME TableTypeOK, NEW b \in [0..allocated-1 -> SUBSET Node], SplitBucket(b),
           HashAssumption, NEW n \in Node
    PROVE  /\ Index(n.string) \in 0..allocated-1
           /\ Index(n.string) # p => Index(n.string)' = Index(n.string)
           /\ Index(n.string) = p =>
                /\ Index(n.string)' \in {p, p + maxp}
                /\ n \in b[p] => (Index(n.string)' = p + maxp <=> n \in Moving(b[p]))
<1> DEFINE v == Hash[n.string]
<1>1. v \in Nat
  BY DEF HashAssumption, Node
<1>2. /\ maxp \in Nat \ {0} /\ p \in 0..maxp-1
      /\ currentsize = maxp + p
      /\ allocated \in Nat /\ allocated >= currentsize
  BY DEF TableTypeOK
<1>3. Index(n.string) = BucketOf(v, p, maxp)
  BY DEF Index
<1>4. Index(n.string)' = BucketOf(v, NextSplit, NextRound)
  BY DEF Index, SplitBucket, BucketOf
<1>5. n \in b[p] => (n \in Moving(b[p]) <=> BucketOf(v, NextSplit, NextRound) = p + maxp)
  BY DEF Moving
<1> HIDE DEF v
<1>6. Index(n.string) \in 0..allocated-1
  <2>1. BucketOf(v, p, maxp) \in 0..maxp+p-1
    BY <1>1, <1>2, BucketInUse
  <2> QED
    BY <1>2, <1>3, <2>1
<1>7. Index(n.string) # p => Index(n.string)' = Index(n.string)
  BY <1>1, <1>2, <1>3, <1>4, SplitLeavesOthers DEF NextSplit, NextRound
<1>8. ASSUME Index(n.string) = p
      PROVE  Index(n.string)' \in {p, p + maxp}
  <2>1. BucketOf(v, p, maxp) = p
    BY <1>3, <1>8
  <2>2. BucketOf(v, IF p + 1 = maxp THEN 0 ELSE p + 1,
                    IF p + 1 = maxp THEN 2 * maxp ELSE maxp) \in {p, p + maxp}
    BY <1>1, <1>2, <2>1, SplitDividesOne
  <2> QED
    BY <1>4, <2>2 DEF NextSplit, NextRound
<1> QED
  BY <1>4, <1>5, <1>6, <1>7, <1>8

\* If every node of b is where a lookup looks for it, so it is after a split.
LEMMA SplitKeepsNodesInTheirBuckets ==
    ASSUME TableTypeOK, NEW b \in [0..allocated-1 -> SUBSET Node], SplitBucket(b),
           HashAssumption,
           \A i \in 0..allocated-1 : \A n \in b[i] : i = Index(n.string)
    PROVE  /\ \A i \in DOMAIN buckets' : \A n \in buckets'[i] :
                i = Index(n.string)' /\ \E j \in 0..allocated-1 : n \in b[j]
           /\ \A n \in Node : n \in b[Index(n.string)] => n \in buckets'[Index(n.string)']
<1>1. /\ buckets' \in [0..allocated'-1 -> SUBSET Node]
      /\ buckets'[p] = b[p] \ Moving(b[p])
      /\ buckets'[p + maxp] = Grown(b)[p + maxp] \cup Moving(b[p])
      /\ \A i \in 0..allocated'-1 :
           i # p /\ i # p + maxp => buckets'[i] = Grown(b)[i]
  BY SplitContents
<1>2. /\ \A i \in 0..allocated-1 : i \in 0..allocated'-1 /\ Grown(b)[i] = b[i]
      /\ \A i \in 0..allocated'-1 : i \notin 0..allocated-1 => Grown(b)[i] = {}
      /\ p \in 0..allocated-1 /\ p + maxp \in 0..allocated'-1
      /\ p # p + maxp
  BY SplitKeepsTypes
<1>3. ASSUME NEW i \in 0..allocated'-1, i # p, NEW n \in Grown(b)[i]
      PROVE  i = Index(n.string)' /\ \E j \in 0..allocated-1 : n \in b[j]
  <2>1. i \in 0..allocated-1 /\ n \in b[i]
    BY <1>2, <1>3
  <2>2. n \in Node /\ Index(n.string) = i
    BY <2>1
  <2> QED
    BY <1>3, <2>1, <2>2, IndexAfterSplit
<1>4. ASSUME NEW i \in DOMAIN buckets', NEW n \in buckets'[i]
      PROVE  i = Index(n.string)' /\ \E j \in 0..allocated-1 : n \in b[j]
  <2>1. i \in 0..allocated'-1
    BY <1>1, <1>4
  <2>2. CASE i # p /\ i # p + maxp
    BY <1>1, <1>3, <1>4, <2>1, <2>2
  <2>3. CASE i = p
    <3>1. n \in b[p] /\ n \notin Moving(b[p])
      BY <1>1, <1>4, <2>3
    <3>2. n \in Node /\ Index(n.string) = p
      BY <1>2, <3>1
    <3> QED
      BY <1>2, <2>3, <3>1, <3>2, IndexAfterSplit
  <2>4. CASE i = p + maxp
    <3>1. CASE n \in Grown(b)[i]
      BY <1>2, <1>3, <2>1, <2>4, <3>1
    <3>2. CASE n \in Moving(b[p])
      <4>1. n \in b[p]
        BY <3>2 DEF Moving
      <4>2. n \in Node /\ Index(n.string) = p
        BY <1>2, <4>1
      <4> QED
        BY <1>2, <2>4, <3>2, <4>1, <4>2, IndexAfterSplit
    <3> QED
      BY <1>1, <1>4, <2>4, <3>1, <3>2
  <2> QED
    BY <2>2, <2>3, <2>4
<1>5. ASSUME NEW n \in Node, n \in b[Index(n.string)]
      PROVE  n \in buckets'[Index(n.string)']
  <2>1. CASE Index(n.string) = p
    <3>1. CASE n \in Moving(b[p])
      <4>1. Index(n.string)' = p + maxp
        BY <1>5, <2>1, <3>1, IndexAfterSplit
      <4> QED
        BY <1>1, <3>1, <4>1
    <3>2. CASE n \notin Moving(b[p])
      <4>1. Index(n.string)' = p
        BY <1>5, <2>1, <3>2, IndexAfterSplit
      <4> QED
        BY <1>1, <1>5, <2>1, <3>2, <4>1
    <3> QED
      BY <3>1, <3>2
  <2>2. CASE Index(n.string) # p
    <3> DEFINE i == Index(n.string)
    <3>1. i \in 0..allocated-1 /\ Index(n.string)' = i
      BY <2>2, IndexAfterSplit
    <3>2. n \in Grown(b)[i] /\ i \in 0..allocated'-1
      BY <1>2, <1>5, <3>1
    <3>3. n \in buckets'[i]
      BY <1>1, <2>2, <3>2
    <3> QED
      BY <3>1, <3>3
  <2> QED
    BY <2>1, <2>2
<1> QED
  BY <1>4, <1>5

-----------------------------------------------------------------------------
(* add_string                                                              *)

\* A string whose chain has no node of it has none anywhere: the new node is
\* its first.
LEMMA NewNodeIsFirst ==
    ASSUME IInv, interning, NEW s \in Strings, Found(s) = {}
    PROVE  /\ \A n \in Nodes : n.string # s
           /\ NewNode(s) = [string |-> s, copy |-> 0]
           /\ NewNode(s) \in Node
<1>1. ASSUME NEW n \in Nodes, n.string = s
      PROVE  FALSE
  <2>1. n \in buckets[Index(s)]
    BY <1>1 DEF IInv, NodesInTheirBuckets
  <2> QED
    BY <1>1, <2>1 DEF Found
<1>2. {n \in Nodes : n.string = s} = {}
  BY <1>1
<1>3. Cardinality({n \in Nodes : n.string = s}) = 0
  BY <1>2, FS_EmptySet
<1> QED
  BY <1>1, <1>3 DEF NewNode, Node

\* Whether or not the table grows, the invariant holds of it again.
LEMMA AddKeepsInvariant ==
    ASSUME IInv, HashAssumption, NEW s \in Strings, AddString(s)
    PROVE  IInv'
<1>1. CASE UNCHANGED <<interning, table, data>>
  BY <1>1 DEF IInv, TableTypeOK, NodesInTheirBuckets, LoadBounded, OneNodePerString,
     Nodes, Index, BucketOf, table
<1> DEFINE n == NewNode(s)
           filled == [buckets EXCEPT ![Index(s)] = @ \cup {n}]
<1>2. CASE /\ interning /\ interning' = interning
           /\ Found(s) = {}
           /\ data' = [m \in Nodes \cup {n} |-> IF m = n THEN NoMeaning ELSE data[m]]
           /\ node_cnt' = node_cnt + 1
           /\ IF Overloaded(node_cnt + 1)
              THEN SplitBucket(filled)
              ELSE /\ buckets' = filled
                   /\ UNCHANGED <<p, maxp, currentsize, allocated>>
  <2>1. /\ n \in Node /\ n.string = s
        /\ \A m \in Nodes : m.string # s
    BY <1>2, NewNodeIsFirst
  <2>2. /\ Nodes' = Nodes \cup {n}
        /\ Nodes' \subseteq Node
        /\ data' \in [Nodes' -> Meanings \cup {NoMeaning}]
    <3>1. /\ Nodes \subseteq Node
          /\ data \in [Nodes -> Meanings \cup {NoMeaning}]
      BY DEF IInv, TableTypeOK
    <3>2. Nodes' = Nodes \cup {n}
      BY <1>2 DEF Nodes
    <3> QED
      BY <1>2, <2>1, <3>1, <3>2
  <2>3. OneNodePerString'
    BY <2>1, <2>2 DEF IInv, OneNodePerString
  <2>4. /\ maxp \in Nat \ {0} /\ p \in 0..maxp-1
        /\ currentsize = maxp + p
        /\ allocated \in Nat /\ allocated >= currentsize
        /\ node_cnt \in Nat
        /\ buckets \in [0..allocated-1 -> SUBSET Node]
    BY DEF IInv, TableTypeOK
  <2>5. \A m \in Node : Index(m.string) \in 0..allocated-1
    <3>1. \A m \in Node : Hash[m.string] \in Nat
      BY DEF HashAssumption, Node
    <3>2. \A m \in Node : Index(m.string) \in 0..maxp+p-1
      BY <2>4, <3>1, BucketInUse DEF Index
    <3> QED
      BY <2>4, <3>2
  <2>6. /\ filled \in [0..allocated-1 -> SUBSET Node]
        /\ \A i \in 0..allocated-1 : \A m \in filled[i] :
             m \in Nodes' /\ i = Index(m.string)
        /\ \A m \in Nodes' : m \in filled[Index(m.string)]
    <3>1. /\ \A i \in 0..allocated-1 : \A m \in buckets[i] :
               m \in Nodes /\ i = Index(m.string)
          /\ \A m \in Nodes : m \in buckets[Index(m.string)]
      BY <1>2, <2>4 DEF IInv, NodesInTheirBuckets
    <3>2. Index(s) \in 0..allocated-1
      BY <2>1, <2>5
    <3> HIDE DEF n
    <3>3. filled \in [0..allocated-1 -> SUBSET Node]
      BY <2>1, <2>4, <3>2
    <3>4. \A i \in 0..allocated-1 :
            filled[i] = IF i = Index(s) THEN buckets[i] \cup {n} ELSE buckets[i]
      BY <2>4
    <3>5. \A m \in Nodes' : m \in Node /\ Index(m.string) \in 0..allocated-1
      BY <2>2, <2>5
    <3>6. \A i \in 0..allocated-1 : \A m \in filled[i] :
            m \in Nodes' /\ i = Index(m.string)
      BY <2>1, <2>2, <3>1, <3>4
    <3>7. \A m \in Nodes' : m \in filled[Index(m.string)]
      BY <2>1, <2>2, <3>1, <3>4, <3>5
    <3> QED
      BY <3>3, <3>6, <3>7
  <2>7. CASE Overloaded(node_cnt + 1)
    <3>1. SplitBucket(filled)
      BY <1>2, <2>7
    <3> HIDE DEF n, filled
    <3>2. TableTypeOK
      BY DEF IInv
    <3>3. /\ maxp' \in Nat \ {0} /\ p' \in 0..maxp'-1
          /\ currentsize' = maxp' + p'
          /\ allocated' \in Nat /\ allocated' >= currentsize'
      BY <2>6, <3>1, <3>2, SplitKeepsTypes
    <3>4. buckets' \in [0..allocated'-1 -> SUBSET Node]
      BY <2>6, <3>1, <3>2, SplitContents
    <3>5. TableTypeOK'
      <4>1. interning' \in BOOLEAN
        BY <1>2, <3>2 DEF TableTypeOK
      <4>2. node_cnt' \in Nat
        BY <1>2, <2>4
      <4> QED
        BY <2>2, <3>3, <3>4, <4>1, <4>2 DEF TableTypeOK
    <3>6. NodesInTheirBuckets'
      <4>1. /\ \A i \in DOMAIN buckets' : \A m \in buckets'[i] :
                 i = Index(m.string)' /\ \E j \in 0..allocated-1 : m \in filled[j]
            /\ \A m \in Node : m \in filled[Index(m.string)] => m \in buckets'[Index(m.string)']
        BY <2>6, <3>1, <3>2, SplitKeepsNodesInTheirBuckets
      <4>2. \A m \in Nodes' : m \in buckets'[Index(m.string)']
        BY <2>2, <2>6, <4>1
      <4> QED
        BY <2>6, <4>1, <4>2 DEF NodesInTheirBuckets
    <3>7. LoadBounded'
      <4>1. node_cnt < (MaxLoad + 1) * currentsize /\ MaxLoad \in Nat
        BY DEF IInv, LoadBounded, HashAssumption
      <4>2. currentsize' = currentsize + 1
        BY <3>1 DEF SplitBucket
      <4>3. (MaxLoad + 1) * (currentsize + 1) = (MaxLoad + 1) * currentsize + (MaxLoad + 1)
        BY <2>4, <4>1, Z3
      <4>4. node_cnt + 1 < (MaxLoad + 1) * (currentsize + 1)
        <5> DEFINE a == (MaxLoad + 1) * currentsize
                   c == (MaxLoad + 1) * (currentsize + 1)
        <5>1. a \in Nat /\ node_cnt < a /\ c = a + (MaxLoad + 1)
          BY <2>4, <4>1, <4>3, Z3
        <5> HIDE DEF a, c
        <5>2. node_cnt + 1 < c
          BY <2>4, <4>1, <5>1
        <5> QED
          BY <5>2 DEF c
      <4> QED
        BY <1>2, <4>2, <4>4 DEF LoadBounded
    <3> QED
      BY <2>3, <3>5, <3>6, <3>7 DEF IInv
  <2>8. CASE ~Overloaded(node_cnt + 1)
    <3>1. buckets' = filled /\ UNCHANGED <<p, maxp, currentsize, allocated>>
      BY <1>2, <2>8
    <3> HIDE DEF n, filled
    <3>2. TableTypeOK'
      <4>1. interning' \in BOOLEAN
        BY <1>2 DEF IInv, TableTypeOK
      <4>2. buckets' \in [0..allocated'-1 -> SUBSET Node]
        BY <2>6, <3>1
      <4> QED
        BY <1>2, <2>2, <2>4, <3>1, <4>1, <4>2 DEF TableTypeOK
    <3>3. NodesInTheirBuckets'
      <4>1. DOMAIN buckets' = 0..allocated-1
        BY <2>6, <3>1
      <4>2. \A m : Index(m.string)' = Index(m.string)
        BY <3>1 DEF Index, BucketOf
      <4> QED
        BY <2>6, <3>1, <4>1, <4>2 DEF NodesInTheirBuckets
    <3>4. LoadBounded'
      <4> DEFINE v == node_cnt + 1
      <4>1. /\ v \in Nat /\ currentsize \in Nat \ {0} /\ MaxLoad \in Nat
            /\ ~(v \div currentsize > MaxLoad)
        BY <2>4, <2>8 DEF Overloaded, HashAssumption
      <4> HIDE DEF v
      <4>2. /\ v = currentsize * (v \div currentsize) + (v % currentsize)
            /\ v \div currentsize \in Nat
            /\ v % currentsize \in 0..currentsize-1
        BY <4>1, Division, QuotientIsNat, RemainderRange
      <4>3. v < (MaxLoad + 1) * currentsize
        <5> DEFINE k == v \div currentsize
                   r == v % currentsize
        <5>1. v = currentsize * k + r /\ k \in 0..MaxLoad /\ r \in 0..currentsize-1
          BY <4>1, <4>2
        <5> HIDE DEF k, r
        <5>2. currentsize * k <= currentsize * MaxLoad
          BY <4>1, <5>1, Z3
        <5>3. v < currentsize * MaxLoad + currentsize
          BY <4>1, <5>1, <5>2, Z3
        <5> QED
          BY <4>1, <5>3, Z3
      <4> QED
        BY <1>2, <3>1, <4>3 DEF LoadBounded, v
    <3> QED
      BY <2>3, <3>2, <3>3, <3>4 DEF IInv
  <2> QED
    BY <2>7, <2>8
<1> QED
  BY <1>1, <1>2 DEF AddString

-----------------------------------------------------------------------------
(* The theorems                                                            *)

\* The table is empty at first.
LEMMA InitInvariant ==
    ASSUME HashAssumption, TableInit
    PROVE  IInv
<1>1. InitialBuckets \in Nat \ {0} /\ MaxLoad \in Nat
  BY DEF HashAssumption
<1>2. /\ Nodes = {}
      /\ data \in [Nodes -> Meanings \cup {NoMeaning}]
      /\ buckets = [i \in 0..InitialBuckets-1 |-> {}]
  BY DEF TableInit, Nodes
<1>3. TableTypeOK
  BY <1>1, <1>2 DEF TableInit, TableTypeOK
<1>4. NodesInTheirBuckets
  BY <1>2 DEF NodesInTheirBuckets
<1>5. LoadBounded
  <2>1. 0 < (MaxLoad + 1) * InitialBuckets
    BY <1>1, Z3
  <2> QED
    BY <2>1 DEF TableInit, LoadBounded
<1>6. OneNodePerString
  BY <1>2 DEF OneNodePerString
<1> QED
  BY <1>3, <1>4, <1>5, <1>6 DEF IInv

\* Every step keeps the invariant.
LEMMA NextKeepsInvariant ==
    ASSUME HashAssumption, IInv, [TableNext]_tableVars
    PROVE  IInv'
<1> USE HashAssumption, IInv
<1>1. ASSUME NEW s \in Strings, AddString(s)
      PROVE  IInv'
  BY <1>1, AddKeepsInvariant
<1>2. ASSUME NEW s \in Strings, NEW m \in Meanings, AbbreviationAdd(s, m)
      PROVE  IInv'
  <2>1. Nodes' = Nodes /\ data' \in [Nodes -> Meanings \cup {NoMeaning}]
    BY <1>2 DEF AbbreviationAdd, Nodes, IInv, TableTypeOK
  <2>2. UNCHANGED <<interning, table>>
    BY <1>2 DEF AbbreviationAdd
  <2> QED
    BY <2>1, <2>2 DEF IInv, TableTypeOK, NodesInTheirBuckets, LoadBounded,
       OneNodePerString, Index, BucketOf, table
<1>3. ASSUME NEW s \in Strings, DataLookup(s)
      PROVE  IInv'
  BY <1>3 DEF DataLookup, IInv, TableTypeOK, NodesInTheirBuckets, LoadBounded,
     OneNodePerString, Nodes, Index, BucketOf, table
<1>4. ASSUME FreeHashtable
      PROVE  IInv'
  <2>1. UNCHANGED table /\ interning' = FALSE
    BY <1>4 DEF FreeHashtable
  <2>2. Nodes' \subseteq Nodes /\ data' \in [Nodes' -> Meanings \cup {NoMeaning}]
    BY <1>4 DEF FreeHashtable, Nodes, IInv, TableTypeOK
  <2> QED
    BY <2>1, <2>2 DEF IInv, TableTypeOK, NodesInTheirBuckets, LoadBounded,
       OneNodePerString, table
<1>5. ASSUME UNCHANGED tableVars
      PROVE  IInv'
  BY <1>5 DEF IInv, TableTypeOK, NodesInTheirBuckets, LoadBounded,
     OneNodePerString, Nodes, Index, BucketOf, table, tableVars
<1> QED
  BY <1>1, <1>2, <1>3, <1>4, <1>5 DEF TableNext, Ended

\* The conjunction is inductive: NodesInTheirBuckets alone would not keep a
\* string from getting two nodes.
THEOREM Invariance ==
    ASSUME HashAssumption
    PROVE  TableSpec => []IInv
BY InitInvariant, NextKeepsInvariant, PTL DEF TableSpec

\* Type correctness: the split pointer stays inside its round, and the arrays
\* always have the buckets in use (reallocate_buckets comes in time).
THEOREM TypeCorrectness ==
    ASSUME HashAssumption
    PROVE  TableSpec => []TableTypeOK
<1>1. IInv => TableTypeOK
  BY DEF IInv
<1> QED
  BY <1>1, Invariance, PTL

\* However often the table was split, node_lookup looks through the chain
\* that has the string, for every hash function.
THEOREM LookupFindsEveryNode ==
    ASSUME HashAssumption
    PROVE  TableSpec => []NodesInTheirBuckets
<1>1. IInv => NodesInTheirBuckets
  BY DEF IInv
<1> QED
  BY <1>1, Invariance, PTL

\* One split per new string keeps the load that init_hashtable was given.
THEOREM LoadStaysBounded ==
    ASSUME HashAssumption
    PROVE  TableSpec => []LoadBounded
<1>1. IInv => LoadBounded
  BY DEF IInv
<1> QED
  BY <1>1, Invariance, PTL

-----------------------------------------------------------------------------
(* Refinement                                                              *)

\* A node is the node of its string.
LEMMA NodeOfItsString ==
    ASSUME OneNodePerString, NEW n \in Nodes
    PROVE  n.string \in KnownStrings /\ NodeOf(n.string) = n
BY DEF OneNodePerString, KnownStrings, NodeOf

\* A known string has its node.
LEMMA KnownHasNode ==
    ASSUME OneNodePerString, NEW s \in KnownStrings
    PROVE  NodeOf(s) \in Nodes /\ NodeOf(s).string = s
<1>1. PICK n \in Nodes : n.string = s
  BY DEF KnownStrings
<1> QED
  BY <1>1, NodeOfItsString

\* node_lookup returns the node of a known string, and nothing for another.
LEMMA FoundIsTheNode ==
    ASSUME IInv, interning, HashAssumption, NEW s \in Strings
    PROVE  Found(s) = IF s \in KnownStrings THEN {NodeOf(s)} ELSE {}
<1>1. /\ OneNodePerString
      /\ \A i \in DOMAIN buckets : \A n \in buckets[i] : n \in Nodes
      /\ \A n \in Nodes : n \in buckets[Index(n.string)]
  BY DEF IInv, NodesInTheirBuckets
<1>2. Index(s) \in DOMAIN buckets
  <2>1. /\ Hash[s] \in Nat /\ maxp \in Nat \ {0} /\ p \in 0..maxp-1
        /\ maxp + p <= allocated /\ allocated \in Nat
        /\ DOMAIN buckets = 0..allocated-1
    BY DEF IInv, TableTypeOK, HashAssumption
  <2>2. Index(s) \in 0..maxp+p-1
    BY <2>1, BucketInUse DEF Index
  <2> QED
    BY <2>1, <2>2
<1>3. \A n \in Found(s) : n \in Nodes /\ n.string = s
  BY <1>1, <1>2 DEF Found
<1>4. CASE s \in KnownStrings
  <2>1. NodeOf(s) \in Found(s)
    BY <1>1, <1>4, KnownHasNode DEF Found
  <2>2. \A n \in Found(s) : n = NodeOf(s)
    BY <1>1, <1>3, NodeOfItsString
  <2> QED
    BY <1>4, <2>1, <2>2
<1>5. CASE s \notin KnownStrings
  BY <1>3, <1>5 DEF KnownStrings
<1> QED
  BY <1>4, <1>5

\* If no node comes or goes, every pointer is what it was.
LEMMA SameNodes ==
    ASSUME Nodes' = Nodes
    PROVE  /\ KnownStrings' = KnownStrings
           /\ \A s : NodeOf(s)' = NodeOf(s)
BY DEF KnownStrings, NodeOf

\* add_string interns.
LEMMA AddStringInterns ==
    ASSUME IInv, IInv', HashAssumption, NEW s \in Strings, AddString(s)
    PROVE  Names!Intern(s)
<1> DEFINE ptr == [t \in KnownStrings |-> NodeOf(t)]
           mng == [t \in KnownStrings |-> data[NodeOf(t)]]
<1>1. asked' = s /\ interning
  BY DEF AddString
<1>2. Found(s) = IF s \in KnownStrings THEN {NodeOf(s)} ELSE {}
  BY <1>1, FoundIsTheNode
<1>3. CASE answer' \in Found(s) /\ UNCHANGED <<table, data>>
  <2>1. s \in KnownStrings /\ answer' = NodeOf(s)
    BY <1>2, <1>3
  <2>2. Nodes' = Nodes /\ data' = data
    BY <1>3 DEF Nodes
  <2>3. KnownStrings' = KnownStrings /\ \A t : NodeOf(t)' = NodeOf(t)
    BY <2>2, SameNodes
  <2>4. ptr' = ptr /\ mng' = mng
    BY <2>2, <2>3
  <2>5. s \in DOMAIN ptr /\ answer' = ptr[s]
    BY <2>1
  <2> QED
    BY <1>1, <2>4, <2>5 DEF Names!Intern, Names!Known
<1>4. CASE /\ Found(s) = {}
           /\ answer' = NewNode(s)
           /\ data' = [m \in Nodes \cup {NewNode(s)} |->
                         IF m = NewNode(s) THEN NoMeaning ELSE data[m]]
  <2> DEFINE n == NewNode(s)
  <2>1. n.string = s /\ \A m \in Nodes : m.string # s
    BY <1>1, <1>4, NewNodeIsFirst
  <2>2. Nodes' = Nodes \cup {n}
    BY <1>4 DEF Nodes
  <2>3. OneNodePerString /\ OneNodePerString'
    BY DEF IInv
  <2> HIDE DEF n
  <2>4. KnownStrings' = KnownStrings \cup {s} /\ s \notin KnownStrings
    BY <2>1, <2>2 DEF KnownStrings
  <2>5. \A m \in Nodes' : NodeOf(m.string)' = m
    BY <2>3 DEF NodeOf, OneNodePerString
  <2>6. NodeOf(s)' = n
    BY <2>1, <2>2, <2>5
  <2>7. \A t \in KnownStrings : /\ NodeOf(t) \in Nodes /\ NodeOf(t).string = t
                                /\ NodeOf(t)' = NodeOf(t)
    BY <2>2, <2>3, <2>5, KnownHasNode
  <2>8. answer' = n /\ \A t \in KnownStrings : NodeOf(t) # answer'
    BY <1>4, <2>1, <2>7 DEF n
  <2>9. ptr' = [t \in KnownStrings \cup {s} |-> IF t = s THEN answer' ELSE ptr[t]]
    BY <2>4, <2>6, <2>7, <2>8
  <2>10. mng' = [t \in KnownStrings \cup {s} |-> IF t = s THEN NoMeaning ELSE mng[t]]
    <3>1. data'[n] = NoMeaning /\ \A m \in Nodes : data'[m] = data[m]
      BY <1>4, <2>1 DEF n
    <3>2. \A t \in KnownStrings : data'[NodeOf(t)'] = data[NodeOf(t)]
      BY <2>7, <3>1
    <3> QED
      BY <2>4, <2>6, <3>1, <3>2
  <2> QED
    BY <1>1, <2>4, <2>8, <2>9, <2>10 DEF Names!Intern, Names!Known
<1> QED
  BY <1>3, <1>4 DEF AddString

\* abbreviation_add defines.
LEMMA DefineImplements ==
    ASSUME IInv, HashAssumption, NEW s \in Strings, NEW m \in Meanings,
           AbbreviationAdd(s, m)
    PROVE  Names!Define(s, m)
<1> DEFINE ptr == [t \in KnownStrings |-> NodeOf(t)]
           mng == [t \in KnownStrings |-> data[NodeOf(t)]]
<1>1. s \in KnownStrings /\ Found(s) = {NodeOf(s)}
  BY FoundIsTheNode DEF AbbreviationAdd, KnownStrings
<1>2. \A t \in KnownStrings : NodeOf(t) \in Nodes /\ NodeOf(t).string = t
  BY KnownHasNode DEF IInv
<1>3. /\ data' = [n \in Nodes |-> IF n = NodeOf(s) THEN m ELSE data[n]]
      /\ UNCHANGED <<asked, answer>>
  BY <1>1 DEF AbbreviationAdd
<1>4. Nodes' = Nodes
  BY <1>3 DEF Nodes
<1>5. KnownStrings' = KnownStrings /\ \A t : NodeOf(t)' = NodeOf(t)
  BY <1>4, SameNodes
<1>6. \A t \in KnownStrings :
        data'[NodeOf(t)'] = IF t = s THEN m ELSE data[NodeOf(t)]
  BY <1>1, <1>2, <1>3, <1>5
<1>7. mng' = [mng EXCEPT ![s] = m]
  BY <1>1, <1>5, <1>6
<1>8. ptr' = ptr /\ s \in DOMAIN ptr
  BY <1>1, <1>5
<1> QED
  BY <1>3, <1>7, <1>8 DEF Names!Define, Names!Known

\* data_lookup recalls.
LEMMA RecallImplements ==
    ASSUME IInv, HashAssumption, NEW s \in Strings, DataLookup(s)
    PROVE  Names!Recall(s)
<1> DEFINE ptr == [t \in KnownStrings |-> NodeOf(t)]
           mng == [t \in KnownStrings |-> data[NodeOf(t)]]
<1>1. /\ interning /\ asked' = s /\ data' = data
      /\ answer' \in IF Found(s) = {} THEN {NoMeaning} ELSE {data[n] : n \in Found(s)}
  BY DEF DataLookup
<1>2. Found(s) = IF s \in KnownStrings THEN {NodeOf(s)} ELSE {}
  BY <1>1, FoundIsTheNode
<1>3. answer' = IF s \in DOMAIN ptr THEN mng[s] ELSE NoMeaning
  BY <1>1, <1>2
<1>4. Nodes' = Nodes
  BY <1>1 DEF Nodes
<1>5. KnownStrings' = KnownStrings /\ \A t : NodeOf(t)' = NodeOf(t)
  BY <1>4, SameNodes
<1>6. ptr' = ptr /\ mng' = mng
  BY <1>1, <1>5
<1> QED
  BY <1>1, <1>3, <1>6 DEF Names!Recall, Names!Known

\* Every node is on the chain of a bucket in use, and free_hashtable goes
\* through them all.
LEMMA FreeForgets ==
    ASSUME IInv, HashAssumption, FreeHashtable
    PROVE  Names!Forget
<1>1. /\ interning /\ UNCHANGED <<asked, answer>>
      /\ data' = [n \in Nodes \ UNION {buckets[i] : i \in 0..currentsize-1} |-> data[n]]
  BY DEF FreeHashtable
<1>2. \A n \in Nodes : n \in buckets[Index(n.string)]
  BY <1>1 DEF IInv, NodesInTheirBuckets
<1>3. \A n \in Nodes : Index(n.string) \in 0..currentsize-1
  <2>1. /\ maxp \in Nat \ {0} /\ p \in 0..maxp-1 /\ currentsize = maxp + p
        /\ \A n \in Nodes : Hash[n.string] \in Nat
    BY DEF IInv, TableTypeOK, HashAssumption, Node
  <2>2. \A n \in Nodes : Index(n.string) \in 0..maxp+p-1
    BY <2>1, BucketInUse DEF Index
  <2> QED
    BY <2>1, <2>2
<1>4. Nodes' = {}
  BY <1>1, <1>2, <1>3 DEF Nodes
<1>5. KnownStrings' = {}
  BY <1>4 DEF KnownStrings
<1> QED
  BY <1>1, <1>5 DEF Names!Forget

\* Every step of the table is a step of the names, or none.
LEMMA StepImplements ==
    ASSUME HashAssumption, IInv, IInv', [TableNext]_tableVars
    PROVE  [Names!Next]_(Names!vars)
<1>1. ASSUME NEW s \in Strings, AddString(s) \/ DataLookup(s)
      PROVE  Names!Next
  <2>1. CASE AddString(s)
    BY <2>1, AddStringInterns DEF Names!Next
  <2>2. CASE DataLookup(s)
    <3>1. Names!Recall(s)
      BY <2>2, RecallImplements
    <3> QED
      BY <3>1 DEF Names!Next
  <2> QED
    BY <1>1, <2>1, <2>2
<1>2. ASSUME NEW s \in Strings, NEW m \in Meanings, AbbreviationAdd(s, m)
      PROVE  Names!Next
  BY <1>2, DefineImplements DEF Names!Next
<1>3. CASE FreeHashtable
  BY <1>3, FreeForgets DEF Names!Next
<1>4. CASE UNCHANGED tableVars
  <2>1. UNCHANGED <<data, asked, answer>>
    BY <1>4 DEF tableVars
  <2>2. Nodes' = Nodes
    BY <2>1 DEF Nodes
  <2>3. KnownStrings' = KnownStrings /\ \A t : NodeOf(t)' = NodeOf(t)
    BY <2>2, SameNodes
  <2> QED
    BY <2>1, <2>3 DEF Names!vars
<1> QED
  BY <1>1, <1>2, <1>3, <1>4 DEF TableNext, Ended

\* Interning by linear hashing is interning: one pointer per name for good,
\* the last meaning given to it, and nothing left over at the end.
THEOREM TableImplementsNames ==
    ASSUME HashAssumption
    PROVE  TableSpec => ImplementsInternedNames
<1>1. TableInit => Names!Init
  BY DEF TableInit, Names!Init, Nodes, KnownStrings
<1> QED
  BY <1>1, StepImplements, Invariance, PTL
     DEF TableSpec, ImplementsInternedNames, Names!Spec

=============================================================================
