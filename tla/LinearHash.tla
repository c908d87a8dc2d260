----------------------------- MODULE LinearHash -----------------------------
(***************************************************************************)
(* The hash table of hashtable.c, which interns the interpreter's strings  *)
(* (atom.c) and keeps the abbreviations (abbreviations.c).                 *)
(*                                                                         *)
(* It grows by linear hashing, one bucket at a time: p is the next bucket  *)
(* to split, buckets below p have already been split in this round and use *)
(* the mask of the next one.  A chain is a set here: only the speed of a   *)
(* lookup depends on its order.                                            *)
(***************************************************************************)
EXTENDS Integers, FiniteSets

CONSTANTS
    Strings,            \* the strings the lexer may meet
    Hash,               \* hash_djb2 of each
    Meanings,           \* the graphs a name may be defined to be
    NoMeaning,          \* the NULL of a hash node without data
    InitialBuckets,     \* init_hashtable's first argument, rounded up
    MaxLoad             \* init_hashtable's second argument

ASSUME HashAssumption ==
    /\ Hash \in [Strings -> Nat]
    /\ NoMeaning \notin Meanings
    /\ InitialBuckets \in Nat \ {0}
    /\ MaxLoad \in Nat

\* MOD(x, y) of hashtable.h is x & (y - 1), which is x % y for these.
ASSUME MaskAssumption == \E k \in 0..InitialBuckets : InitialBuckets = 2^k

VARIABLES
    interning,          \* until free_hashtable
    p, maxp,
    currentsize,        \* buckets in use
    allocated,          \* buckets that the arrays have
    node_cnt,
    buckets,            \* the nodes of each chain
    data,               \* data field of each node made so far
    asked,              \* the string of the last call that returned anything
    answer              \* and what it returned

table == <<p, maxp, currentsize, allocated, node_cnt, buckets>>
tableVars == <<interning, table, data, asked, answer>>

\* A hash node is named by its string and by how many nodes were made for
\* that string before.
Node == [string : Strings, copy : Nat]
Nodes == DOMAIN data

TableInit ==
    /\ interning = TRUE
    /\ p = 0
    /\ maxp = InitialBuckets
    /\ currentsize = InitialBuckets
    /\ allocated = InitialBuckets
    /\ node_cnt = 0
    /\ buckets = [i \in 0..InitialBuckets-1 |-> {}]
    /\ data = [n \in {} |-> NoMeaning]
    /\ asked = NoMeaning
    /\ answer = NoMeaning

-----------------------------------------------------------------------------
(* node_lookup                                                             *)

\* The bucket of hash value v when the split pointer is q and the round m.
BucketOf(v, q, m) == IF v % m < q THEN v % (2 * m) ELSE v % m

Index(s) == BucketOf(Hash[s], p, maxp)

\* Plausible slip: equal hash values taken for equal strings.
FoundByHashAlone(s) == {n \in buckets[Index(s)] : Hash[n.string] = Hash[s]}

\* node_lookup: the nodes of the chain that have this string.  The code
\* returns the first.
Found(s) == {n \in buckets[Index(s)] : n.string = s}

-----------------------------------------------------------------------------
(* rehash_hashtable                                                        *)

\* Plausible slip: p is not reset at the end of a round.
NeverReset == p + 1

NextSplit == IF p + 1 = maxp THEN 0 ELSE p + 1

NextRound == IF p + 1 = maxp THEN 2 * maxp ELSE maxp

\* Plausible slip: the chain is divided with the masks from before the split.
DividedTooSoon(chain) == {n \in chain : BucketOf(Hash[n.string], p, maxp) = p + maxp}

\* The nodes of a chain that go to the new bucket.  p and maxp have been
\* moved on before the chain is looked through.
Moving(chain) ==
    {n \in chain : BucketOf(Hash[n.string], NextSplit, NextRound) = p + maxp}

\* reallocate_buckets, when every bucket is in use.
Grown(b) ==
    IF currentsize >= allocated
    THEN [i \in 0..2*allocated-1 |-> IF i < allocated THEN b[i] ELSE {}]
    ELSE b

\* Bucket p of b is divided between itself and a new one.
SplitBucket(b) ==
    /\ buckets' = [Grown(b) EXCEPT ![p] = @ \ Moving(b[p]),
                                   ![p + maxp] = @ \cup Moving(b[p])]
    /\ allocated' = IF currentsize >= allocated THEN 2 * allocated ELSE allocated
    /\ p' = NextSplit
    /\ maxp' = NextRound
    /\ currentsize' = currentsize + 1

-----------------------------------------------------------------------------
(* add_string                                                              *)

NewNode(s) == [string |-> s, copy |-> Cardinality({n \in Nodes : n.string = s})]

\* Plausible slip: the load is taken over the buckets allocated.
OverloadedByAllocation(count) == count \div allocated > MaxLoad

Overloaded(count) == count \div currentsize > MaxLoad

\* add_string, which Atom_string calls for every token: an unknown string
\* gets a node, and the table grows by one bucket if that is too many.
AddString(s) ==
    /\ interning
    /\ asked' = s
    /\ UNCHANGED interning
    /\ \/ /\ answer' \in Found(s)
          /\ UNCHANGED <<table, data>>
       \/ /\ Found(s) = {}
          /\ LET n == NewNode(s)
                 filled == [buckets EXCEPT ![Index(s)] = @ \cup {n}]
             IN  /\ answer' = n
                 /\ data' = [m \in Nodes \cup {n} |->
                                IF m = n THEN NoMeaning ELSE data[m]]
                 /\ node_cnt' = node_cnt + 1
                 /\ IF Overloaded(node_cnt + 1)
                    THEN SplitBucket(filled)
                    ELSE /\ buckets' = filled
                         /\ UNCHANGED <<p, maxp, currentsize, allocated>>

-----------------------------------------------------------------------------
(* abbreviations.c and the end                                             *)

\* abbreviation_add: the lexer has interned the name before (its comment
\* says the lookup always succeeds).  The graph is copied, the one the name
\* had before is freed.
AbbreviationAdd(s, m) ==
    /\ interning
    /\ s \in {n.string : n \in Nodes}
    /\ data' = [n \in Nodes |-> IF n \in Found(s) THEN m ELSE data[n]]
    /\ UNCHANGED <<interning, table, asked, answer>>

\* data_lookup, for abbreviation_lookup.
DataLookup(s) ==
    /\ interning
    /\ asked' = s
    /\ answer' \in IF Found(s) = {} THEN {NoMeaning} ELSE {data[n] : n \in Found(s)}
    /\ UNCHANGED <<interning, table, data>>

\* free_hashtable: the chains of the buckets in use.  What was on another
\* chain, or on none, would stay allocated.
FreeHashtable ==
    /\ interning
    /\ interning' = FALSE
    /\ LET freed == UNION {buckets[i] : i \in 0..currentsize-1}
       IN  data' = [n \in Nodes \ freed |-> data[n]]
    /\ UNCHANGED <<table, asked, answer>>

Ended == ~interning /\ UNCHANGED tableVars

TableNext ==
    \/ \E s \in Strings : AddString(s) \/ DataLookup(s)
    \/ \E s \in Strings, m \in Meanings : AbbreviationAdd(s, m)
    \/ FreeHashtable
    \/ Ended

TableSpec == TableInit /\ [][TableNext]_tableVars

-----------------------------------------------------------------------------
(* Properties                                                              *)

\* Every variable has its type; the split pointer is inside the round, and
\* the arrays have every bucket in use.
TableTypeOK ==
    /\ interning \in BOOLEAN
    /\ maxp \in Nat \ {0}
    /\ p \in 0..maxp-1
    /\ currentsize = maxp + p
    /\ allocated \in Nat /\ allocated >= currentsize
    /\ node_cnt \in Nat
    /\ buckets \in [0..allocated-1 -> SUBSET Node]
    /\ Nodes \subseteq Node
    /\ data \in [Nodes -> Meanings \cup {NoMeaning}]

\* Every node is on the chain that node_lookup looks through for its string,
\* in whatever bucket that is by now, and on no other.  A split divides one
\* bucket and changes the masks of none of the others (hashtable.c:118-171).
NodesInTheirBuckets ==
    interning =>
      /\ \A i \in DOMAIN buckets : \A n \in buckets[i] :
           n \in Nodes /\ i = Index(n.string)
      /\ \A n \in Nodes : n \in buckets[Index(n.string)]

\* One split per new string is enough to keep the average chain within the
\* bound: hashtable.c:252 splits at most once.
LoadBounded == node_cnt < (MaxLoad + 1) * currentsize

\* add_string makes a node only for a string that has none.
OneNodePerString == \A m, n \in Nodes : m.string = n.string => m = n

IInv == TableTypeOK /\ NodesInTheirBuckets /\ LoadBounded /\ OneNodePerString

KnownStrings == {n.string : n \in Nodes}
NodeOf(s) == CHOOSE n \in Nodes : n.string = s

Names == INSTANCE InternedNames WITH
    pointer <- [s \in KnownStrings |-> NodeOf(s)],
    meaning <- [s \in KnownStrings |-> data[NodeOf(s)]]

\* The table hands out one node per string, for good, and keeps the last
\* definition of each, however often it was split in between; in the end no
\* node is left over.  The interpreter compares names by pointer everywhere.
ImplementsInternedNames == Names!Spec

=============================================================================
