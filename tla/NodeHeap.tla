----------------------------- MODULE NodeHeap -----------------------------
(***************************************************************************)
(* The reference-counted graph nodes of node.c: the arena they come from,  *)
(* the free list that recycles them within a statement, and free_node,     *)
(* whose recursion is kept as a list of pending work so that a signal can  *)
(* arrive between any two of its steps.                                    *)
(*                                                                         *)
(* The module gives the state and the operations; GraphReducer is the      *)
(* program that calls them.                                                *)
(***************************************************************************)
EXTENDS CombinatorRules, FiniteSets

CONSTANT MaxNode    \* BOUND: how many nodes the model's arena can hold

ASSUME MaxNodeAssumption == MaxNode \in Nat \ {0}

Node == 1..MaxNode
Null == 0

\* What a pointer may hold.  The fields of a node are functions of Address so
\* that they are total: nothing reads them at Null (NoDanglingReference).
Address == Node \cup {Null}

Blank == "blank"    \* the name of memory that was never a node

VARIABLES
    label,          \* name of each node (App for an application)
    left, right,    \* children; a free node's right links the free list
    refcnt,
    updateable,     \* which child field an application's address leads to
    allocated,      \* allocated_node_count: arena nodes handed out so far
    freeList,       \* the nodes on node_free_list, head first
    todo            \* what the active free_node calls still have to do

heap == <<label, left, right, refcnt, updateable, allocated, freeList, todo>>

Live == (1..allocated) \ {freeList[i] : i \in DOMAIN freeList}

\* The nodes whose children free_node has taken over, and the live ones that
\* still hold theirs.
Linking == {todo[i].node : i \in {j \in DOMAIN todo : todo[j].op = "link"}}
InUse == Live \ Linking
Parents == {p \in InUse : label[p] = App}

\* The fields that hold n, and the free_node calls still to run on it.
Edges(n) == Cardinality({p \in Parents : left[p] = n})
              + Cardinality({p \in Parents : right[p] = n})
Pending(n) == Cardinality({i \in DOMAIN todo : todo[i] = [op |-> "free", node |-> n]})

HeapTypeOK ==
    /\ label \in [Address -> Label \cup {Blank}]
    /\ left \in [Address -> Address]
    /\ right \in [Address -> Address]
    /\ refcnt \in [Address -> Int]
    /\ updateable \in [Address -> {"left", "right", "none"}]
    /\ allocated \in 0..MaxNode
    /\ freeList \in Seq(Node)
    /\ todo \in Seq([op : {"free"}, node : Address]
                     \cup [op : {"link"}, node : Node])

HeapInit ==
    /\ label = [n \in Address |-> Blank]
    /\ left = [n \in Address |-> Null]
    /\ right = [n \in Address |-> Null]
    /\ refcnt = [n \in Address |-> 0]
    /\ updateable = [n \in Address |-> "none"]
    /\ allocated = 0
    /\ freeList = <<>>
    /\ todo = <<>>

-----------------------------------------------------------------------------
(* new_node, new_term, new_application                                     *)

\* The node that the i-th of several new_node calls in a row returns: the
\* free list is used first, then the arena.
Fresh(i) == IF i <= Len(freeList) THEN freeList[i]
                                  ELSE allocated + i - Len(freeList)

CanAllocate(k) == allocated + k - Len(freeList) <= MaxNode

\* Plausible slip: the second increment of new_application dropped when
\* both children are the same node.
MentionsOncePerCell(cells, n) ==
    Cardinality({i \in DOMAIN cells : n \in {cells[i].left, cells[i].right}})

\* How often node n is a child of one of the cells about to be built.
Mentions(cells, n) ==
    Cardinality({i \in DOMAIN cells : cells[i].left = n})
      + Cardinality({i \in DOMAIN cells : cells[i].right = n})

\* The reference counts after the cells have been built: a new node starts
\* at 0 and every child gains one per mention.
Counted(cells) ==
    LET new == {Fresh(i) : i \in DOMAIN cells}
    IN  [n \in Address |-> (IF n \in new THEN 0 ELSE refcnt[n]) + Mentions(cells, n)]

Cleared(cells) ==
    LET new == {Fresh(i) : i \in DOMAIN cells}
    IN  [n \in Address |-> IF n \in new THEN "none" ELSE updateable[n]]

\* Build the cells, in order: cell i becomes node Fresh(i).  The caller sets
\* refcnt and updateable, from Counted and Cleared.
NewNodes(cells) ==
    LET new == {Fresh(i) : i \in DOMAIN cells}
        cell(n) == cells[CHOOSE i \in DOMAIN cells : Fresh(i) = n]
        k == Len(cells)
    IN  /\ CanAllocate(k)
        /\ label' = [n \in Address |-> IF n \in new THEN cell(n).label ELSE label[n]]
        /\ left' = [n \in Address |-> IF n \in new THEN cell(n).left ELSE left[n]]
        /\ right' = [n \in Address |-> IF n \in new THEN cell(n).right ELSE right[n]]
        /\ freeList' = SubSeq(freeList, k + 1, Len(freeList))
        /\ allocated' = IF k <= Len(freeList) THEN allocated
                                              ELSE allocated + k - Len(freeList)
        /\ UNCHANGED todo

-----------------------------------------------------------------------------
(* free_node                                                               *)

\* A call free_node(n): work put in front of what is already pending.
FreeCall(n) == <<[op |-> "free", node |-> n]>>

\* One decrement.  A count that reaches 0 releases the children (left, then
\* right) and then links the node; a NULL argument returns at once.
DropReference(n, rest) ==
    IF n = Null
    THEN /\ todo' = rest
         /\ UNCHANGED refcnt
    ELSE /\ refcnt' = [refcnt EXCEPT ![n] = @ - 1]
         /\ todo' = IF refcnt[n] # 1 THEN rest
                    ELSE (IF label[n] = App
                          THEN FreeCall(left[n]) \o FreeCall(right[n])
                          ELSE <<>>)
                         \o <<[op |-> "link", node |-> n]>> \o rest

\* node->right = node_free_list; node_free_list = node
LinkFree(n, rest) ==
    /\ right' = [right EXCEPT ![n] = IF freeList = <<>> THEN Null ELSE freeList[1]]
    /\ freeList' = <<n>> \o freeList
    /\ todo' = rest

FreeStep ==
    /\ todo # <<>>
    /\ \/ /\ todo[1].op = "free"
          /\ DropReference(todo[1].node, Tail(todo))
          /\ UNCHANGED <<right, freeList>>
       \/ /\ todo[1].op = "link"
          /\ LinkFree(todo[1].node, Tail(todo))
          /\ UNCHANGED refcnt
    /\ UNCHANGED <<label, left, updateable, allocated>>

\* No node is on the free list twice, and the right fields of its nodes still
\* chain them, so nobody has written to a freed node.
FreeListChained ==
    /\ \A i, j \in DOMAIN freeList : freeList[i] = freeList[j] => i = j
    /\ \A i \in DOMAIN freeList :
          /\ freeList[i] \in 1..allocated
          /\ right[freeList[i]] = IF i = Len(freeList) THEN Null ELSE freeList[i + 1]

-----------------------------------------------------------------------------
(* reset_node_allocation                                                   *)

\* The interpreter's own leak check: every node handed out is on the list.
AllOnFreeList == Len(freeList) = allocated

\* Plausible slip: the arena is taken back, the list of its nodes kept.
ResetArenaOnly ==
    /\ label' = [n \in Address |-> Blank]
    /\ left' = [n \in Address |-> Null]
    /\ right' = [n \in Address |-> Null]
    /\ refcnt' = [n \in Address |-> 0]
    /\ updateable' = [n \in Address |-> "none"]
    /\ allocated' = 0
    /\ todo' = <<>>
    /\ UNCHANGED freeList

\* The whole arena is taken back.  What it held is not read again (new_node
\* initialises every field the reducer uses), so the model blanks it.
ResetNodeAllocation ==
    /\ label' = [n \in Address |-> Blank]
    /\ left' = [n \in Address |-> Null]
    /\ right' = [n \in Address |-> Null]
    /\ refcnt' = [n \in Address |-> 0]
    /\ updateable' = [n \in Address |-> "none"]
    /\ allocated' = 0
    /\ freeList' = <<>>
    /\ todo' = <<>>

=============================================================================
