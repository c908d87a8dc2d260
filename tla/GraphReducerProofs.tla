------------------------- MODULE GraphReducerProofs -------------------------
(***************************************************************************)
(* The reducer's theorems, for every rule set, arena, stack size and set   *)
(* of expressions: types, the bounds of the spine stack, the life of the   *)
(* cycle history; and what the reference counts are for, that nothing in   *)
(* use is freed and nothing is lost.                                       *)
(***************************************************************************)
EXTENDS GraphInvariant

-----------------------------------------------------------------------------
\* At the first prompt.
LEMMA InitInvariant == Init => IInv
<1> SUFFICES ASSUME Init PROVE IInv
  OBVIOUS
<1> USE DEF Init
<1>1. HeapTypeOK
  <2>1. 0 \in Address /\ 0 \in 0..MaxNode
    BY MaxNodeAssumption DEF Address, Null
  <2> QED
    BY <2>1 DEF HeapInit, HeapTypeOK, Null
<1>2. TypeOK
  <2>1. setting \in Setting /\ 0 \in 0..CounterCap
    BY ReducerAssumption
  <2>2. stack \in Seq([node : Address, depth : Nat \ {0}])
    OBVIOUS
  <2>3. typed \in Seq(Label \cup {Reduce})
    OBVIOUS
  <2>4. values \in Seq(Address)
    OBVIOUS
  <2> QED
    BY <1>1, <2>1, <2>2, <2>3, <2>4 DEF TypeOK, Places, Result, Address
<1> QED
  BY <1>2 DEF IInv, DepthBounded, StackRoom, LoopRoom, Reducing, PopBounded,
     HistoryBounded

\* The element on top of a stack that is not empty.
LEMMA TopIsElement ==
    ASSUME NEW s \in Seq(Element), s # <<>>
    PROVE  /\ Len(s) \in Nat \ {0} /\ Len(s) \in DOMAIN s
           /\ s[Len(s)] \in Element
           /\ TOPNODE(s) \in Address /\ DEPTH(s) \in Nat \ {0}
<1>1. Len(s) \in Nat \ {0} /\ Len(s) \in DOMAIN s
  OBVIOUS
<1>2. s[Len(s)] \in Element
  BY <1>1, ElementOfSeq
<1> QED
  BY <1>1, <1>2 DEF TOPNODE, DEPTH, Element

\* A stack after pops and pushes.
LEMMA PopIsStack ==
    ASSUME NEW s \in Seq(Element), NEW n \in 0..Len(s),
           \A i \in DOMAIN s : s[i].depth <= i
    PROVE  /\ POP(s, n) \in Seq(Element)
           /\ Len(POP(s, n)) = Len(s) - n
           /\ \A i \in DOMAIN POP(s, n) : POP(s, n)[i].depth <= i
<1>1. /\ Len(s) \in Nat /\ Len(s) - n \in 0..Len(s)
      /\ \A i \in 1..Len(s) - n : s[i] \in Element
  OBVIOUS
<1>2. /\ POP(s, n) \in Seq(Element)
      /\ Len(POP(s, n)) = Len(s) - n
      /\ \A i \in 1..Len(s) - n : POP(s, n)[i] = s[i]
  BY <1>1, SubSeqProperties DEF POP
<1> QED
  BY <1>1, <1>2

\* pushnode: the write is in bounds, the depth it records is too, and there
\* is room again afterwards.
LEMMA PushInvariant ==
    ASSUME IInv, stack # <<>>, NEW n \in Address, NEW mark \in {0, 2},
           pushnode(n, mark)
    PROVE  /\ stack' \in Seq(Element)
           /\ stackSize' \in Nat /\ stackSize' >= stackSize
           /\ DepthBounded'
           /\ old_spine_stack => stackSize' >= 2
           /\ Len(stack') < stackSize'
<1> DEFINE d == IF mark # 0 THEN mark ELSE DEPTH(stack) + 1
           e == [node |-> n, depth |-> d]
<1>1. /\ stack \in Seq(Element) /\ Len(stack) \in Nat \ {0} /\ stackSize \in Nat
      /\ Len(stack) < stackSize /\ stack[Len(stack)] \in Element
      /\ stack[Len(stack)].depth <= Len(stack)
  <2>1. stack \in Seq(Element) /\ stackSize \in Nat
    BY DEF IInv, TypeOK, Element
  <2>2. Len(stack) \in Nat \ {0} /\ DOMAIN stack = 1..Len(stack)
    BY <2>1
  <2>3. Len(stack) \in DOMAIN stack
    BY <2>2
  <2> QED
    BY <2>1, <2>2, <2>3 DEF IInv, DepthBounded, StackRoom
<1>2. d \in Nat \ {0} /\ d <= Len(stack) + 1
  BY <1>1 DEF DEPTH, Element
<1>3. stack' = Append(stack, e) /\ e \in Element
  BY <1>2 DEF pushnode, Element
<1>4. /\ stack' \in Seq(Element) /\ Len(stack') = Len(stack) + 1
      /\ \A i \in 1..Len(stack) : stack'[i] = stack[i]
      /\ stack'[Len(stack) + 1] = e
  BY <1>1, <1>3, AppendProperties
<1>5. DepthBounded'
  <2> SUFFICES ASSUME NEW i \in DOMAIN stack' PROVE stack'[i].depth <= i
    BY DEF DepthBounded
  <2>1. i \in 1..Len(stack) + 1
    BY <1>1, <1>4
  <2>2. CASE i \in 1..Len(stack)
    BY <1>1, <1>4, <2>2 DEF IInv, DepthBounded
  <2>3. CASE i = Len(stack) + 1
    BY <1>2, <1>4, <2>3
  <2> QED
    BY <1>1, <2>1, <2>2, <2>3
<1>6. /\ stackSize' \in Nat /\ stackSize' >= stackSize /\ Len(stack') < stackSize'
  BY <1>1, <1>4 DEF pushnode
<1> QED
  BY <1>1, <1>4, <1>5, <1>6 DEF IInv, StackRoom

-----------------------------------------------------------------------------
(* The steps, one lemma for each action that does more than change pc      *)

\* A statement begins with nothing but its text.
LEMMA StartInvariant ==
    ASSUME IInv, pc = "prompt", NEW e \in Expressions, StartStatement(e)
    PROVE  IInv'
<1>1. HeapTypeOK'
  BY DEF IInv, TypeOK, HeapTypeOK, StartStatement, heap
<1>2. typed' \in Seq(Label \cup {Reduce})
  BY ReducerAssumption DEF StartStatement, IsExpression
<1>3. TypeOK'
  BY <1>1, <1>2 DEF IInv, TypeOK, StartStatement, Places, statement, walk, redex, watch
<1>4. DepthBounded' /\ StackRoom' /\ LoopRoom' /\ PopBounded' /\ HistoryBounded'
  BY DEF IInv, DepthBounded, StackRoom, LoopRoom, Reducing, PopBounded,
         HistoryBounded, StartStatement, walk, redex, watch
<1> QED
  BY <1>3, <1>4 DEF IInv

\* What an element of the parser's stack is, and what is below it.
LEMMA ValuesKept ==
    ASSUME NEW s \in Seq(Address), NEW n \in 1..Len(s)
    PROVE  s[n] \in Address /\ SubSeq(s, 1, n - 1) \in Seq(Address)
<1>1. s[n] \in Address
  BY ElementOfSeq
<1>2. \A i \in 1..n - 1 : s[i] \in Address
  OBVIOUS
<1> QED
  BY <1>1, <1>2, SubSeqProperties

\* The first of several new nodes exists.
LEMMA FirstIsNode ==
    ASSUME HeapTypeOK, NEW cells \in Seq(Cell), NewNodes(cells),
           NEW i \in 1..Len(cells)
    PROVE  Fresh(i) \in Node
<1>1. CanAllocate(Len(cells)) /\ Len(cells) \in Nat
  BY DEF NewNodes
<1> QED
  BY <1>1, FreshIsNode

\* The parser adds one node and replaces its children on its stack by it.
LEMMA ParseInvariant ==
    ASSUME IInv, ParseTerm \/ ParseApplication
    PROVE  IInv'
<1>1. HeapTypeOK /\ values \in Seq(Address) /\ typed \in Seq(Label \cup {Reduce})
  BY DEF IInv, TypeOK
<1>2. PICK cell \in Cell, rest \in Seq(Address) : typed # <<>> /\ ParseNode(cell, rest)
  <2>1. CASE ParseTerm
    <3>1. [label |-> Head(typed), left |-> Null, right |-> Null] \in Cell
      BY <2>1 DEF ParseTerm, Cell, Label, Address
    <3> QED
      BY <1>1, <2>1, <3>1 DEF ParseTerm
  <2>2. CASE ParseApplication
    <3> DEFINE k == Len(values)
    <3>1. k \in Nat /\ k >= 2
      BY <1>1, <2>2 DEF ParseApplication
    <3>2. /\ values[k] \in Address /\ values[k - 1] \in Address
          /\ SubSeq(values, 1, k - 2) \in Seq(Address)
      <4>1. k \in 1..k /\ k - 1 \in 1..k /\ (k - 1) - 1 = k - 2
        BY <3>1
      <4> QED
        BY <1>1, <4>1, ValuesKept
    <3>3. [label |-> App, left |-> values[k - 1], right |-> values[k]] \in Cell
      BY <3>2 DEF Cell, Label
    <3> QED
      BY <2>2, <3>2, <3>3 DEF ParseApplication
  <2> QED
    BY <2>1, <2>2
<1> DEFINE cells == <<cell>>
<1>3. cells \in Seq(Cell) /\ Len(cells) = 1
  OBVIOUS
<1>4. /\ NewNodes(cells) /\ refcnt' = Counted(cells) /\ updateable' = Cleared(cells)
      /\ values' = Append(rest, Fresh(1)) /\ typed' = Tail(typed)
      /\ UNCHANGED <<pc, setting, statement, walk, redex, watch>>
  BY <1>2 DEF ParseNode
<1>5. HeapTypeOK'
  <2> HIDE DEF cells
  <2> QED
    BY <1>1, <1>3, <1>4, CountedAndClearedTypes, NewNodesTypes
<1>6. values' \in Seq(Address)
  <2>1. Fresh(1) \in Address
    <3> HIDE DEF cells
    <3>1. 1 \in 1..Len(cells)
      BY <1>3
    <3> QED
      BY <1>1, <1>3, <1>4, <3>1, FirstIsNode DEF Address
  <2> QED
    BY <1>4, <2>1
<1>7. typed' \in Seq(Label \cup {Reduce})
  BY <1>1, <1>2, <1>4
<1>8. TypeOK'
  BY <1>4, <1>5, <1>6, <1>7 DEF IInv, TypeOK, statement, walk, redex, watch
<1>9. DepthBounded' /\ StackRoom' /\ LoopRoom' /\ PopBounded' /\ HistoryBounded'
  BY <1>4 DEF IInv, DepthBounded, StackRoom, LoopRoom, PopBounded, HistoryBounded,
     walk, redex, watch
<1> QED
  BY <1>8, <1>9 DEF IInv

\* A reduction starts with the dummy root alone on the stack.
LEMMA StartReductionInvariant ==
    ASSUME IInv, StartReduction
    PROVE  IInv'
<1> DEFINE k == Len(values)
           cells == << [label |-> App, left |-> Null, right |-> Null],
                       [label |-> App, left |-> values[k], right |-> Fresh(1)] >>
           size == IF old_spine_stack THEN stackSize ELSE InitialStackSize
<1>1. /\ HeapTypeOK /\ NewNodes(cells)
      /\ refcnt' = [Counted(cells) EXCEPT ![Fresh(2)] = @ + 1]
      /\ updateable' = [Cleared(cells) EXCEPT ![Fresh(2)] = "left"]
  BY DEF IInv, TypeOK, StartReduction
<1>2. k \in 1..k /\ values[k] \in Address /\ SubSeq(values, 1, k - 1) \in Seq(Address)
  <2>1. values \in Seq(Address) /\ values # <<>>
    BY DEF IInv, TypeOK, StartReduction
  <2>2. k \in 1..k
    BY <2>1
  <2> QED
    BY <2>1, <2>2, ValuesKept
<1>3. Fresh(1) \in Node /\ Fresh(2) \in Node
  <2>1. CanAllocate(2) /\ Len(cells) = 2
    BY <1>1 DEF NewNodes
  <2> QED
    BY <1>1, <2>1, FreshIsNode
<1>4. cells \in Seq(Cell)
  BY <1>2, <1>3 DEF Cell, Label, Address
<1>5. HeapTypeOK'
  <2> HIDE DEF cells
  <2>1. /\ Counted(cells) \in [Address -> Int]
        /\ Cleared(cells) \in [Address -> {"left", "right", "none"}]
    BY <1>1, <1>4, CountedAndClearedTypes
  <2>2. refcnt' \in [Address -> Int]
    <3>1. \A f \in [Address -> Int], a \in Address :
             [f EXCEPT ![a] = @ + 1] \in [Address -> Int]
      OBVIOUS
    <3>2. Fresh(2) \in Address
      BY <1>3 DEF Address
    <3> QED
      BY <1>1, <2>1, <3>1, <3>2
  <2>3. updateable' \in [Address -> {"left", "right", "none"}]
    BY <1>1, <2>1
  <2> QED
    BY <1>1, <1>4, <2>2, <2>3, NewNodesTypes
<1>6. /\ root' = Fresh(2) /\ root' \in Node
      /\ values' = SubSeq(values, 1, k - 1)
      /\ stack' = << [node |-> root', depth |-> 1] >>
      /\ stackSize' = IF 1 >= size THEN 2 * size ELSE size
      /\ dir' = "left" /\ pc' = "loop"
      /\ UNCHANGED <<setting, typed, old_spine_stack, redex, watch, grr,
                     reduction_interrupted, part_interrupted>>
  BY <1>3 DEF StartReduction
<1>7. /\ stack' \in Seq([node : Address, depth : Nat \ {0}])
      /\ Len(stack') = 1 /\ DepthBounded'
  BY <1>6 DEF DepthBounded, Address
<1>8. stackSize' \in Nat /\ stackSize' >= 2
  BY <1>6, ReducerAssumption DEF IInv, TypeOK, StackRoom
<1>9. TypeOK'
  <2> HIDE DEF k, cells, size
  <2> QED
    BY <1>2, <1>5, <1>6, <1>7, <1>8 DEF IInv, TypeOK, redex, watch, Places, Address
<1>10. StackRoom' /\ LoopRoom' /\ PopBounded' /\ HistoryBounded'
  <2>1. pc = "parsing"
    BY DEF StartReduction, Parsing
  <2> QED
    BY <1>6, <1>7, <1>8, <2>1 DEF IInv, StackRoom, LoopRoom, PopBounded,
       HistoryBounded, redex, watch
<1> QED
  BY <1>7, <1>9, <1>10 DEF IInv

\* The result of a "reduce" goes from the dummy root to the parser.
LEMMA TakeResultInvariant ==
    ASSUME IInv, TakeResult
    PROVE  IInv'
<1>1. /\ refcnt' \in [Address -> Int] /\ left' \in [Address -> Address]
      /\ left[root] \in Address
  BY DEF IInv, TypeOK, HeapTypeOK, TakeResult, ResultUncounted, Address
<1>2. todo' \in Seq(Task)
  BY DEF IInv, TypeOK, TakeResult, FreeCall, Task
<1>3. HeapTypeOK'
  BY <1>1, <1>2 DEF IInv, TypeOK, HeapTypeOK, TakeResult, Task
<1>4. values' \in Seq(Address) /\ typed' \in Seq(Label \cup {Reduce})
  BY <1>1 DEF IInv, TypeOK, TakeResult
<1>5. TypeOK'
  <2>1. reduction_counter' \in 0..CounterCap
    BY ReducerAssumption DEF TakeResult
  <2> QED
    BY <1>3, <1>4, <2>1 DEF IInv, TypeOK, TakeResult, Places, Result, Address, redex
<1>6. DepthBounded' /\ StackRoom' /\ LoopRoom' /\ PopBounded' /\ HistoryBounded'
  BY DEF IInv, DepthBounded, StackRoom, LoopRoom, Reducing, PopBounded,
     HistoryBounded, TakeResult, redex
<1> QED
  BY <1>5, <1>6 DEF IInv

\* A push keeps every depth within its position, and leaves room for the next.
LEMMA PushStepInvariant ==
    ASSUME IInv, PushLeft \/ PushRight
    PROVE  IInv'
<1>1. /\ pc = "loop" /\ stack # <<>>
      /\ \E n \in Address, mark \in {0, 2} : pushnode(n, mark)
  <2>1. \A a : left[a] \in Address \/ a \notin Address
    BY DEF IInv, TypeOK, HeapTypeOK
  <2>2. \A a : right[a] \in Address \/ a \notin Address
    BY DEF IInv, TypeOK, HeapTypeOK
  <2>3. stack \in Seq(Element)
    BY DEF IInv, TypeOK, Element
  <2>4. stack # <<>>
    BY DEF PushLeft, PushRight, AtApplication
  <2>5. top \in Address
    BY <2>3, <2>4, TopIsElement DEF top
  <2> QED
    BY <2>1, <2>2, <2>4, <2>5 DEF PushLeft, PushRight, AtApplication
<1>2. /\ stack' \in Seq(Element) /\ stackSize' \in Nat /\ DepthBounded'
      /\ stackSize' >= stackSize
      /\ (old_spine_stack => stackSize' >= 2) /\ Len(stack') < stackSize'
  BY <1>1, PushInvariant
<1>3. updateable' \in [Address -> {"left", "right", "none"}]
  BY DEF IInv, TypeOK, HeapTypeOK, PushLeft, PushRight
<1>4. HeapTypeOK'
  BY <1>3 DEF IInv, TypeOK, HeapTypeOK, PushLeft, PushRight
<1>5. TypeOK'
  BY <1>2, <1>4 DEF IInv, TypeOK, Element, PushLeft, PushRight, parser, statement,
                    redex, watch
<1>6. StackRoom' /\ PopBounded' /\ HistoryBounded'
  BY <1>1, <1>2 DEF IInv, StackRoom, PopBounded, HistoryBounded, PushLeft,
                    PushRight, redex, watch
<1>7. LoopRoom'
  BY <1>1, <1>2 DEF IInv, TypeOK, LoopRoom, Reducing
<1> QED
  BY <1>2, <1>5, <1>6, <1>7 DEF IInv

\* Going up leaves the stack empty or the walk at a node above.
LEMMA PopUpInvariant ==
    ASSUME IInv, PopUp
    PROVE  IInv'
<1> DEFINE rest == POP(stack, 1)
           n == TOPNODE(rest)
<1>1. stack \in Seq(Element) /\ \A i \in DOMAIN stack : stack[i].depth <= i
  BY DEF IInv, TypeOK, DepthBounded, Element
<1>2. Len(stack) \in Nat \ {0}
  BY <1>1 DEF PopUp
<1>3. /\ rest \in Seq(Element) /\ Len(rest) = Len(stack) - 1
      /\ \A i \in DOMAIN rest : rest[i].depth <= i
  BY <1>1, <1>2, PopIsStack
<1>4. /\ stack' \in Seq(Element) /\ DepthBounded'
      /\ stack' # <<>> => Len(stack') < Len(stack)
  <2>1. CASE n # root \/ Len(rest) = 0
    <3>1. stack' = rest \/ (Len(rest) = 0 /\ stack' = POP(rest, 1))
      BY <2>1 DEF PopUp
    <3>2. Len(rest) = 0 => POP(rest, 1) = <<>>
      <4> HIDE DEF rest
      <4>1. Len(rest) = 0 => rest = <<>>
        BY <1>3
      <4>2. SubSeq(<<>>, 1, 0 - 1) = <<>>
        OBVIOUS
      <4> QED
        BY <4>1, <4>2 DEF POP
    <3>3. CASE stack' = rest
      BY <1>2, <1>3, <3>3 DEF DepthBounded
    <3>4. CASE stack' = <<>>
      BY <3>4 DEF DepthBounded
    <3> QED
      BY <3>1, <3>2, <3>3, <3>4
  <2>2. CASE n = root /\ Len(rest) # 0
    <3>1. stack' = POP(rest, 1)
      BY <2>2 DEF PopUp
    <3>2. 1 \in 0..Len(rest)
      BY <1>3, <2>2, <1>2
    <3>3. /\ POP(rest, 1) \in Seq(Element) /\ Len(POP(rest, 1)) = Len(rest) - 1
          /\ \A i \in DOMAIN POP(rest, 1) : POP(rest, 1)[i].depth <= i
      <4> HIDE DEF rest
      <4> QED
        BY <1>3, <3>2, PopIsStack
    <3> QED
      BY <1>2, <1>3, <3>1, <3>3 DEF DepthBounded
  <2> QED
    BY <2>1, <2>2
<1>5. HeapTypeOK'
  BY DEF IInv, TypeOK, HeapTypeOK, PopUp, heap
<1>6. TypeOK'
  BY <1>4, <1>5 DEF IInv, TypeOK, Element, PopUp, Upward, parser, statement, redex, watch
<1>7. StackRoom'
  BY <1>1, <1>2, <1>4 DEF IInv, TypeOK, StackRoom, PopUp
<1>8. LoopRoom' /\ PopBounded' /\ HistoryBounded'
  BY DEF IInv, LoopRoom, PopBounded, HistoryBounded, PopUp, redex, watch
<1> QED
  BY <1>4, <1>6, <1>7, <1>8 DEF IInv

\* The arguments of a redex of depth d, which the right-hand side shares.
Arguments(d) == {right[stack[Len(stack) - o].node] : o \in 1..d}

\* The cells are the applications of a rule's right-hand side: each one's
\* operands are arguments or applications built before it, and all of them
\* hang together below the contractum.
BuildsTree(cells, d) ==
    /\ d + 2 <= Len(stack) /\ pop_stack_cnt' = d + 1
    /\ NewNodes(cells) /\ refcnt' = Counted(cells) /\ updateable' = Cleared(cells)
    /\ \A i \in DOMAIN cells :
          /\ cells[i].label = App
          /\ \A c \in {cells[i].left, cells[i].right} :
                c \in Arguments(d) \/ \E j \in 1..i - 1 : c = Fresh(j)
          /\ \/ contractum' = Fresh(i)
             \/ \E j \in DOMAIN cells : Fresh(i) \in {cells[j].left, cells[j].right}
    /\ contractum' \in Arguments(d) \/ \E j \in DOMAIN cells : contractum' = Fresh(j)

\* reduce_rule builds such cells, whatever the rule.
LEMMA BuildFacts ==
    ASSUME IInv, BuildContractum
    PROVE  \E cells \in Seq(Cell), d \in Nat \ {0} : BuildsTree(cells, d)
<1> DEFINE r == Rule[label[top]]
           node(o) == IF o > 0 THEN right[PARENTNODE(stack, o)] ELSE Fresh(-o)
           cells == [i \in DOMAIN r.apps |-> [label |-> App,
                                              left |-> node(r.apps[i].func),
                                              right |-> node(r.apps[i].arg)]]
           k == Len(r.apps)
           d == r.required_depth
<1>1. IsRule(r) /\ Len(stack) \in Nat /\ d + 2 <= Len(stack) /\ d \in Nat \ {0}
  <2>1. label[top] \in Combinators
    BY DEF BuildContractum, Contractible, top
  <2>2. IsRule(r) /\ d \in Nat \ {0}
    BY <2>1, RulesAssumption DEF IsRule
  <2>3. stack \in Seq(Element) /\ stack # <<>>
    BY DEF IInv, TypeOK, Element, BuildContractum
  <2>4. Len(stack) \in Nat /\ Len(stack) \in DOMAIN stack /\ DEPTH(stack) \in Nat
    BY <2>3, TopIsElement
  <2>5. DEPTH(stack) <= Len(stack)
    BY <2>4 DEF IInv, DepthBounded, DEPTH
  <2>6. DEPTH(stack) >= d + 2
    BY DEF BuildContractum, Contractible, top
  <2> QED
    BY <2>2, <2>4, <2>5, <2>6
<1>2. r.apps \in Seq([func : Int, arg : Int]) /\ k \in Nat /\ DOMAIN r.apps = 1..k
  BY <1>1 DEF IsRule
<1>3. /\ NewNodes(cells) /\ refcnt' = Counted(cells) /\ updateable' = Cleared(cells)
      /\ contractum' = node(r.result) /\ pop_stack_cnt' = d + 1
  BY DEF BuildContractum
<1>4. CanAllocate(k) /\ HeapTypeOK
  <2>1. Len(cells) = k
    BY <1>2
  <2> QED
    BY <1>3, <2>1 DEF NewNodes, IInv, TypeOK
\* what an operand stands for
<1>5. ASSUME NEW i \in 1..k + 1, NEW o \in Operand(r, i)
      PROVE  \/ node(o) \in Arguments(d)
             \/ \E j \in 1..i - 1 : node(o) = Fresh(j)
  <2>1. o \in Int /\ (o \in 1..d \/ -o \in 1..i - 1)
    BY DEF Operand
  <2>2. CASE o \in 1..d
    <3>1. node(o) = right[stack[Len(stack) - o].node]
      BY <1>1, <2>2 DEF PARENTNODE
    <3> QED
      BY <2>2, <3>1 DEF Arguments
  <2>3. CASE -o \in 1..i - 1
    <3>1. ~(o > 0)
      BY <2>1, <2>3, <1>2
    <3>2. node(o) = Fresh(-o)
      BY <3>1
    <3> HIDE DEF node
    <3> QED
      BY <2>3, <3>2
  <2> QED
    BY <2>1, <2>2, <2>3
<1>6. \A a \in Arguments(d) : a \in Address
  <2> SUFFICES ASSUME NEW o \in 1..d PROVE right[stack[Len(stack) - o].node] \in Address
    BY DEF Arguments
  <2>1. Len(stack) - o \in 1..Len(stack)
    BY <1>1
  <2>2. stack[Len(stack) - o] \in [node : Address, depth : Nat \ {0}]
    BY <2>1, ElementOfSeq DEF IInv, TypeOK
  <2> QED
    BY <2>2 DEF IInv, TypeOK, HeapTypeOK
<1>7. \A i \in 1..k : Fresh(i) \in Address
  BY <1>2, <1>4, FreshIsNode DEF Address
<1>8. \A i \in 1..k : {r.apps[i].func, r.apps[i].arg} \subseteq Operand(r, i) /\ i \in 1..k + 1
  <2>1. \A i \in DOMAIN r.apps : {r.apps[i].func, r.apps[i].arg} \subseteq Operand(r, i)
    BY <1>1 DEF IsRule
  <2>2. \A i \in 1..k : i \in 1..k + 1
    BY <1>2
  <2> QED
    BY <1>2, <2>1, <2>2
<1>9. \A i \in 1..k : /\ cells[i].label = App /\ cells[i].left = node(r.apps[i].func)
                      /\ cells[i].right = node(r.apps[i].arg)
                      /\ cells[i] = [label |-> App, left |-> cells[i].left, right |-> cells[i].right]
  BY <1>2
<1>10. DOMAIN cells = 1..k
  BY <1>2
<1>11. r.result \in Operand(r, k + 1) /\ k + 1 \in 1..k + 1 /\ (k + 1) - 1 = k
  BY <1>1, <1>2 DEF IsRule
<1>12. \A i \in 1..k : \/ r.result = -i
                       \/ \E j \in 1..k : -i \in {r.apps[j].func, r.apps[j].arg}
  BY <1>1, <1>2 DEF IsRule
<1>13. \A i \in 1..k : node(-i) = Fresh(i)
  <2> SUFFICES ASSUME NEW i \in 1..k PROVE node(-i) = Fresh(i)
    OBVIOUS
  <2>1. i \in Nat /\ ~(-i > 0) /\ -(-i) = i
    BY <1>2
  <2> QED
    BY <2>1
<1> HIDE DEF node, cells, k, r, d
<1>14. \A i \in 1..k : \A c \in {cells[i].left, cells[i].right} :
          c \in Arguments(d) \/ \E j \in 1..i - 1 : c = Fresh(j)
  <2> SUFFICES ASSUME NEW i \in 1..k, NEW c \in {cells[i].left, cells[i].right}
               PROVE  c \in Arguments(d) \/ \E j \in 1..i - 1 : c = Fresh(j)
    OBVIOUS
  <2>1. PICK o \in Operand(r, i) : c = node(o)
    BY <1>8, <1>9
  <2> QED
    BY <1>5, <1>8, <2>1
<1>15. contractum' \in Arguments(d) \/ \E j \in 1..k : contractum' = Fresh(j)
  BY <1>3, <1>5, <1>11
<1>16. \A i \in 1..k : \/ contractum' = Fresh(i)
                       \/ \E j \in 1..k : Fresh(i) \in {cells[j].left, cells[j].right}
  <2> SUFFICES ASSUME NEW i \in 1..k
               PROVE  \/ contractum' = Fresh(i)
                      \/ \E j \in 1..k : Fresh(i) \in {cells[j].left, cells[j].right}
    OBVIOUS
  <2>1. CASE r.result = -i
    BY <1>3, <1>13, <2>1
  <2>2. ASSUME NEW j \in 1..k, -i \in {r.apps[j].func, r.apps[j].arg}
        PROVE  Fresh(i) \in {cells[j].left, cells[j].right}
    BY <1>9, <1>13, <2>2
  <2> QED
    BY <1>12, <2>1, <2>2
<1>17. cells \in Seq(Cell)
  <2>1. ASSUME NEW i \in 1..k PROVE cells[i] \in Cell
    <3>1. \A j \in 1..i - 1 : j \in 1..k
      BY <1>2
    <3>2. cells[i].left \in Address /\ cells[i].right \in Address
      BY <1>6, <1>7, <1>14, <3>1
    <3>3. [label |-> App, left |-> cells[i].left, right |-> cells[i].right] \in Cell
      BY <3>2 DEF Cell, Label
    <3> QED
      BY <1>9, <3>3
  <2>2. cells = [i \in 1..k |-> cells[i]]
    BY <1>10 DEF cells
  <2> QED
    BY <1>2, <2>1, <2>2
<1>18. BuildsTree(cells, d)
  BY <1>1, <1>3, <1>9, <1>10, <1>14, <1>15, <1>16 DEF BuildsTree
<1> QED
  BY <1>1, <1>17, <1>18

\* Building the contractum fixes how many elements will be popped.
LEMMA BuildInvariant ==
    ASSUME IInv, BuildContractum
    PROVE  IInv'
<1>1. PICK cells \in Seq(Cell), d \in Nat \ {0} : BuildsTree(cells, d)
  BY BuildFacts
<1>2. /\ pc' = "store" /\ UNCHANGED <<setting, parser, statement, walk, watch>>
      /\ HeapTypeOK /\ Len(stack) \in Nat
  <2>1. pc' = "store" /\ UNCHANGED <<setting, parser, statement, walk, watch>>
    BY DEF BuildContractum
  <2> QED
    BY <2>1, LenProperties DEF IInv, TypeOK
<1>3. HeapTypeOK'
  BY <1>1, <1>2, CountedAndClearedTypes, NewNodesTypes DEF BuildsTree
<1>4. contractum' \in Address
  <2>1. ASSUME NEW o \in 1..d PROVE right[stack[Len(stack) - o].node] \in Address
    <3>1. Len(stack) - o \in 1..Len(stack)
      BY <1>1, <1>2 DEF BuildsTree
    <3>2. stack[Len(stack) - o] \in [node : Address, depth : Nat \ {0}]
      BY <3>1, ElementOfSeq DEF IInv, TypeOK
    <3> QED
      BY <1>2, <3>2 DEF HeapTypeOK
  <2>2. ASSUME NEW j \in DOMAIN cells PROVE Fresh(j) \in Address
    <3>1. /\ Len(cells) \in Nat /\ j \in 1..Len(cells) /\ CanAllocate(Len(cells))
      BY <1>1, LenProperties DEF BuildsTree, NewNodes
    <3> QED
      BY <1>2, <3>1, FreshIsNode DEF Address
  <2> QED
    BY <1>1, <2>1, <2>2 DEF BuildsTree, Arguments
<1>5. pop_stack_cnt' = d + 1 /\ d + 2 <= Len(stack)
  BY <1>1 DEF BuildsTree
<1>6. TypeOK'
  <2>1. pop_stack_cnt' \in Nat /\ pc' \in Places
    BY <1>2, <1>5 DEF Places
  <2> QED
    BY <1>2, <1>3, <1>4, <2>1 DEF IInv, TypeOK, parser, statement, walk, watch
<1>7. DepthBounded' /\ StackRoom' /\ LoopRoom' /\ HistoryBounded'
  BY <1>2 DEF IInv, DepthBounded, StackRoom, LoopRoom, Reducing, HistoryBounded,
     BuildContractum, walk, watch
<1>8. PopBounded'
  <2>1. stack' = stack
    BY <1>2 DEF walk
  <2> QED
    BY <1>2, <1>5, <2>1 DEF PopBounded
<1> QED
  BY <1>6, <1>7, <1>8 DEF IInv

\* Linking the contractum touches the graph only.
LEMMA StoreInvariant ==
    ASSUME IInv, StoreContractum
    PROVE  IInv'
<1>1. /\ left' \in [Address -> Address]
      /\ right' \in [Address -> Address]
  BY DEF IInv, TypeOK, HeapTypeOK, StoreContractum
<1>2. TypeOK'
  BY <1>1 DEF IInv, TypeOK, HeapTypeOK, StoreContractum, Places, parser, statement,
              walk, redex, watch
<1>3. DepthBounded' /\ StackRoom' /\ LoopRoom' /\ PopBounded' /\ HistoryBounded'
  BY DEF IInv, DepthBounded, StackRoom, LoopRoom, Reducing, PopBounded,
         HistoryBounded, StoreContractum, walk, redex, watch
<1> QED
  BY <1>2, <1>3 DEF IInv

\* Counting it starts free_node on the redex.
LEMMA CountInvariant ==
    ASSUME IInv, CountContractum
    PROVE  IInv'
<1>1. refcnt' \in [Address -> Int]
  BY DEF IInv, TypeOK, HeapTypeOK, CountContractum, ContractumCounted
<1>2. todo' \in Seq(Task)
  <2>1. /\ stack \in Seq(Element) /\ pop_stack_cnt \in Nat
        /\ pop_stack_cnt >= 2 /\ pop_stack_cnt < Len(stack)
    BY DEF IInv, TypeOK, PopBounded, CountContractum, Element
  <2>2. Len(stack) - (pop_stack_cnt - 1) \in 1..Len(stack)
    BY <2>1
  <2>3. stack[Len(stack) - (pop_stack_cnt - 1)] \in Element
    BY <2>1, <2>2, ElementOfSeq
  <2>4. RedexNode(stack) \in Address
    BY <2>3 DEF RedexNode, PARENTNODE, Element
  <2> QED
    BY <2>4 DEF CountContractum, FreeCall, Task
<1>3. TypeOK'
  BY <1>1, <1>2 DEF IInv, TypeOK, HeapTypeOK, CountContractum, Places, Address,
                    Task, parser, statement, walk, watch
<1>4. DepthBounded' /\ StackRoom' /\ LoopRoom' /\ PopBounded' /\ HistoryBounded'
  BY DEF IInv, DepthBounded, StackRoom, LoopRoom, Reducing, PopBounded,
         HistoryBounded, CountContractum, walk, watch
<1> QED
  BY <1>3, <1>4 DEF IInv

\* free_node touches the heap only.
LEMMA FreeNodeInvariant ==
    ASSUME IInv, FreeNode
    PROVE  IInv'
<1>1. HeapTypeOK'
  BY FreeStepTypes DEF IInv, TypeOK, FreeNode
<1>2. TypeOK'
  BY <1>1 DEF IInv, TypeOK, FreeNode, walk, redex, watch, parser, statement
<1>3. DepthBounded' /\ StackRoom' /\ LoopRoom' /\ PopBounded' /\ HistoryBounded'
  BY DEF IInv, DepthBounded, StackRoom, LoopRoom, PopBounded, HistoryBounded,
         FreeNode, walk, redex, watch
<1> QED
  BY <1>2, <1>3 DEF IInv

\* All three exits of reduce_graph empty the stack and the history.
LEMMA ExitInvariant ==
    ASSUME IInv, StopOnCycle \/ StopAtLimit \/ ReachNormalForm
    PROVE  IInv'
<1>1. \E result \in Result : ExitReduceGraph(result)
  BY DEF StopOnCycle, StopAtLimit, ReachNormalForm, Result
<1>2. reduction_counter' \in 0..CounterCap
  BY ReducerAssumption DEF IInv, TypeOK, StopOnCycle, StopAtLimit,
     ReachNormalForm, Incremented
<1>3. HeapTypeOK'
  BY <1>1 DEF IInv, TypeOK, HeapTypeOK, ExitReduceGraph, heap
<1>4. stackSize >= 2
  <2>1. CASE pc = "settle"
    <3>1. Len(stack) > 2 /\ Len(stack) < stackSize
      BY <2>1 DEF IInv, TypeOK, PopBounded, StackRoom
    <3> QED
      BY <3>1 DEF IInv, TypeOK
  <2>2. CASE pc = "loop"
    BY <2>2 DEF IInv, LoopRoom, Reducing
  <2> QED
    BY <2>1, <2>2 DEF StopOnCycle, StopAtLimit, ReachNormalForm
<1>5. TypeOK'
  BY <1>1, <1>2, <1>3 DEF IInv, TypeOK, ExitReduceGraph, Places, Result, parser
<1>6. DepthBounded' /\ StackRoom' /\ LoopRoom' /\ PopBounded' /\ HistoryBounded'
  BY <1>1, <1>4 DEF IInv, DepthBounded, StackRoom, LoopRoom, Reducing,
     PopBounded, HistoryBounded,
     ExitReduceGraph, DetectionReset
<1> QED
  BY <1>5, <1>6 DEF IInv

\* After a contraction at least the dummy root stays on the stack.
LEMMA KeepReducingInvariant ==
    ASSUME IInv, KeepReducing
    PROVE  IInv'
<1>1. /\ stack \in Seq(Element) /\ pop_stack_cnt \in 0..Len(stack)
      /\ \A i \in DOMAIN stack : stack[i].depth <= i
  BY DEF IInv, TypeOK, DepthBounded, PopBounded, KeepReducing, Element
<1>2. /\ stack' \in Seq(Element) /\ Len(stack') = Len(stack) - pop_stack_cnt
      /\ DepthBounded'
  BY <1>1, PopIsStack DEF KeepReducing, DepthBounded
<1>3. HeapTypeOK'
  BY DEF IInv, TypeOK, HeapTypeOK, KeepReducing, heap
<1>4. reduction_counter' \in 0..CounterCap
  BY ReducerAssumption DEF IInv, TypeOK, KeepReducing, Incremented
<1>5. TypeOK'
  BY <1>2, <1>3, <1>4 DEF IInv, TypeOK, Element, KeepReducing, Places, parser, statement
<1>6. StackRoom' /\ LoopRoom'
  BY <1>1, <1>2 DEF IInv, TypeOK, StackRoom, LoopRoom, Reducing, PopBounded,
     KeepReducing
<1>7. PopBounded' /\ HistoryBounded'
  BY DEF IInv, PopBounded, HistoryBounded, KeepReducing
<1> QED
  BY <1>2, <1>5, <1>6, <1>7 DEF IInv

\* A signal abandons the stack, and reduce_tree empties the history.
LEMMA LongJumpInvariant ==
    ASSUME IInv, LongJump
    PROVE  IInv'
<1>1. HeapTypeOK'
  BY DEF IInv, TypeOK, HeapTypeOK, LongJump
<1>2. TypeOK'
  BY <1>1 DEF IInv, TypeOK, LongJump, Places, Result, Address, parser
<1>3. DepthBounded' /\ StackRoom' /\ LoopRoom' /\ PopBounded' /\ HistoryBounded'
  BY DEF IInv, DepthBounded, StackRoom, LoopRoom, Reducing, PopBounded,
         HistoryBounded, LongJump, DetectionReset
<1> QED
  BY <1>2, <1>3 DEF IInv

\* Back at the prompt.
LEMMA CleanupInvariant ==
    ASSUME IInv, Cleanup
    PROVE  IInv'
<1>1. HeapTypeOK'
  <2>1. 0 \in Address /\ 0 \in 0..MaxNode
    BY MaxNodeAssumption DEF Address, Null
  <2> QED
    BY <2>1 DEF Cleanup, ResetNodeAllocation, HeapTypeOK, Null
<1>2. TypeOK'
  <2>1. reduction_counter' \in 0..CounterCap
    BY ReducerAssumption DEF Cleanup
  <2>2. /\ pc' \in Places /\ root' \in Address /\ grr' \in Result
        /\ dir' \in {"left", "right", "up"}
        /\ reduction_interrupted' \in BOOLEAN /\ part_interrupted' \in BOOLEAN
    BY DEF Cleanup, Places, Result, Address
  <2>3. UNCHANGED <<setting, typed, values, stack, stackSize, old_spine_stack,
                    pop_stack_cnt, contractum>>
    BY DEF Cleanup, parser, redex
  <2> QED
    BY <1>1, <2>1, <2>2, <2>3 DEF IInv, TypeOK
<1>3. DepthBounded' /\ StackRoom' /\ LoopRoom' /\ PopBounded' /\ HistoryBounded'
  BY DEF IInv, DepthBounded, StackRoom, LoopRoom, Reducing, PopBounded,
     HistoryBounded, Cleanup, redex
<1> QED
  BY <1>2, <1>3 DEF IInv

\* Steps that change nothing but pc, the options or the pending free_node.
LEMMA QuietInvariant ==
    ASSUME IInv, \/ Configure \/ ContractionDone \/ ReleaseGraph
                 \/ ReadLine /\ ~LongJump
                 \/ UNCHANGED vars
    PROVE  IInv'
<1>1. HeapTypeOK'
  <2>1. CASE ReleaseGraph
    <3>1. FreeCall(root) \in Seq(Task)
      BY DEF IInv, TypeOK, FreeCall, Task
    <3> QED
      BY <2>1, <3>1 DEF IInv, TypeOK, HeapTypeOK, ReleaseGraph, Task
  <2>2. CASE ~ReleaseGraph
    BY <2>2 DEF IInv, TypeOK, HeapTypeOK, Configure, ContractionDone, ReadLine,
       heap, vars
  <2> QED
    BY <2>1, <2>2
<1>2. setting' \in Setting
  <2>1. CASE Configure
    BY <2>1, ReducerAssumption DEF Configure
  <2>2. CASE ~Configure
    BY <2>2 DEF IInv, TypeOK, Setting, ContractionDone, ReleaseGraph, ReadLine, vars
  <2> QED
    BY <2>1, <2>2
<1>3. UNCHANGED <<walk, redex, watch, parser, statement>>
  BY DEF Configure, ContractionDone, ReleaseGraph, ReadLine, vars, walk, redex,
         watch, parser, statement
<1>4. pc' \in Places
  BY DEF IInv, TypeOK, Configure, ContractionDone, ReleaseGraph, ReadLine, Places, vars
<1>5. TypeOK'
  BY <1>1, <1>2, <1>3, <1>4 DEF IInv, TypeOK, walk, redex, watch, parser, statement
<1>6. DepthBounded' /\ StackRoom'
  BY <1>3 DEF IInv, DepthBounded, StackRoom, walk
<1>7. LoopRoom' /\ PopBounded' /\ HistoryBounded'
  BY <1>3 DEF IInv, TypeOK, Setting, LoopRoom, Reducing, PopBounded, HistoryBounded,
     Configure, ContractionDone, ReleaseGraph, ReadLine, vars, walk, redex, watch
<1> QED
  BY <1>5, <1>6, <1>7 DEF IInv

-----------------------------------------------------------------------------
\* Every step preserves the invariant.
LEMMA NextInvariant == IInv /\ [Next]_vars => IInv'
<1> SUFFICES ASSUME IInv, [Next]_vars PROVE IInv'
  OBVIOUS
<1>1. CASE Configure \/ Exited \/ UNCHANGED vars
  BY <1>1, QuietInvariant DEF Exited
<1>2. CASE pc = "prompt" /\ \E e \in Expressions : StartStatement(e)
  BY <1>2, StartInvariant
<1>3. CASE Work
  <2>1. CASE PushLeft \/ PushRight
    BY <2>1, PushStepInvariant
  <2>11. CASE ParseTerm \/ ParseApplication
    BY <2>11, ParseInvariant
  <2>12. CASE StartReduction
    BY <2>12, StartReductionInvariant
  <2>13. CASE TakeResult
    BY <2>13, TakeResultInvariant
  <2>2. CASE PopUp
    BY <2>2, PopUpInvariant
  <2>3. CASE BuildContractum
    BY <2>3, BuildInvariant
  <2>4. CASE StoreContractum
    BY <2>4, StoreInvariant
  <2>5. CASE CountContractum
    BY <2>5, CountInvariant
  <2>6. CASE FreeNode
    BY <2>6, FreeNodeInvariant
  <2>7. CASE ContractionDone \/ ReleaseGraph
    BY <2>7, QuietInvariant
  <2>8. CASE StopOnCycle \/ StopAtLimit \/ ReachNormalForm
    BY <2>8, ExitInvariant
  <2>9. CASE KeepReducing
    BY <2>9, KeepReducingInvariant
  <2>10. CASE Cleanup
    BY <2>10, CleanupInvariant
  <2> QED
    BY <1>3, <2>1, <2>2, <2>3, <2>4, <2>5, <2>6, <2>7, <2>8, <2>9, <2>10,
       <2>11, <2>12, <2>13 DEF Work
<1>4. CASE \E s \in Signals : Interrupt(s)
  BY <1>4, LongJumpInvariant DEF Interrupt
<1>5. CASE ReadLine
  BY <1>5, LongJumpInvariant, QuietInvariant
<1> QED
  BY <1>1, <1>2, <1>3, <1>4, <1>5 DEF Next

\* The invariant holds in every behaviour of the interpreter.
THEOREM Invariance == Spec => []IInv
  BY InitInvariant, NextInvariant, PTL DEF Spec

\* Every variable keeps its type.
THEOREM TypeCorrectness == Spec => []TypeOK
<1>1. IInv => TypeOK
  BY DEF IInv
<1> QED
  BY <1>1, Invariance, PTL

\* A contraction never reads or pops below the bottom of the spine stack.
THEOREM NoStackUnderflow == Spec => []ContractionInBounds
<1>1. IInv => ContractionInBounds
  <2> SUFFICES ASSUME IInv, pc = "loop", stack # <<>>, Contractible(stack)
               PROVE  Len(stack) >= Rule[label[top]].required_depth + 2
    BY DEF ContractionInBounds
  <2>1. stack \in Seq(Element)
    BY DEF IInv, TypeOK, Element
  <2>2. Len(stack) \in Nat /\ DEPTH(stack) \in Nat /\ DEPTH(stack) <= Len(stack)
    BY <2>1, TopIsElement DEF IInv, DepthBounded, DEPTH
  <2>3. Rule[label[top]].required_depth \in Nat
    BY RulesAssumption DEF Contractible, top, IsRule
  <2>4. DEPTH(stack) >= Rule[label[top]].required_depth + 2
    BY DEF Contractible, top
  <2> QED
    BY <2>2, <2>3, <2>4
<1> QED
  BY <1>1, Invariance, PTL

\* pushnode never writes past the end of the spine stack's array.
THEOREM NoStackOverrun == Spec => []StackWriteInBounds
<1>1. IInv => StackWriteInBounds
  BY DEF IInv, StackRoom, StackWriteInBounds
<1> QED
  BY <1>1, Invariance, PTL

\* A reduction starts with an empty cycle history, however the one before it
\* ended.
THEOREM HistoryEmptied == Spec => []HistoryIsPerReduction
<1>1. IInv => HistoryIsPerReduction
  BY DEF IInv, HistoryBounded, HistoryIsPerReduction
<1> QED
  BY <1>1, Invariance, PTL

-----------------------------------------------------------------------------
\* Every step leaves at hand what its place in the program needs.
LEMMA ControlKept ==
    ASSUME IInv, Control, [Next]_vars
    PROVE  Control'
<1> USE DEF Control, Reducing
<1>1. CASE UNCHANGED vars \/ Exited
  BY <1>1 DEF vars, heap, parser, walk, redex, watch, statement, Exited
<1>2. CASE Configure
  BY <1>2 DEF Configure, heap, parser, walk, redex, watch, statement
<1>3. CASE pc = "prompt" /\ \E e \in Expressions : StartStatement(e)
  BY <1>3 DEF StartStatement, heap, walk, redex, watch, statement
<1>4. CASE ParseTerm \/ ParseApplication
  <2>1. pc = "parsing" /\ UNCHANGED <<pc, setting, statement, walk, redex, watch>>
    BY <1>4 DEF ParseTerm, ParseApplication, ParseNode, Parsing
  <2> QED
    BY <2>1 DEF walk, redex, watch, statement
<1>5. CASE StartReduction
  BY <1>5 DEF StartReduction, NewNodes, Parsing, redex, watch
<1>6. CASE TakeResult
  BY <1>6 DEF TakeResult, redex
<1>7. CASE PushLeft \/ PushRight
  BY <1>7 DEF PushLeft, PushRight, AtApplication, parser, redex, watch, statement
<1>8. CASE PopUp
  BY <1>8 DEF PopUp, heap, parser, redex, watch, statement
<1>9. CASE BuildContractum
  BY <1>9 DEF BuildContractum, NewNodes, parser, walk, watch, statement
<1>10. CASE StoreContractum
  BY <1>10 DEF StoreContractum, parser, walk, redex, watch, statement
<1>11. CASE CountContractum
  BY <1>11 DEF CountContractum, parser, walk, watch, statement
<1>12. CASE FreeNode
  BY <1>12 DEF FreeNode, FreeStep, parser, walk, redex, watch, statement
<1>13. CASE ContractionDone
  BY <1>13 DEF ContractionDone, heap, parser, walk, redex, watch, statement
<1>14. CASE StopOnCycle \/ StopAtLimit \/ ReachNormalForm
  BY <1>14 DEF StopOnCycle, StopAtLimit, ReachNormalForm, ExitReduceGraph, heap, parser
<1>15. CASE KeepReducing
  BY <1>15 DEF KeepReducing, heap, parser, statement
<1>16. CASE ReleaseGraph
  BY <1>16 DEF ReleaseGraph, parser, walk, redex, watch, statement
<1>17. CASE Cleanup
  BY <1>17 DEF Cleanup, ResetNodeAllocation, parser, redex
<1>18. CASE (\E s \in Signals : Interrupt(s)) \/ LongJump
  BY <1>18 DEF Interrupt, LongJump
<1>19. CASE ReadLine /\ ~LongJump
  BY <1>19 DEF ReadLine, heap, parser, walk, redex, watch, statement
<1> QED
  BY <1>1, <1>2, <1>3, <1>4, <1>5, <1>6, <1>7, <1>8, <1>9, <1>10, <1>11, <1>12, <1>13,
     <1>14, <1>15, <1>16, <1>17, <1>18, <1>19 DEF Next, Work

\* The first n elements of a sequence.
LEMMA Prefix ==
    ASSUME NEW S, NEW s \in Seq(S), NEW n \in 0..Len(s)
    PROVE  /\ Len(s) \in Nat
           /\ SubSeq(s, 1, n) \in Seq(S) /\ Len(SubSeq(s, 1, n)) = n
           /\ DOMAIN SubSeq(s, 1, n) = 1..n
           /\ \A i \in 1..n : SubSeq(s, 1, n)[i] = s[i] /\ s[i] \in S
<1>1. Len(s) \in Nat /\ DOMAIN s = 1..Len(s)
  BY LenProperties
<1>2. /\ n \in Nat /\ \A i \in 1..n : i \in 1..Len(s)
  BY <1>1
<1>3. \A i \in 1..n : s[i] \in S
  BY <1>1, <1>2, ElementOfSeq
<1>4. /\ SubSeq(s, 1, n) \in Seq(S)
      /\ Len(SubSeq(s, 1, n)) = IF 1 <= n THEN n - 1 + 1 ELSE 0
      /\ \A i \in 1..n - 1 + 1 : SubSeq(s, 1, n)[i] = s[1 + i - 1]
  BY <1>2, <1>3, SubSeqProperties
<1>5. Len(SubSeq(s, 1, n)) = n /\ n - 1 + 1 = n
  BY <1>2, <1>4
<1>6. \A i \in 1..n : SubSeq(s, 1, n)[i] = s[i]
  BY <1>2, <1>4, <1>5
<1> QED
  BY <1>1, <1>3, <1>4, <1>5, <1>6, LenProperties

\* One more action of the parser.
LEMMA GraphsAfterNext ==
    ASSUME NEW e, NEW i \in Nat
    PROVE  /\ GraphsAfter(e, 0) = 0
           /\ GraphsAfter(e, i) \in Int
           /\ GraphsAfter(e, i + 1) = GraphsAfter(e, i)
                 + Bit(e[i + 1] \in Combinators \cup Variables) - Bit(e[i + 1] = App)
<1> DEFINE A(k) == {j \in 1..k : e[j] \in Combinators \cup Variables}
           B(k) == {j \in 1..k : e[j] = App}
<1>1. A(0) = {} /\ B(0) = {}
  OBVIOUS
<1>2. IsFiniteSet(A(i)) /\ IsFiniteSet(B(i))
  <2>1. IsFiniteSet(1..i)
    BY FS_Interval
  <2> QED
    BY <2>1, FS_Subset
<1>3. /\ A(i + 1) \ {i + 1} = A(i) \ {i + 1} /\ B(i + 1) \ {i + 1} = B(i) \ {i + 1}
      /\ (i + 1 \in A(i + 1) <=> e[i + 1] \in Combinators \cup Variables)
      /\ (i + 1 \in B(i + 1) <=> e[i + 1] = App)
      /\ i + 1 \notin A(i) /\ i + 1 \notin B(i)
  OBVIOUS
<1>4. \A k : GraphsAfter(e, k) = Cardinality(A(k)) - Cardinality(B(k))
  BY DEF GraphsAfter
<1> HIDE DEF A, B
<1>5. /\ Cardinality(A(i)) \in Nat /\ Cardinality(B(i)) \in Nat
      /\ Cardinality(A(i + 1)) = Cardinality(A(i)) + Bit(i + 1 \in A(i + 1)) - Bit(i + 1 \in A(i))
      /\ Cardinality(B(i + 1)) = Cardinality(B(i)) + Bit(i + 1 \in B(i + 1)) - Bit(i + 1 \in B(i))
  BY <1>2, <1>3, CountDiffers
<1>6. GraphsAfter(e, 0) = 0
  BY <1>1, <1>4, FS_EmptySet
<1> QED
  BY <1>3, <1>4, <1>5, <1>6 DEF Bit

\* Taking the head of what is left of e.
LEMMA RestOfExpression ==
    ASSUME NEW e \in Expressions, NEW i \in 0..Len(e), NEW s, s = SubSeq(e, i + 1, Len(e))
    PROVE  /\ Len(e) \in Nat
           /\ s # <<>> => /\ i + 1 \in 0..Len(e) /\ Head(s) = e[i + 1]
                          /\ Tail(s) = SubSeq(e, (i + 1) + 1, Len(e))
           /\ s = <<>> => i = Len(e)
           /\ GraphsAfter(e, Len(e)) = 1
<1>1. /\ e \in Seq(Label \cup {Reduce}) /\ GraphsAfter(e, Len(e)) = 1
  BY ReducerAssumption DEF IsExpression
<1>2. Len(e) \in Nat /\ \A j \in 1..Len(e) : e[j] \in Label \cup {Reduce}
  BY <1>1, LenProperties, ElementOfSeq
<1> DEFINE k == Len(e)
<1>3. /\ s \in Seq(Label \cup {Reduce}) /\ Len(s) = IF i + 1 <= k THEN k - (i + 1) + 1 ELSE 0
      /\ \A j \in 1..k - (i + 1) + 1 : s[j] = e[i + 1 + j - 1]
  <2>1. \A j \in i + 1..k : e[j] \in Label \cup {Reduce}
    BY <1>2
  <2>2. i + 1 \in Int /\ k \in Int
    BY <1>2
  <2> DEFINE a == i + 1
             S == Label \cup {Reduce}
  <2>3. /\ SubSeq(e, a, k) \in Seq(S)
        /\ Len(SubSeq(e, a, k)) = IF a <= k THEN k - a + 1 ELSE 0
        /\ \A j \in 1..k - a + 1 : SubSeq(e, a, k)[j] = e[a + j - 1]
    <3> HIDE DEF k, a, S
    <3>1. a \in Int /\ k \in Int /\ \A j \in a..k : e[j] \in S
      BY <2>1, <2>2 DEF a, S, k
    <3> QED
      BY <3>1, SubSeqProperties
  <2> QED
    BY <2>3
<1>4. s = <<>> => i = k
  <2>1. s = <<>> => Len(s) = 0
    OBVIOUS
  <2>2. k \in Nat /\ i \in 0..k
    BY <1>2
  <2> HIDE DEF k
  <2> QED
    BY <1>3, <2>1, <2>2
<1>5. ASSUME s # <<>> PROVE i + 1 \in 0..k /\ Head(s) = e[i + 1] /\ Tail(s) = SubSeq(e, (i + 1) + 1, k)
  <2>1. i + 1 <= k
    BY <1>2, <1>3, <1>5, EmptySeq
  <2>2. Head(s) = s[1] /\ s[1] = e[i + 1 + 1 - 1] /\ i + 1 + 1 - 1 = i + 1
    BY <1>2, <1>3, <1>5, <2>1
  <2>3. Tail(s) = SubSeq(e, (i + 1) + 1, k)
    <3> HIDE DEF k
    <3> QED
      BY <1>2, <2>1, HeadTailOfSubSeq DEF k
  <2> QED
    BY <1>2, <2>1, <2>2, <2>3
<1> QED
  BY <1>1, <1>2, <1>4, <1>5

\* Every step keeps the parser's stack in step with what is left to parse.
LEMMA ParserKept ==
    ASSUME IInv, Control, ParserSound, [Next]_vars
    PROVE  ParserSound'
<1>1. values \in Seq(Address) /\ Len(values) \in Nat
  BY LenProperties DEF IInv, TypeOK
\* the steps that leave the parser alone, at places of the same kind
<1>2. ASSUME UNCHANGED <<typed, values>>,
             (pc' = pc)
               \/ (Underway /\ (Underway' \/ pc' = "exited" \/ (pc' = "release" /\ typed = <<>>)))
               \/ (pc = "release" /\ pc' = "prompt")
      PROVE  ParserSound'
  <2>1. CASE pc' = pc
    BY <1>2, <2>1 DEF ParserSound, Underway
  <2>2. CASE Underway /\ (Underway' \/ pc' = "exited" \/ (pc' = "release" /\ typed = <<>>))
    BY <1>2, <2>2 DEF ParserSound, Underway, Reducing
  <2>3. CASE pc = "release" /\ pc' = "prompt"
    <3>1. typed = <<>>
      BY <2>3 DEF ParserSound
    <3>2. PICK e \in Expressions : \E i \in 0..Len(e) :
             /\ typed = SubSeq(e, i + 1, Len(e))
             /\ GraphsAfter(e, i) = Len(values) + 1
      BY <2>3 DEF ParserSound
    <3>4. PICK i \in 0..Len(e) :
             /\ typed = SubSeq(e, i + 1, Len(e))
             /\ GraphsAfter(e, i) = Len(values) + 1
      BY <3>2
    <3>5. i = Len(e) /\ GraphsAfter(e, Len(e)) = 1
      BY <3>1, <3>4, RestOfExpression
    <3>3. Len(values) = 0
      BY <1>1, <3>4, <3>5
    <3> QED
      BY <1>1, <1>2, <2>3, <3>1, <3>3, EmptySeq DEF ParserSound, Underway, Reducing
  <2> QED
    BY <1>2, <2>1, <2>2, <2>3
<1>3. CASE pc = "prompt" /\ \E e \in Expressions : StartStatement(e)
  <2>1. PICK e \in Expressions : StartStatement(e)
    BY <1>3
  <2>2. e \in Seq(Label \cup {Reduce})
    BY ReducerAssumption DEF IsExpression
  <2>3. SubSeq(e, 0 + 1, Len(e)) = e /\ 0 \in 0..Len(e)
    BY <2>2, LenProperties, SubSeqFull
  <2>4. GraphsAfter(e, 0) = Len(values)
    BY <1>3, GraphsAfterNext DEF ParserSound
  <2> QED
    BY <1>3, <2>1, <2>3, <2>4 DEF ParserSound, StartStatement, Underway, Reducing
\* the steps that act on the first thing typed
<1>4. ASSUME pc \in {"parsing", "returned"}, pc' = "parsing", typed # <<>>, typed' = Tail(typed),
             Len(values') = Len(values) + (IF pc = "parsing" THEN 0 ELSE 1)
               + Bit(Head(typed) \in Combinators \cup Variables) - Bit(Head(typed) = App)
      PROVE  ParserSound'
  <2>5. PICK e \in Expressions : \E i \in 0..Len(e) :
           /\ typed = SubSeq(e, i + 1, Len(e))
           /\ GraphsAfter(e, i) = Len(values) + (IF pc = "parsing" THEN 0 ELSE 1)
    BY <1>4 DEF ParserSound
  <2>1. PICK i \in 0..Len(e) :
           /\ typed = SubSeq(e, i + 1, Len(e))
           /\ GraphsAfter(e, i) = Len(values) + (IF pc = "parsing" THEN 0 ELSE 1)
    BY <2>5
  <2>2. /\ i + 1 \in 0..Len(e) /\ Head(typed) = e[i + 1]
        /\ typed' = SubSeq(e, (i + 1) + 1, Len(e)) /\ Len(e) \in Nat
    BY <1>4, <2>1, RestOfExpression
  <2>3. GraphsAfter(e, i + 1) = GraphsAfter(e, i)
           + Bit(Head(typed) \in Combinators \cup Variables) - Bit(Head(typed) = App)
    <3>1. i \in Nat
      BY <2>2
    <3>2. GraphsAfter(e, i + 1) = GraphsAfter(e, i)
             + Bit(e[i + 1] \in Combinators \cup Variables) - Bit(e[i + 1] = App)
      BY <3>1, GraphsAfterNext
    <3> QED
      BY <2>2, <3>2 DEF Bit
  <2>4. GraphsAfter(e, i + 1) = Len(values')
    <3>1. Len(values') = Len(values) + (IF pc = "parsing" THEN 0 ELSE 1)
             + Bit(Head(typed) \in Combinators \cup Variables) - Bit(Head(typed) = App)
      BY <1>4
    <3> DEFINE x == Bit(Head(typed) \in Combinators \cup Variables)
               y == Bit(Head(typed) = App)
               z == IF pc = "parsing" THEN 0 ELSE 1
    <3>2. x \in Int /\ y \in Int /\ z \in Int
      BY DEF Bit
    <3>3. /\ Len(values') = Len(values) + z + x - y
          /\ GraphsAfter(e, i + 1) = GraphsAfter(e, i) + x - y
          /\ GraphsAfter(e, i) = Len(values) + z
      BY <2>1, <2>3, <3>1
    <3> HIDE DEF x, y, z
    <3> QED
      BY <1>1, <3>2, <3>3
  <2>6. GraphsAfter(e, i + 1) = Len(values') + (IF pc' = "parsing" THEN 0 ELSE 1)
    <3>1. i + 1 \in Nat
      BY <2>2
    <3>2. GraphsAfter(e, i + 1) \in Int
      BY <3>1, GraphsAfterNext
    <3> QED
      BY <1>4, <2>4, <3>2
  <2>7. \E j \in 0..Len(e) : /\ typed' = SubSeq(e, j + 1, Len(e))
                             /\ GraphsAfter(e, j) = Len(values') + (IF pc' = "parsing" THEN 0 ELSE 1)
    BY <2>2, <2>6
  <2> QED
    BY <1>4, <2>7 DEF ParserSound, Underway, Reducing
<1>5. CASE ParseTerm
  <2>1. /\ pc = "parsing" /\ pc' = pc /\ typed # <<>> /\ typed' = Tail(typed)
        /\ Head(typed) \in Combinators \cup Variables /\ values' = Append(values, Fresh(1))
    BY <1>5 DEF ParseTerm, ParseNode, Parsing
  <2>2. Head(typed) # App
    BY <2>1, RulesAssumption
  <2>3. Len(values') = Len(values) + 1
    BY <1>1, <2>1
  <2> QED
    BY <1>1, <1>4, <2>1, <2>2, <2>3 DEF Bit
<1>6. CASE ParseApplication
  <2> DEFINE k == Len(values)
             rest == SubSeq(values, 1, k - 2)
  <2>1. /\ pc = "parsing" /\ pc' = pc /\ typed # <<>> /\ typed' = Tail(typed)
        /\ Head(typed) = App /\ k >= 2 /\ values' = Append(rest, Fresh(1))
    BY <1>6 DEF ParseApplication, ParseNode, Parsing
  <2>2. Head(typed) \notin Combinators \cup Variables
    BY <2>1, RulesAssumption
  <2>3. rest \in Seq(Address) /\ Len(rest) = k - 2
    <3>1. k - 1 \in 1..k /\ (k - 1) - 1 = k - 2
      BY <1>1, <2>1
    <3>2. SubSeq(values, 1, (k - 1) - 1) \in Seq(Address)
      BY <1>1, <3>1, ValuesKept
    <3>3. Len(SubSeq(values, 1, k - 2)) = k - 2
      <4>1. k - 2 \in 0..Len(values)
        BY <1>1, <2>1
      <4> HIDE DEF k
      <4> QED
        BY <1>1, <4>1, Prefix
    <3> QED
      BY <3>1, <3>2, <3>3
  <2>4. Len(values') = (k - 2) + 1
    <3> HIDE DEF rest, k
    <3> QED
      BY <2>1, <2>3
  <2> QED
    BY <1>1, <1>4, <2>1, <2>2, <2>4 DEF Bit
<1>7. CASE StartReduction
  <2>1. /\ pc = "parsing" /\ pc' = "loop" /\ typed' = typed /\ values # <<>>
        /\ values' = SubSeq(values, 1, Len(values) - 1) /\ (typed # <<>> => Head(typed) = Reduce)
    BY <1>7 DEF StartReduction, Parsing
  <2>2. Len(values') + 1 = Len(values)
    <3>1. Len(values) # 0
      BY <1>1, <2>1, EmptySeq
    <3>2. Len(values) - 1 \in 0..Len(values)
      BY <1>1, <3>1
    <3>3. Len(SubSeq(values, 1, Len(values) - 1)) = Len(values) - 1
      BY <1>1, <3>2, Prefix
    <3> QED
      BY <1>1, <2>1, <3>3
  <2> QED
    BY <2>1, <2>2 DEF ParserSound, Underway, Reducing
<1>8. CASE TakeResult
  <2>1. /\ pc = "returned" /\ pc' = "parsing" /\ typed # <<>> /\ typed' = Tail(typed)
        /\ values' = Append(values, left[root]) /\ Head(typed) = Reduce
    BY <1>8 DEF TakeResult, ParserSound, Underway
  <2>2. Head(typed) # App /\ Head(typed) \notin Combinators \cup Variables
    BY <2>1, RulesAssumption DEF App, Reduce
  <2>3. Len(values') = Len(values) + 1
    BY <1>1, <2>1
  <2> QED
    BY <1>1, <1>4, <2>1, <2>2, <2>3 DEF Bit
<1>9. CASE \/ UNCHANGED vars \/ Exited \/ Configure \/ PushLeft \/ PushRight \/ PopUp \/ BuildContractum
           \/ StoreContractum \/ CountContractum \/ FreeNode \/ ContractionDone \/ KeepReducing
           \/ StopOnCycle \/ StopAtLimit \/ ReachNormalForm \/ ReleaseGraph \/ Cleanup
           \/ (\E s \in Signals : Interrupt(s)) \/ ReadLine
  <2>1. UNCHANGED <<typed, values>>
    BY <1>9 DEF vars, parser, Exited, Configure, PushLeft, PushRight, PopUp, BuildContractum,
       StoreContractum, CountContractum, FreeNode, ContractionDone, KeepReducing, StopOnCycle,
       StopAtLimit, ReachNormalForm, ExitReduceGraph, ReleaseGraph, Cleanup, Interrupt, ReadLine,
       LongJump
  <2>2. \/ pc' = pc
        \/ Underway /\ (Underway' \/ pc' = "exited" \/ (pc' = "release" /\ typed = <<>>))
        \/ pc = "release" /\ pc' = "prompt"
    BY <1>9 DEF vars, Exited, Configure, PushLeft, PushRight, PopUp, BuildContractum,
       StoreContractum, CountContractum, FreeNode, ContractionDone, KeepReducing, StopOnCycle,
       StopAtLimit, ReachNormalForm, ExitReduceGraph, ReleaseGraph, Cleanup, Interrupt, ReadLine,
       LongJump, Underway, Reducing
  <2> QED
    BY <1>2, <2>1, <2>2
<1> QED
  BY <1>3, <1>5, <1>6, <1>7, <1>8, <1>9 DEF Next, Work

-----------------------------------------------------------------------------
\* Steps that do not touch the nodes.
LEMMA HeapKept ==
    ASSUME UNCHANGED <<label, left, right, allocated, freeList, todo>>
    PROVE  /\ Live' = Live /\ Linking' = Linking /\ InUse' = InUse /\ Parents' = Parents
           /\ \A n : Edges(n)' = Edges(n) /\ Pending(n)' = Pending(n)
           /\ UNCHANGED refcnt /\ ListInv => ListInv'
<1>1. Live' = Live /\ Linking' = Linking
  BY DEF Live, Linking
<1>2. InUse' = InUse
  BY <1>1 DEF InUse
<1>3. Parents' = Parents
  BY <1>2 DEF Parents
<1>4. \A n : Edges(n)' = Edges(n) /\ Pending(n)' = Pending(n)
  BY <1>3 DEF Edges, Pending
<1>5. UNCHANGED refcnt /\ ListInv => ListInv'
  BY <1>1, <1>2 DEF ListInv, FreeListChained, LinksOnce, DeadUncounted
<1> QED
  BY <1>1, <1>2, <1>3, <1>4, <1>5

\* Places during a reduction at which no contraction is half done.
Settled == {"loop", "freeing", "continue?", "settle", "returned"}

\* Steps that leave the graphs alone.
LEMMA GraphKept ==
    ASSUME NEW level, NEW graph, GraphSound(level, graph),
           UNCHANGED <<label, left, right, refcnt, allocated, freeList, todo, root, values>>,
           pc \in Settled, pc' \in Settled
    PROVE  GraphSound(level, graph)'
<1>1. /\ Live' = Live /\ InUse' = InUse /\ Parents' = Parents
      /\ \A n : Edges(n)' = Edges(n) /\ Pending(n)' = Pending(n)
  BY HeapKept
<1>2. Underway /\ Underway' /\ pc \notin {"store", "incref", "release", "parsing"}
      /\ pc' \notin {"store", "incref", "release", "parsing"}
  BY DEF Underway, Reducing, Settled
<1>3. CountsExact(Holders)'
  <2>1. Holders' = Holders
    BY <1>2 DEF Holders, Bit
  <2> HIDE DEF Holders
  <2> QED
    BY <1>1, <2>1 DEF GraphSound, CountsExact
<1>4. Ordered(level, graph)'
  BY <1>1 DEF GraphSound, Ordered
<1>5. CallsInUse'
  BY <1>1 DEF GraphSound, CallsInUse
<1>6. NoGarbage'
  BY <1>1, <1>2 DEF GraphSound, NoGarbage
<1>7. DummiesApart'
  BY <1>1, <1>2 DEF GraphSound, DummiesApart, Dummies
<1>8. HollowOnly'
  BY <1>1, <1>2 DEF GraphSound, HollowOnly
<1>9. ValuesSound(graph)'
  BY <1>1, <1>2 DEF GraphSound, ValuesSound
<1> QED
  BY <1>3, <1>4, <1>5, <1>6, <1>7, <1>8, <1>9 DEF GraphSound

\* The positions of the spine stack.
LEMMA StackFacts ==
    ASSUME IInv, pc \in Reducing, stack # <<>>
    PROVE  /\ stack \in Seq(Element) /\ Len(stack) \in Nat \ {0} /\ DOMAIN stack = 1..Len(stack)
           /\ \A i \in 1..Len(stack) : stack[i] \in Element /\ stack[i].node \in Address
           /\ Kept \in 1..Len(stack) /\ pop_stack_cnt \in Nat
           /\ pc \in {"loop", "store"} => Kept = Len(stack)
           /\ pc \notin {"loop", "store"} => Kept = Len(stack) - pop_stack_cnt
<1>1. stack \in Seq(Element) /\ pop_stack_cnt \in Nat
  BY DEF IInv, TypeOK, Element
<1>2. /\ Len(stack) \in Nat \ {0} /\ DOMAIN stack = 1..Len(stack)
      /\ \A i \in 1..Len(stack) : stack[i] \in Element
  BY <1>1, LenProperties, ElementOfSeq, EmptySeq
<1>3. \A e \in Element : e.node \in Address
  BY DEF Element
<1>4. Kept \in 1..Len(stack)
  BY <1>1, <1>2 DEF Kept, IInv, PopBounded, Reducing
<1> QED
  BY <1>1, <1>2, <1>3, <1>4 DEF Kept

\* What the path leads through.
LEMMA LeadsOnFields ==
    ASSUME NEW a, NEW b, LeadsOn(a, b)
    PROVE  /\ label[a.node] = App
           /\ \/ /\ updateable[a.node] = "left"
                 /\ b.node = left[a.node] /\ b.depth = a.depth + 1
              \/ /\ updateable[a.node] = "right"
                 /\ b.node = right[a.node] /\ b.depth = 2
<1>1. CASE updateable[a.node] = "left" /\ b = [node |-> left[a.node], depth |-> a.depth + 1]
  <2>1. b.node = left[a.node] /\ b.depth = a.depth + 1
    BY <1>1
  <2> QED
    BY <1>1, <2>1 DEF LeadsOn
<1>2. CASE updateable[a.node] = "right" /\ b = [node |-> right[a.node], depth |-> 2]
  <2>1. b.node = right[a.node] /\ b.depth = 2
    BY <1>2
  <2> QED
    BY <1>2, <2>1 DEF LeadsOn
<1> QED
  BY <1>1, <1>2 DEF LeadsOn

\* What an element of the path leads to.
LEMMA LeadsToChild ==
    ASSUME NEW a, NEW b, LeadsOn(a, b)
    PROVE  label[a.node] = App /\ b.node \in {left[a.node], right[a.node]}
BY LeadsOnFields

\* The element above a stack's top.
LEMMA PushSound ==
    ASSUME IInv, IInv', NEW level \in [Address -> Nat], NEW graph,
           GraphSound(level, graph), WalkSound(level, graph), PushLeft \/ PushRight
    PROVE  GraphSound(level, graph)' /\ WalkSound(level, graph)'
<1> DEFINE k == Len(stack)
           n == IF dir = "left" THEN left[top] ELSE right[top]
           e == [node |-> n, depth |-> IF dir = "left" THEN DEPTH(stack) + 1 ELSE 2]
<1>1. /\ pc = "loop" /\ stack # <<>> /\ label[top] = App /\ pc' = pc
      /\ UNCHANGED <<label, left, right, refcnt, allocated, freeList, todo, root, values>>
      /\ dir \in {"left", "right"} /\ dir' = "left"
  BY DEF PushLeft, PushRight, AtApplication, parser, statement
<1>2. /\ updateable' = [updateable EXCEPT ![top] = dir] /\ stack' = Append(stack, e)
  BY DEF PushLeft, PushRight, pushnode, AtApplication
<1>3. GraphSound(level, graph)'
  BY <1>1, GraphKept DEF Settled
<1>4. /\ InUse' = InUse /\ Parents' = Parents
  BY <1>1, HeapKept
<1>5. /\ stack \in Seq(Element) /\ k \in Nat \ {0}
      /\ \A i \in 1..k : stack[i].node \in Address
      /\ Kept = k /\ top = stack[k].node /\ k \in 1..k
  BY <1>1, StackFacts DEF Reducing, top, TOPNODE
<1>6. /\ stack[1] = [node |-> root, depth |-> 1] /\ updateable[root] = "left"
      /\ \A i \in 1..k : /\ stack[i].node \in InUse /\ graph[stack[i].node] = graph[root]
                         /\ i # 1 => stack[i].node \notin Dummies
      /\ \A i \in 1..k - 1 : LeadsOn(stack[i], stack[i + 1])
      /\ \A i, j \in 1..k : i < j => level[stack[i].node] < level[stack[j].node]
  BY <1>1, <1>5 DEF WalkSound, StackSound, Reducing
<1>7. top \in Parents /\ graph[top] = graph[root] /\ top # right[root] /\ top \in Address
  <2>1. root # right[root]
    BY <1>1 DEF GraphSound, DummiesApart, Underway, Reducing
  <2>2. stack[1].node = root
    BY <1>6
  <2> QED
    BY <1>1, <1>5, <1>6, <2>1, <2>2 DEF Parents, Dummies
<1>8. left[top] # Null /\ right[top] # Null
  BY <1>1, <1>7 DEF GraphSound, HollowOnly, Underway
<1>9. n \in InUse /\ level[top] < level[n] /\ graph[n] = graph[root] /\ n \in Address
  <2>1. n \in {left[top], right[top]} \ {Null}
    BY <1>8
  <2>2. n \in InUse /\ level[top] < level[n] /\ graph[top] = graph[n]
    BY <1>7, <2>1 DEF GraphSound, Ordered
  <2> QED
    BY <1>7, <2>2, NodeFactsHold DEF NodeFacts, IInv, TypeOK
<1>10. n \notin Dummies
  <2>1. CASE top = root
    <3>1. dir = "left"
      BY <1>1, <2>1 DEF WalkSound, DirSound, top
    <3> QED
      BY <1>1, <2>1, <3>1 DEF GraphSound, DummiesApart, Underway, Reducing
  <2>2. CASE top # root
    BY <1>1, <1>7, <2>2 DEF GraphSound, DummiesApart, Underway, Reducing
  <2> QED
    BY <2>1, <2>2
<1>11. /\ Len(stack') = k + 1 /\ stack'[k + 1] = e
       /\ \A i \in 1..k : stack'[i] = stack[i]
  <2>1. e \in Element
    <3>1. DEPTH(stack) \in Nat \ {0}
      BY <1>1, <1>5, TopIsElement
    <3> QED
      BY <1>9, <3>1 DEF Element
  <2> HIDE DEF e
  <2> QED
    BY <1>2, <1>5, <2>1, AppendProperties
<1>12. Kept' = k + 1
  BY <1>1, <1>11 DEF Kept
<1>13. \A a : a # top => updateable'[a] = updateable[a]
  BY <1>2
<1>14. updateable'[top] = dir
  BY <1>2, <1>7 DEF IInv, TypeOK, HeapTypeOK
<1>15. \A i \in 1..k : LeadsOn(stack[i], stack[i + 1])'
  <2> SUFFICES ASSUME NEW i \in 1..k PROVE LeadsOn(stack[i], stack[i + 1])'
    OBVIOUS
  <2>1. CASE i = k
    <3>1. stack'[i] = stack[k] /\ stack'[i + 1] = e /\ stack[k].node = top
          /\ stack[k].depth = DEPTH(stack)
      BY <1>5, <1>11, <2>1 DEF DEPTH
    <3> QED
      BY <1>1, <1>14, <3>1 DEF LeadsOn
  <2>2. CASE i # k
    <3>1. i \in 1..k - 1 /\ i + 1 \in 1..k /\ i < k
      BY <1>5, <2>2
    <3>2. stack'[i] = stack[i] /\ stack'[i + 1] = stack[i + 1]
      BY <1>11, <3>1
    <3>3. stack[i].node # top
      <4>1. level[stack[i].node] < level[stack[k].node]
        BY <1>5, <1>6, <3>1
      <4>2. level[stack[k].node] \in Nat
        BY <1>5
      <4> QED
        BY <1>5, <4>1, <4>2
    <3>4. LeadsOn(stack[i], stack[i + 1])
      BY <1>6, <3>1
    <3> QED
      BY <1>1, <1>13, <3>2, <3>3, <3>4 DEF LeadsOn
  <2> QED
    BY <2>1, <2>2
<1>16. \A i, j \in 1..k + 1 : i < j => level[stack'[i].node] < level[stack'[j].node]
  <2> SUFFICES ASSUME NEW i \in 1..k + 1, NEW j \in 1..k + 1, i < j
               PROVE  level[stack'[i].node] < level[stack'[j].node]
    OBVIOUS
  <2>1. i \in 1..k /\ stack'[i] = stack[i]
    BY <1>5, <1>11
  <2>2. CASE j \in 1..k
    BY <1>6, <1>11, <2>1, <2>2
  <2>3. CASE j = k + 1
    <3>1. stack'[j].node = n
      BY <1>11, <2>3
    <3>2. level[stack[i].node] = level[top] \/ level[stack[i].node] < level[top]
      <4>1. i = k \/ i < k
        BY <1>5, <2>1
      <4> QED
        BY <1>5, <1>6, <2>1, <4>1
    <3>3. level[stack[i].node] \in Nat /\ level[top] \in Nat /\ level[n] \in Nat
      <4> HIDE DEF n
      <4> QED
        BY <1>5, <1>7, <1>9, <2>1
    <3> HIDE DEF n
    <3> QED
      BY <1>9, <2>1, <3>1, <3>2, <3>3
  <2> QED
    BY <1>5, <2>2, <2>3
<1>17. StackSound(level, graph)'
  <2>1. stack'[1] = [node |-> root, depth |-> 1]
    BY <1>5, <1>6, <1>11
  <2>2. updateable'[root] = "left"
    <3>1. CASE top = root
      <4>1. dir = "left"
        BY <1>1, <3>1 DEF WalkSound, DirSound, top
      <4> QED
        BY <1>14, <3>1, <4>1
    <3> QED
      BY <1>6, <1>13, <3>1
  <2>3. \A i \in 1..k + 1 : /\ stack'[i].node \in InUse /\ graph[stack'[i].node] = graph[root]
                            /\ i # 1 => stack'[i].node \notin Dummies
    <3> SUFFICES ASSUME NEW i \in 1..k + 1
                 PROVE  /\ stack'[i].node \in InUse /\ graph[stack'[i].node] = graph[root]
                        /\ i # 1 => stack'[i].node \notin Dummies
      OBVIOUS
    <3>1. CASE i \in 1..k
      BY <1>6, <1>11, <3>1
    <3>2. CASE i = k + 1
      <4>1. stack'[i].node = n
        BY <1>11, <3>2
      <4> HIDE DEF n
      <4> QED
        BY <1>9, <1>10, <4>1
    <3> QED
      BY <1>5, <3>1, <3>2
  <2>4. Dummies' = Dummies /\ root' = root
    BY <1>1 DEF Dummies
  <2>5. (k + 1) - 1 = k
    BY <1>5
  <2> HIDE DEF k, n, e
  <2> QED
    BY <1>4, <1>12, <1>15, <1>16, <2>1, <2>2, <2>3, <2>4, <2>5 DEF StackSound
<1>18. ContractumSound(level, graph)' /\ DirSound'
  BY <1>1 DEF ContractumSound, DirSound
<1> QED
  BY <1>3, <1>17, <1>18 DEF WalkSound

\* What is left of the stack after a pop.
LEMMA PoppedStack ==
    ASSUME IInv, NEW level, NEW graph, StackSound(level, graph),
           pc \in Reducing, stack # <<>>, NEW m \in 1..Kept, stack' = SubSeq(stack, 1, m),
           pc' = "loop", UNCHANGED <<heap, root>>
    PROVE  /\ StackSound(level, graph)'
           /\ stack' # <<>> /\ TOPNODE(stack') = stack[m].node
           /\ TOPNODE(stack') = root => m = 1
<1>1. /\ stack \in Seq(Element) /\ Len(stack) \in Nat \ {0} /\ Kept \in 1..Len(stack)
  BY StackFacts
<1>2. /\ Len(stack') = m /\ \A i \in 1..m : stack'[i] = stack[i]
  <2>1. m \in 0..Len(stack)
    BY <1>1
  <2> QED
    BY <1>1, <2>1, Prefix
<1>3. Kept' = m
  BY <1>2 DEF Kept
<1>4. /\ \A i \in 1..m : i \in 1..Kept /\ (i # m => i + 1 \in 1..m)
      /\ \A i \in 1..m - 1 : i \in 1..Kept - 1 /\ i + 1 \in 1..m /\ i \in 1..m
      /\ m \in 1..m /\ 1 \in 1..m
  BY <1>1
<1>5. /\ stack[1] = [node |-> root, depth |-> 1] /\ updateable[root] = "left"
      /\ \A i \in 1..Kept : /\ stack[i].node \in InUse /\ graph[stack[i].node] = graph[root]
                            /\ i # 1 => stack[i].node \notin Dummies
      /\ \A i \in 1..Kept - 1 : LeadsOn(stack[i], stack[i + 1])
      /\ \A i, j \in 1..Kept : i < j => level[stack[i].node] < level[stack[j].node]
  BY DEF StackSound
<1>6. /\ InUse' = InUse /\ Dummies' = Dummies /\ root' = root
  BY HeapKept DEF heap, Dummies
<1>7. \A i \in 1..m - 1 : LeadsOn(stack[i], stack[i + 1])'
  BY <1>2, <1>4, <1>5 DEF LeadsOn, heap
<1>8. StackSound(level, graph)'
  <2>1. updateable'[root] = "left" /\ stack'[1] = [node |-> root, depth |-> 1]
    BY <1>2, <1>4, <1>5 DEF heap
  <2>2. \A i \in 1..m : /\ stack'[i].node \in InUse /\ graph[stack'[i].node] = graph[root]
                        /\ i # 1 => stack'[i].node \notin Dummies
    BY <1>2, <1>4, <1>5
  <2>3. \A i, j \in 1..m : i < j => level[stack'[i].node] < level[stack'[j].node]
    BY <1>2, <1>4, <1>5
  <2> QED
    BY <1>3, <1>6, <1>7, <2>1, <2>2, <2>3 DEF StackSound
<1>9. TOPNODE(stack') = stack[m].node
  BY <1>2, <1>4 DEF TOPNODE
<1>10. stack' # <<>>
  <2>1. Len(stack') # 0
    BY <1>1, <1>2
  <2> QED
    BY <2>1
<1> QED
  BY <1>4, <1>5, <1>8, <1>9, <1>10 DEF Dummies

\* Going up leaves a shorter path.
LEMMA PopUpSound ==
    ASSUME IInv, NEW level, NEW graph,
           GraphSound(level, graph), WalkSound(level, graph), PopUp
    PROVE  GraphSound(level, graph)' /\ WalkSound(level, graph)'
<1> DEFINE k == Len(stack)
           rest == POP(stack, 1)
<1>1. /\ pc = "loop" /\ stack # <<>> /\ pc' = pc /\ UNCHANGED heap /\ UNCHANGED <<root, values>>
      /\ dir' = Upward(TOPNODE(rest))
      /\ stack' = IF TOPNODE(rest) = root THEN POP(rest, 1) ELSE rest
      /\ (label[top] = App /\ dir = "up") \/ label[top] # App
  BY DEF PopUp, parser, statement
<1>2. GraphSound(level, graph)'
  BY <1>1, GraphKept DEF Settled, heap
<1>3. /\ stack \in Seq(Element) /\ k \in Nat \ {0} /\ Kept = k /\ top = stack[k].node
  BY <1>1, StackFacts DEF Reducing, top, TOPNODE
<1>4. /\ stack[1].node = root /\ label[root] = App
      /\ \A i \in 1..k : i # 1 => stack[i].node # root
  BY <1>1, <1>3 DEF WalkSound, StackSound, Reducing, Dummies, GraphSound, DummiesApart,
                    Underway, Parents
<1>5. k # 1
  <2> SUFFICES ASSUME k = 1 PROVE FALSE
    OBVIOUS
  <2>1. top = root
    BY <1>3, <1>4
  <2> QED
    BY <1>1, <1>4, <2>1 DEF WalkSound, DirSound, top
<1>6. /\ k - 1 \in 1..k /\ k - 1 \in 1..Kept /\ k - 1 \in 0..k
      /\ Len(rest) = k - 1 /\ \A i \in 1..k - 1 : rest[i] = stack[i]
      /\ rest \in Seq(Element)
  <2>1. k - 1 \in 1..k /\ k - 1 \in 1..Kept /\ k - 1 \in 0..k
    BY <1>3, <1>5
  <2> QED
    BY <1>3, <2>1, Prefix DEF POP
<1>7. TOPNODE(rest) = stack[k - 1].node
  <2>1. k - 1 \in 1..k - 1
    BY <1>6
  <2> HIDE DEF rest, k
  <2> QED
    BY <1>6, <2>1 DEF TOPNODE
<1>8. StackSound(level, graph)' /\ DirSound'
  <2>1. CASE TOPNODE(rest) = root
    <3>1. k - 1 = 1
      BY <1>4, <1>6, <1>7, <2>1
    <3>2. POP(rest, 1) = <<>>
      <4>1. Len(rest) - 1 = 0 /\ 0 \in 0..Len(rest)
        <5>1. Len(rest) = 1
          BY <1>6, <3>1
        <5> HIDE DEF rest
        <5> QED
          BY <5>1
      <4>2. Len(SubSeq(rest, 1, 0)) = 0 /\ SubSeq(rest, 1, 0) \in Seq(Element)
        <5> HIDE DEF rest
        <5> QED
          BY <1>6, <4>1, Prefix
      <4> HIDE DEF rest
      <4> QED
        BY <4>1, <4>2, EmptySeq DEF POP
    <3> QED
      BY <1>1, <2>1, <3>2 DEF StackSound, DirSound
  <2>2. CASE TOPNODE(rest) # root
    <3>1. stack' = SubSeq(stack, 1, k - 1)
      BY <1>1, <2>2 DEF POP
    <3>2. StackSound(level, graph)' /\ TOPNODE(stack') = stack[k - 1].node
      <4>1. StackSound(level, graph)
        BY DEF WalkSound
      <4> HIDE DEF k
      <4> QED
        BY <1>1, <1>6, <3>1, <4>1, PoppedStack DEF Reducing
    <3> QED
      BY <1>1, <1>7, <2>2, <3>2 DEF DirSound, TOPNODE
  <2> QED
    BY <2>1, <2>2
<1> QED
  BY <1>1, <1>2, <1>8 DEF WalkSound, ContractumSound

\* So does popping the redex's spine.
LEMMA KeepReducingSound ==
    ASSUME IInv, NEW level, NEW graph,
           GraphSound(level, graph), WalkSound(level, graph), KeepReducing
    PROVE  GraphSound(level, graph)' /\ WalkSound(level, graph)'
<1> DEFINE k == Len(stack)
<1>1. /\ pc = "settle" /\ pc' = "loop" /\ UNCHANGED heap /\ UNCHANGED <<root, values>>
      /\ stack' = POP(stack, pop_stack_cnt)
      /\ dir' = IF updateable[TOPNODE(POP(stack, pop_stack_cnt))] = "left" THEN "left" ELSE "right"
  BY DEF KeepReducing, parser, statement
<1>2. GraphSound(level, graph)'
  BY <1>1, GraphKept DEF Settled, heap
<1>3. stack # <<>>
  <2>1. Len(stack) # 0
    BY <1>1 DEF IInv, TypeOK, PopBounded
  <2> QED
    BY <2>1
<1>4. Kept = k - pop_stack_cnt /\ Kept \in 1..Kept
  BY <1>1, <1>3, StackFacts DEF Reducing
<1>5. stack' = SubSeq(stack, 1, Kept)
  BY <1>1, <1>4 DEF POP
<1>6. /\ StackSound(level, graph)'
      /\ TOPNODE(stack') = root => Kept = 1
  BY <1>1, <1>3, <1>4, <1>5, PoppedStack DEF Reducing, WalkSound
<1>7. DirSound'
  <2>1. TOPNODE(stack') = root => dir' = "left"
    BY <1>1, <1>3 DEF WalkSound, StackSound, Reducing
  <2> QED
    BY <1>1, <2>1 DEF DirSound, TOPNODE
<1>8. ContractumSound(level, graph)'
  BY <1>1 DEF ContractumSound
<1> QED
  BY <1>2, <1>6, <1>7, <1>8 DEF WalkSound

\* The steps of reduce_graph that touch neither the nodes nor the path.
LEMMA QuietSound ==
    ASSUME IInv, NEW level, NEW graph, GraphSound(level, graph), WalkSound(level, graph),
           \/ ContractionDone \/ StopOnCycle \/ StopAtLimit \/ ReachNormalForm
           \/ ReadLine /\ ~LongJump /\ pc' # "exited"
    PROVE  GraphSound(level, graph)' /\ WalkSound(level, graph)'
<1>1. /\ pc \in {"loop", "freeing", "continue?", "settle"}
      /\ pc' \in {"continue?", "settle", "returned"}
      /\ UNCHANGED heap /\ UNCHANGED <<root, values>>
      /\ pc' # "returned" => pc \notin {"loop", "settle"} /\ UNCHANGED <<stack, pop_stack_cnt>>
  BY DEF ContractionDone, StopOnCycle, StopAtLimit, ReachNormalForm, ExitReduceGraph, ReadLine,
     parser, statement, walk, redex
<1>2. GraphSound(level, graph)'
  BY <1>1, GraphKept DEF Settled, heap
<1>3. StackSound(level, graph)'
  <2>1. CASE pc' = "returned"
    BY <2>1 DEF StackSound, Reducing
  <2>2. CASE pc' # "returned"
    <3>1. Kept' = Kept /\ InUse' = InUse /\ pc \in Reducing
      BY <1>1, <2>2, HeapKept DEF Kept, heap, Reducing
    <3> QED
      BY <1>1, <2>2, <3>1 DEF StackSound, WalkSound, LeadsOn, heap, Dummies
  <2> QED
    BY <2>1, <2>2
<1> QED
  BY <1>1, <1>2, <1>3 DEF WalkSound, ContractumSound, DirSound

-----------------------------------------------------------------------------
\* A step of free_node, on a redex, on the dummies of a part or on the whole
\* graph: what the walk and the parser hold stays.
LEMMA FreeNodeSound ==
    ASSUME IInv, IInv', ListInv, NEW level \in [Address -> Nat], NEW graph \in [Address -> Nat],
           GraphSound(level, graph), WalkSound(level, graph), FreeNode
    PROVE  ListInv' /\ GraphSound(level, graph)' /\ WalkSound(level, graph)'
<1>1. /\ pc \in {"freeing", "release", "parsing"} /\ pc' = pc /\ FreeStep
      /\ UNCHANGED <<root, values, stack, pop_stack_cnt, contractum>>
  BY DEF FreeNode, parser, walk, redex, statement
<1>2. HeapTypeOK /\ HeapTypeOK' /\ NodeFacts /\ NodeFacts'
  BY NodeFactsHold, NodeFactsLater DEF IInv, TypeOK
<1>3. PICK hold \in [Address -> Nat] : hold = Holders
  <2>1. \A n \in Address : Holders[n] \in Nat
    BY <1>1 DEF Holders, Bit
  <2>2. Holders = [n \in Address |-> Holders[n]]
    BY DEF Holders
  <2> HIDE DEF Holders
  <2> QED
    BY <2>1, <2>2
<1>4. Holders' = hold
  BY <1>1, <1>3 DEF Holders, Underway
<1>5. /\ ListInv' /\ CountsExact(hold)' /\ Ordered(level, graph)' /\ CallsInUse' /\ Thinned(hold)
  <2>1. CountsExact(hold)
    BY <1>3 DEF GraphSound
  <2> QED
    BY <1>1, <1>2, <2>1, FreeStepGraph DEF GraphSound
<1>6. /\ InUse' \subseteq InUse /\ Parents' \subseteq Parents
      /\ UNCHANGED <<label, left, updateable, allocated>>
      /\ \A c \in InUse : right'[c] = right[c]
      /\ \A c \in InUse \ InUse' :
            /\ refcnt[c] = 1 /\ Edges(c) = 0 /\ Pending(c) = 1 /\ hold[c] = 0
            /\ label[c] = App => \A d \in {left[c], right[c]} \ {Null} : Pending(d)' > 0
      /\ \A c \in InUse' :
            /\ refcnt'[c] = refcnt[c] \/ (refcnt[c] > 1 /\ refcnt'[c] = refcnt[c] - 1)
            /\ refcnt[c] = 1 /\ Pending(c) > 0 => Pending(c)' > 0
  BY <1>5 DEF Thinned
<1>7. \A c \in InUse : c \in Address /\ refcnt[c] \in Int
  BY <1>2 DEF NodeFacts
\* what stays in use
<1>8. \A p \in Parents : \A c \in {left[p], right[p]} \ {Null} : c \in InUse'
  <2> SUFFICES ASSUME NEW p \in Parents, NEW c \in {left[p], right[p]} \ {Null} PROVE c \in InUse'
    OBVIOUS
  <2>1. c \in InUse /\ Edges(c) # 0
    BY <1>2 DEF NodeFacts, GraphSound, Ordered
  <2> QED
    BY <1>6, <2>1
<1>9. CountsExact(Holders)'
  BY <1>4, <1>5 DEF CountsExact
<1>10. NoGarbage'
  <2> SUFFICES ASSUME NEW n \in InUse', refcnt'[n] = 0
               PROVE  \E i \in DOMAIN values : values[i] = n
    BY <1>1 DEF NoGarbage
  <2>1. refcnt[n] = 0 /\ n \in InUse
    BY <1>6, <1>7
  <2> QED
    BY <1>1, <2>1 DEF GraphSound, NoGarbage
<1>11. Underway => root \in InUse' /\ root \in InUse
  <2>1. Underway => root \in InUse /\ hold[root] # 0
    BY <1>1, <1>2, <1>3 DEF GraphSound, DummiesApart, Holders, Bit, NodeFacts
  <2> QED
    BY <1>6, <2>1
<1>12. Underway' = Underway
  BY <1>1 DEF Underway
<1>13. Underway => right'[root] = right[root] /\ Dummies' = Dummies
  BY <1>1, <1>6, <1>11 DEF Dummies
<1>14. DummiesApart'
  <2> SUFFICES ASSUME Underway PROVE DummiesApart'
    BY <1>12 DEF DummiesApart
  <2>1. /\ root \in Parents /\ right[root] \in Parents /\ root # right[root]
        /\ left[right[root]] = Null /\ right[right[root]] = Null
        /\ left[root] \in InUse \ Dummies
        /\ \A p \in Parents \ {root} : left[p] \notin Dummies /\ right[p] \notin Dummies
    BY DEF GraphSound, DummiesApart
  <2>2. right[root] \in InUse' /\ left[root] \in InUse'
    BY <1>2, <1>8, <2>1 DEF NodeFacts
  <2>3. root \in Parents' /\ right[root] \in Parents'
    BY <1>6, <1>11, <2>1, <2>2 DEF Parents
  <2>4. right[root] \in InUse /\ \A p \in Parents : right'[p] = right[p]
    BY <1>2, <1>6, <2>1 DEF NodeFacts
  <2> QED
    BY <1>1, <1>6, <1>13, <2>1, <2>2, <2>3, <2>4 DEF DummiesApart
<1>15. HollowOnly'
  <2> SUFFICES ASSUME pc # "release", NEW p \in Parents', left[p] = Null \/ right'[p] = Null
               PROVE  (Underway /\ p = right[root]) \/ (pc = "parsing" /\ Doomed(p)')
    BY <1>1, <1>6, <1>12, <1>13 DEF HollowOnly
  <2>1. p \in Parents /\ p \in InUse' /\ p \in InUse /\ right'[p] = right[p] /\ p \in Address
    BY <1>2, <1>6 DEF NodeFacts, Parents
  <2>2. CASE pc = "parsing" /\ Doomed(p)
    <3>1. refcnt[p] = 1 /\ refcnt'[p] = 1
      BY <1>6, <2>1, <2>2 DEF Doomed
    <3>2. CASE Pending(p) > 0
      BY <1>6, <2>1, <2>2, <3>1, <3>2 DEF Doomed
    <3>3. CASE \E q \in Parents : refcnt[q] = 1 /\ Pending(q) > 0 /\ right[q] = p
      <4>1. PICK q \in Parents : refcnt[q] = 1 /\ Pending(q) > 0 /\ right[q] = p
        BY <3>3
      <4>2. q \in InUse /\ label[q] = App
        BY <1>2 DEF NodeFacts, Parents
      <4>3. CASE q \in InUse'
        <5>1. q \in Parents' /\ refcnt'[q] = 1 /\ Pending(q)' > 0 /\ right'[q] = p
          BY <1>6, <4>1, <4>2, <4>3 DEF Parents
        <5> QED
          BY <2>2, <3>1, <5>1 DEF Doomed
      <4>4. CASE q \notin InUse'
        <5>1. p # Null
          BY <1>2, <2>1 DEF NodeFacts
        <5>2. Pending(p)' > 0
          BY <1>6, <4>1, <4>2, <4>4, <5>1
        <5> QED
          BY <2>2, <3>1, <5>2 DEF Doomed
      <4> QED
        BY <4>3, <4>4
    <3> QED
      BY <2>2, <3>2, <3>3 DEF Doomed
  <2> QED
    BY <2>1, <2>2 DEF GraphSound, HollowOnly
<1>16. ValuesSound(graph)'
  <2>1. \A i \in DOMAIN values : values[i] \in InUse' /\ refcnt'[values[i]] = 0
    <3> SUFFICES ASSUME NEW i \in DOMAIN values
                 PROVE  values[i] \in InUse' /\ refcnt'[values[i]] = 0
      OBVIOUS
    <3>1. values[i] \in InUse /\ refcnt[values[i]] = 0
      BY DEF GraphSound, ValuesSound
    <3> QED
      BY <1>6, <3>1
  <2> QED
    BY <1>1, <1>12, <2>1 DEF GraphSound, ValuesSound
<1>17. StackSound(level, graph)'
  <2> SUFFICES ASSUME pc \in Reducing, stack # <<>> PROVE StackSound(level, graph)'
    BY <1>1 DEF StackSound
  <2>1. /\ Kept' = Kept /\ Underway /\ Kept \in Nat
    BY <1>1, StackFacts DEF Kept, Underway
  <2>2. /\ stack[1] = [node |-> root, depth |-> 1] /\ updateable[root] = "left"
        /\ \A i \in 1..Kept : /\ stack[i].node \in InUse /\ graph[stack[i].node] = graph[root]
                              /\ i # 1 => stack[i].node \notin Dummies
        /\ \A i \in 1..Kept - 1 : LeadsOn(stack[i], stack[i + 1])
        /\ \A i, j \in 1..Kept : i < j => level[stack[i].node] < level[stack[j].node]
    BY DEF WalkSound, StackSound
  <2>3. \A i \in 1..Kept : stack[i].node \in InUse'
    <3> SUFFICES ASSUME NEW i \in 1..Kept PROVE stack[i].node \in InUse'
      OBVIOUS
    <3>1. CASE i = 1
      BY <1>11, <2>1, <2>2, <3>1
    <3>2. CASE i # 1
      <4>1. i - 1 \in 1..Kept - 1 /\ i - 1 \in 1..Kept /\ (i - 1) + 1 = i
        BY <2>1, <3>2
      <4>2. LeadsOn(stack[i - 1], stack[i]) /\ stack[i - 1].node \in InUse /\ stack[i].node \in InUse
        BY <2>2, <4>1
      <4>3. stack[i - 1].node \in Parents /\ stack[i].node # Null
            /\ stack[i].node \in {left[stack[i - 1].node], right[stack[i - 1].node]}
        BY <1>2, <4>2, LeadsToChild DEF Parents, NodeFacts
      <4> QED
        BY <1>8, <4>3
    <3> QED
      BY <3>1, <3>2
  <2>4. \A i \in 1..Kept - 1 : LeadsOn(stack[i], stack[i + 1])'
    <3> SUFFICES ASSUME NEW i \in 1..Kept - 1 PROVE LeadsOn(stack[i], stack[i + 1])'
      OBVIOUS
    <3>1. stack[i].node \in InUse /\ LeadsOn(stack[i], stack[i + 1])
      BY <2>1, <2>2
    <3> QED
      BY <1>1, <1>6, <3>1 DEF LeadsOn
  <2> QED
    BY <1>1, <1>6, <1>13, <2>1, <2>2, <2>3, <2>4 DEF StackSound
<1> QED
  BY <1>1, <1>5, <1>9, <1>10, <1>14, <1>15, <1>16, <1>17
  DEF GraphSound, WalkSound, ContractumSound, DirSound

-----------------------------------------------------------------------------
\* The redex and the node above it.
LEMMA RedexFacts ==
    ASSUME IInv, pc \in {"store", "incref"}
    PROVE  /\ stack # <<>> /\ Len(stack) - pop_stack_cnt \in 1..Len(stack) - 2
           /\ Len(stack) \in Nat
           /\ RedexParent(stack) = stack[Len(stack) - pop_stack_cnt].node
           /\ RedexNode(stack) = stack[(Len(stack) - pop_stack_cnt) + 1].node
<1>1. stack # <<>>
  <2>1. Len(stack) # 0
    BY DEF IInv, TypeOK, PopBounded
  <2> QED
    BY <2>1
<1>2. Len(stack) \in Nat /\ pop_stack_cnt \in Nat /\ pop_stack_cnt >= 2 /\ pop_stack_cnt < Len(stack)
  BY <1>1, StackFacts DEF IInv, PopBounded, Reducing
<1>3. Len(stack) - (pop_stack_cnt - 1) = (Len(stack) - pop_stack_cnt) + 1
  BY <1>2
<1> QED
  BY <1>1, <1>2, <1>3 DEF RedexParent, RedexNode, PARENTNODE

\* Linking the contractum below the redex's parent: the redex loses that edge.
LEMMA StoreSound ==
    ASSUME IInv, IInv', Control, ListInv,
           NEW level \in [Address -> Nat], NEW graph \in [Address -> Nat],
           GraphSound(level, graph), WalkSound(level, graph), StoreContractum
    PROVE  ListInv' /\ GraphSound(level, graph)' /\ WalkSound(level, graph)'
<1> DEFINE k == Len(stack)
           j == k - pop_stack_cnt
           m == RedexParent(stack)
           x == RedexNode(stack)
<1>1. /\ pc = "store" /\ pc' = "incref"
      /\ UNCHANGED <<label, refcnt, updateable, allocated, freeList, todo, values, root, stack,
                     pop_stack_cnt, contractum>>
      /\ \/ /\ updateable[m] = "left" /\ UNCHANGED right
            /\ left' = [left EXCEPT ![m] = contractum]
         \/ /\ updateable[m] # "left" /\ UNCHANGED left
            /\ right' = [right EXCEPT ![m] = contractum]
  BY DEF StoreContractum, parser, walk, redex, statement
<1>2. HeapTypeOK /\ HeapTypeOK' /\ NodeFacts /\ NodeFacts'
  BY NodeFactsHold, NodeFactsLater DEF IInv, TypeOK
<1>3. /\ stack # <<>> /\ j \in 1..k - 2 /\ k \in Nat /\ m = stack[j].node /\ x = stack[j + 1].node
      /\ pc \in Reducing /\ Kept = k /\ Kept' = j /\ Underway /\ Underway'
  BY <1>1, RedexFacts DEF Reducing, Kept, Underway
<1>4. /\ stack[1] = [node |-> root, depth |-> 1] /\ updateable[root] = "left"
      /\ \A i \in 1..k : /\ stack[i].node \in InUse /\ graph[stack[i].node] = graph[root]
                         /\ i # 1 => stack[i].node \notin Dummies
      /\ \A i \in 1..k - 1 : LeadsOn(stack[i], stack[i + 1])
      /\ \A i, l \in 1..k : i < l => level[stack[i].node] < level[stack[l].node]
  BY <1>3 DEF WalkSound, StackSound
<1>5. /\ contractum \in InUse \ Dummies /\ graph[contractum] = graph[root]
      /\ level[m] < level[contractum]
  BY <1>1 DEF WalkSound, ContractumSound
<1>6. j \in 1..k /\ j + 1 \in 1..k /\ j \in 1..k - 1
  BY <1>3
<1> HIDE DEF j
<1>7. /\ m \in Parents /\ m \in Address /\ graph[m] = graph[root] /\ x \in InUse
      /\ (updateable[m] = "left" /\ left[m] = x) \/ (updateable[m] # "left" /\ right[m] = x)
  <2>1. LeadsOn(stack[j], stack[j + 1])
    BY <1>4, <1>6
  <2>2. m \in InUse /\ graph[m] = graph[root] /\ x \in InUse
    BY <1>3, <1>4, <1>6
  <2>3. /\ label[m] = App
        /\ (updateable[m] = "left" /\ x = left[m]) \/ (updateable[m] = "right" /\ x = right[m])
    BY <1>3, <2>1, LeadsOnFields
  <2>4. m \in Address
    BY <1>2, <2>2 DEF NodeFacts
  <2> HIDE DEF m, x
  <2> QED
    BY <2>2, <2>3, <2>4 DEF Parents
<1> HIDE DEF m, x
<1>8. /\ root \in Parents /\ right[root] \in Parents /\ root # right[root]
      /\ left[right[root]] = Null /\ right[right[root]] = Null
      /\ left[root] \in InUse \ Dummies
      /\ \A p \in Parents \ {root} : left[p] \notin Dummies /\ right[p] \notin Dummies
  BY <1>3 DEF GraphSound, DummiesApart
<1>9. m # right[root] /\ (m = root => updateable[m] = "left")
  BY <1>3, <1>4, <1>6, <1>8 DEF Dummies
<1>10. /\ Live' = Live /\ Linking' = Linking /\ InUse' = InUse /\ Parents' = Parents
       /\ \A n : Pending(n)' = Pending(n)
  <2>1. Live' = Live /\ Linking' = Linking
    BY <1>1 DEF Live, Linking
  <2> QED
    BY <1>1, <2>1 DEF InUse, Parents, Pending
<1>11. /\ \A p \in Address \ {m} : left'[p] = left[p] /\ right'[p] = right[p]
       /\ \/ left[m] = x /\ left'[m] = contractum /\ right'[m] = right[m]
          \/ right[m] = x /\ right'[m] = contractum /\ left'[m] = left[m] /\ m # root
  BY <1>1, <1>2, <1>7, <1>9 DEF HeapTypeOK
<1>12. \A p \in Parents : p \in Address
  BY <1>2 DEF NodeFacts
<1>13. \A n : Edges(n)' = Edges(n) + Bit(n = contractum) - Bit(n = x)
  <2> SUFFICES ASSUME NEW n PROVE Edges(n)' = Edges(n) + Bit(n = contractum) - Bit(n = x)
    OBVIOUS
  <2>1. Edges(n)' = Edges(n)
              + Bit(m \in Parents' /\ left'[m] = n) + Bit(m \in Parents' /\ right'[m] = n)
              - Bit(m \in Parents /\ left[m] = n) - Bit(m \in Parents /\ right[m] = n)
    <3>1. /\ Parents' \ {m} = Parents \ {m}
          /\ \A q \in Parents \ {m} : left'[q] = left[q] /\ right'[q] = right[q]
      BY <1>10, <1>11, <1>12
    <3> QED
      BY <1>2, <3>1, EdgesDiffer
  <2>2. Edges(n) \in Nat /\ Edges(n)' \in Nat
    BY <1>2 DEF NodeFacts
  <2>3. Edges(n)' = Edges(n) + Bit(left'[m] = n) + Bit(right'[m] = n)
                             - Bit(left[m] = n) - Bit(right[m] = n)
    BY <1>7, <1>10, <2>1 DEF Bit
  <2>4. CASE left[m] = x /\ left'[m] = contractum /\ right'[m] = right[m]
    BY <2>2, <2>3, <2>4 DEF Bit
  <2>5. CASE right[m] = x /\ right'[m] = contractum /\ left'[m] = left[m] /\ m # root
    BY <2>2, <2>3, <2>5 DEF Bit
  <2> QED
    BY <1>11, <2>4, <2>5
<1>14. /\ \A n \in Address : Holders[n] = Bit(n = root)
       /\ \A n \in Address : Holders'[n] = Bit(n = root) + Bit(n = x) - Bit(n = contractum)
  <2>1. RedexNode(stack)' = x
    BY <1>1 DEF x, RedexNode, PARENTNODE
  <2>2. \A n \in Address : Holders[n] = Bit(n = root)
    BY <1>1, <1>3 DEF Holders, Bit
  <2>3. \A n \in Address : Holders'[n] = Bit(n = root) + Bit(n = x) - Bit(n = contractum)
    BY <1>1, <1>3, <2>1 DEF Holders, Bit
  <2> QED
    BY <2>2, <2>3
<1>15. \A n \in Live : /\ refcnt[n] = Edges(n) + Pending(n) + Bit(n = root) /\ n \in Address
                       /\ Edges(n) \in Nat /\ Pending(n) \in Nat /\ Edges(n)' \in Nat
  BY <1>2, <1>14 DEF GraphSound, CountsExact, NodeFacts
<1>16. CountsExact(Holders)'
  <2> SUFFICES ASSUME NEW n \in Live
               PROVE  refcnt'[n] = Edges(n)' + Pending(n)' + Holders'[n]
    BY <1>10 DEF CountsExact
  <2> QED
    BY <1>1, <1>10, <1>13, <1>14, <1>15 DEF Bit
<1>17. ListInv'
  <2>1. \A i \in DOMAIN freeList : freeList[i] # m /\ freeList[i] \in Address
    <3>1. \A i \in DOMAIN freeList : freeList[i] \notin Live /\ freeList[i] \in Node
      BY <1>2 DEF Live, HeapTypeOK
    <3>2. m \in Live
      BY <1>2, <1>7 DEF NodeFacts
    <3> QED
      BY <1>2, <3>1, <3>2 DEF NodeFacts
  <2>2. FreeListChained'
    BY <1>1, <1>11, <2>1 DEF ListInv, FreeListChained
  <2> QED
    BY <1>1, <1>10, <2>2 DEF ListInv, LinksOnce, DeadUncounted
<1>18. Ordered(level, graph)'
  <2> SUFFICES ASSUME NEW p \in Parents, NEW c \in {left'[p], right'[p]} \ {Null}
               PROVE  c \in InUse /\ level[p] < level[c] /\ graph[p] = graph[c]
    BY <1>10 DEF Ordered
  <2>1. CASE c \in {left[p], right[p]}
    BY <2>1 DEF GraphSound, Ordered
  <2>2. CASE p = m /\ c = contractum
    BY <1>5, <1>7, <2>2
  <2> QED
    BY <1>11, <1>12, <2>1, <2>2
<1>19. CallsInUse' /\ NoGarbage'
  BY <1>1, <1>10 DEF GraphSound, CallsInUse, NoGarbage
<1>20. right'[root] = right[root] /\ Dummies' = Dummies
  BY <1>1, <1>8, <1>11, <1>12 DEF Dummies
<1>21. DummiesApart'
  <2>1. left'[right[root]] = Null /\ right'[right[root]] = Null
    BY <1>8, <1>9, <1>11, <1>12
  <2>2. left'[root] \in InUse \ Dummies
    BY <1>5, <1>8, <1>11, <1>12
  <2>3. \A p \in Parents \ {root} : left'[p] \notin Dummies /\ right'[p] \notin Dummies
    BY <1>5, <1>8, <1>11, <1>12
  <2> QED
    BY <1>1, <1>8, <1>10, <1>20, <2>1, <2>2, <2>3 DEF DummiesApart
<1>22. HollowOnly'
  <2> SUFFICES ASSUME NEW p \in Parents, left'[p] = Null \/ right'[p] = Null
               PROVE  p = right[root]
    BY <1>1, <1>3, <1>10, <1>20 DEF HollowOnly
  <2>1. contractum # Null
    BY <1>2, <1>5 DEF NodeFacts
  <2>2. left[p] = Null \/ right[p] = Null
    BY <1>11, <1>12, <2>1
  <2> QED
    BY <1>1, <2>2 DEF GraphSound, HollowOnly
<1>23. ValuesSound(graph)'
  BY <1>1, <1>3, <1>10 DEF GraphSound, ValuesSound
<1>24. StackSound(level, graph)'
  <2>1. \A i \in 1..j : i \in 1..k
    BY <1>3, <1>6
  <2>2. \A i \in 1..j - 1 : LeadsOn(stack[i], stack[i + 1])'
    <3> SUFFICES ASSUME NEW i \in 1..j - 1 PROVE LeadsOn(stack[i], stack[i + 1])'
      OBVIOUS
    <3>1. i \in 1..k - 1 /\ i \in 1..k /\ i < j
      BY <1>3, <1>6
    <3>2. stack[i].node \in InUse /\ LeadsOn(stack[i], stack[i + 1])
          /\ level[stack[i].node] < level[m]
      BY <1>3, <1>4, <1>6, <3>1
    <3>3. stack[i].node \in Address
      BY <1>2, <3>2 DEF NodeFacts
    <3>4. stack[i].node # m
      <4>1. level[m] \in Nat
        BY <1>7
      <4> QED
        BY <3>2, <4>1
    <3> QED
      BY <1>1, <1>11, <3>2, <3>3, <3>4 DEF LeadsOn
  <2> QED
    BY <1>1, <1>3, <1>4, <1>10, <1>20, <2>1, <2>2 DEF StackSound
<1>25. ContractumSound(level, graph)'
  <2>1. RedexNode(stack)' = x
    BY <1>1 DEF x, RedexNode, PARENTNODE
  <2>2. contractum \in Live
    BY <1>2, <1>5 DEF NodeFacts
  <2>3. refcnt[contractum] >= 0
    BY <1>15, <2>2 DEF Bit
  <2> QED
    BY <1>1, <1>5, <1>7, <1>10, <2>1, <2>3 DEF ContractumSound
<1> QED
  BY <1>1, <1>16, <1>17, <1>18, <1>19, <1>21, <1>22, <1>23, <1>24, <1>25
  DEF GraphSound, WalkSound, DirSound

\* Counting the contractum's reference and calling free_node on the redex.
LEMMA CountSound ==
    ASSUME IInv, IInv', Control, ListInv,
           NEW level \in [Address -> Nat], NEW graph \in [Address -> Nat],
           GraphSound(level, graph), WalkSound(level, graph), CountContractum
    PROVE  ListInv' /\ GraphSound(level, graph)' /\ WalkSound(level, graph)'
<1> DEFINE x == RedexNode(stack)
           c == contractum
<1>1. /\ pc = "incref" /\ pc' = "freeing" /\ todo' = FreeCall(x) /\ todo = <<>>
      /\ refcnt' = [refcnt EXCEPT ![c] = @ + 1]
      /\ UNCHANGED <<label, left, right, updateable, allocated, freeList, values, root, stack,
                     pop_stack_cnt>>
  BY DEF CountContractum, ContractumCounted, Control, parser, walk, statement
<1>2. HeapTypeOK /\ HeapTypeOK' /\ NodeFacts /\ NodeFacts'
  BY NodeFactsHold, NodeFactsLater DEF IInv, TypeOK
<1>3. c \in InUse /\ refcnt[c] >= 0 /\ x \in InUse
  BY <1>1 DEF WalkSound, ContractumSound
<1>4. c \in Address /\ x \in Address /\ c \in Live /\ x \in Live
  BY <1>2, <1>3 DEF NodeFacts
<1>5. Underway /\ Underway'
  BY <1>1 DEF Underway, Reducing
<1>6. /\ Linking = {} /\ Linking' = {} /\ Live' = Live
  BY <1>1 DEF Linking, Live, FreeCall
<1>7. InUse' = InUse /\ Parents' = Parents
  BY <1>1, <1>6 DEF InUse, Parents
<1>8. \A n : Edges(n)' = Edges(n)
  BY <1>1, <1>7 DEF Edges
<1>9. \A n : Pending(n) = 0 /\ Pending(n)' = Bit(n = x)
  <2> SUFFICES ASSUME NEW n PROVE Pending(n) = 0 /\ Pending(n)' = Bit(n = x)
    OBVIOUS
  <2>1. Pending(n) = 0
    BY <1>1, <1>2 DEF NodeFacts
  <2>2. Pending(n)' = Occurs(todo', FreeTask(n))
    BY DEF Pending, Occurs, FreeTask
  <2>3. todo' = <<FreeTask(x)>> /\ (FreeTask(x) = FreeTask(n) <=> n = x)
    BY <1>1 DEF FreeCall, FreeTask
  <2>4. Occurs(<<FreeTask(x)>>, FreeTask(n)) = Bit(FreeTask(x) = FreeTask(n))
    BY OccursOnce
  <2> QED
    BY <2>1, <2>2, <2>3, <2>4 DEF Bit
<1> HIDE DEF x, c
<1>10. /\ \A n \in Address : Holders[n] = Bit(n = root) + Bit(n = x) - Bit(n = c)
       /\ \A n \in Address : Holders'[n] = Bit(n = root)
  BY <1>1, <1>5 DEF Holders, Bit, x, c
<1>11. \A n \in Address : refcnt'[n] = refcnt[n] + Bit(n = c) /\ refcnt[n] \in Int
  BY <1>1, <1>2 DEF HeapTypeOK, Bit
<1>12. \A n \in Live : n \in Address /\ Edges(n) \in Nat
         /\ refcnt[n] = Edges(n) + Pending(n) + Bit(n = root) + Bit(n = x) - Bit(n = c)
  <2> SUFFICES ASSUME NEW n \in Live
               PROVE  n \in Address /\ Edges(n) \in Nat
                      /\ refcnt[n] = Edges(n) + Pending(n) + Bit(n = root) + Bit(n = x) - Bit(n = c)
    OBVIOUS
  <2>1. /\ n \in Address /\ Edges(n) \in Nat /\ refcnt[n] = Edges(n) + Pending(n) + Holders[n]
    BY <1>2 DEF NodeFacts, GraphSound, CountsExact
  <2> QED
    BY <1>9, <1>10, <2>1 DEF Bit
<1>13. CountsExact(Holders)'
  <2> SUFFICES ASSUME NEW n \in Live
               PROVE  refcnt'[n] = Edges(n)' + Pending(n)' + Holders'[n]
    BY <1>6 DEF CountsExact
  <2> QED
    BY <1>8, <1>9, <1>10, <1>11, <1>12 DEF Bit
<1>14. ListInv'
  <2>1. FreeListChained'
    BY <1>1 DEF ListInv, FreeListChained
  <2>2. LinksOnce'
    BY <1>1 DEF LinksOnce, FreeCall
  <2>3. \A n \in Node \ InUse : refcnt'[n] = refcnt[n]
    BY <1>2, <1>3, <1>11 DEF Bit, NodeFacts
  <2>4. DeadUncounted'
    BY <1>7, <2>3 DEF ListInv, DeadUncounted
  <2> QED
    BY <2>1, <2>2, <2>4 DEF ListInv
<1>15. Ordered(level, graph)'
  BY <1>1, <1>7 DEF GraphSound, Ordered
<1>16. CallsInUse'
  BY <1>1, <1>3, <1>7 DEF CallsInUse, FreeCall
<1>17. NoGarbage'
  <2> SUFFICES ASSUME NEW n \in InUse, refcnt'[n] = 0
               PROVE  \E i \in DOMAIN values : values[i] = n
    BY <1>1, <1>7 DEF NoGarbage
  <2>1. n \in Address
    BY <1>2 DEF NodeFacts
  <2>2. n # c /\ refcnt[n] = 0
    BY <1>3, <1>11, <2>1 DEF Bit
  <2> QED
    BY <2>2 DEF GraphSound, NoGarbage, c
<1>18. DummiesApart' /\ HollowOnly'
  <2>1. DummiesApart'
    BY <1>1, <1>5, <1>7 DEF GraphSound, DummiesApart, Dummies
  <2>2. HollowOnly'
    BY <1>1, <1>5, <1>7 DEF GraphSound, HollowOnly
  <2> QED
    BY <2>1, <2>2
<1>19. ValuesSound(graph)'
  <2>1. \A i \in DOMAIN values : values[i] \in InUse /\ refcnt'[values[i]] = 0
    <3> SUFFICES ASSUME NEW i \in DOMAIN values PROVE values[i] \in InUse /\ refcnt'[values[i]] = 0
      OBVIOUS
    <3>1. values[i] \in InUse /\ refcnt[values[i]] = 0 /\ graph[values[i]] = i
      BY DEF GraphSound, ValuesSound
    <3>2. values[i] # c
      <4>1. graph[c] = Len(values) + 1
        BY <1>1, <1>5 DEF GraphSound, ValuesSound, WalkSound, ContractumSound, c
      <4>2. Len(values) \in Nat /\ i \in 1..Len(values)
        BY LenProperties DEF IInv, TypeOK
      <4> QED
        BY <3>1, <4>1, <4>2
    <3> QED
      BY <1>2, <1>11, <3>1, <3>2 DEF Bit, NodeFacts
  <2> QED
    BY <1>1, <1>5, <1>7, <2>1 DEF GraphSound, ValuesSound
<1>20. StackSound(level, graph)'
  BY <1>1, <1>7 DEF WalkSound, StackSound, LeadsOn, Dummies, Kept, Reducing
<1> QED
  BY <1>1, <1>13, <1>14, <1>15, <1>16, <1>17, <1>18, <1>19, <1>20
  DEF GraphSound, WalkSound, ContractumSound, DirSound

-----------------------------------------------------------------------------
\* New cells above nodes in use, as the reducer's callers see them.
LEMMA Built ==
    ASSUME HeapTypeOK, HeapTypeOK', ListInv, todo = <<>>,
           NEW level, NEW graph, Ordered(level, graph),
           NEW cells \in Seq(Cell), NewNodes(cells),
           \A i \in DOMAIN cells :
              /\ {cells[i].left, cells[i].right} \subseteq Live \cup New(cells) \cup {Null}
              /\ cells[i].label # App => cells[i].left = Null /\ cells[i].right = Null,
           \A n \in Node \ (Live \cup New(cells)) : refcnt'[n] = Counted(cells)[n]
    PROVE  /\ ListInv' /\ todo' = <<>>
           /\ New(cells) \subseteq Node /\ New(cells) \cap Live = {} /\ InUse = Live
           /\ Live' = Live \cup New(cells) /\ InUse' = Live \cup New(cells)
           /\ \A i \in DOMAIN cells :
                 /\ Fresh(i) \in New(cells) /\ label'[Fresh(i)] = cells[i].label
                 /\ left'[Fresh(i)] = cells[i].left /\ right'[Fresh(i)] = cells[i].right
           /\ \A i, j \in DOMAIN cells : Fresh(i) = Fresh(j) => i = j
           /\ \A n \in Live : /\ label'[n] = label[n] /\ left'[n] = left[n] /\ right'[n] = right[n]
                              /\ n \in Parents' <=> n \in Parents
           /\ \A p \in Parents' \ Parents :
                 \E i \in DOMAIN cells : p = Fresh(i) /\ cells[i].label = App
           /\ \A i \in DOMAIN cells : Fresh(i) \in Parents' <=> cells[i].label = App
           /\ \A n \in Node : Edges(n)' = (IF n \in New(cells) THEN 0 ELSE Edges(n)) + Mentions(cells, n)
           /\ \A n : Pending(n) = 0 /\ Pending(n)' = 0
           /\ \A n \in Address : Counted(cells)[n] = (IF n \in New(cells) THEN 0 ELSE refcnt[n])
                                                      + Mentions(cells, n)
           /\ \A n : Mentions(cells, n) \in Nat
           /\ \A n : Mentions(cells, n) = 0
                       <=> \A i \in DOMAIN cells : cells[i].left # n /\ cells[i].right # n
<1>1. FreeListChained
  BY DEF ListInv
<1>2. /\ New(cells) \subseteq Node /\ New(cells) \cap Live = {}
      /\ \A i, j \in DOMAIN cells : Fresh(i) = Fresh(j) => i = j
      /\ \A i \in DOMAIN cells :
            /\ Fresh(i) \in New(cells) /\ cells[i] \in Cell
            /\ label'[Fresh(i)] = cells[i].label /\ left'[Fresh(i)] = cells[i].left
            /\ right'[Fresh(i)] = cells[i].right
      /\ \A n \in Address \ New(cells) :
            label'[n] = label[n] /\ left'[n] = left[n] /\ right'[n] = right[n]
  BY <1>1, NewNodesFields
<1>3. /\ ListInv' /\ todo' = <<>>
      /\ InUse = Live /\ Live' = Live \cup New(cells) /\ InUse' = InUse \cup New(cells)
      /\ Parents' = Parents \cup {Fresh(i) : i \in {j \in DOMAIN cells : cells[j].label = App}}
      /\ \A n \in Node : Edges(n)' = Edges(n) + Mentions(cells, n)
      /\ \A n : Pending(n) = 0 /\ Pending(n)' = 0
      /\ \A n \in Address : Counted(cells)[n] = (IF n \in New(cells) THEN 0 ELSE refcnt[n])
                                                 + Mentions(cells, n)
      /\ \A n : Mentions(cells, n) \in Nat
      /\ \A n : Mentions(cells, n) = 0
                  <=> \A i \in DOMAIN cells : cells[i].left # n /\ cells[i].right # n
  BY NewNodesGraph
<1>4. NodeFacts
  BY NodeFactsHold
<1>5. \A n \in New(cells) : Edges(n) = 0
  BY <1>2, <1>3, <1>4 DEF NodeFacts, Ordered
<1>6. \A n \in Live : /\ label'[n] = label[n] /\ left'[n] = left[n] /\ right'[n] = right[n]
                      /\ n \in Parents' <=> n \in Parents
  <2>1. \A n \in Live : n \in Address /\ n \notin New(cells)
    BY <1>2, <1>4 DEF NodeFacts
  <2> QED
    BY <1>2, <1>3, <2>1
<1>7. \A p \in Parents' \ Parents : \E i \in DOMAIN cells : p = Fresh(i) /\ cells[i].label = App
  BY <1>3
<1>8. \A i \in DOMAIN cells : Fresh(i) \in Parents' <=> cells[i].label = App
  <2>1. \A i \in DOMAIN cells : Fresh(i) \notin Parents
    BY <1>2, <1>4 DEF NodeFacts
  <2> QED
    BY <1>2, <1>3, <2>1
<1> QED
  BY <1>2, <1>3, <1>5, <1>6, <1>7, <1>8

-----------------------------------------------------------------------------
\* The cell is an atom, or takes the parser's values after the first m.
TakesAfter(cell, m) ==
    \/ m = Len(values) /\ cell.label # App /\ cell.left = Null /\ cell.right = Null
    \/ /\ m + 2 = Len(values) /\ cell.label = App
       /\ cell.left = values[m + 1] /\ cell.right = values[m + 2]

\* The parser's new node, alone or above the last two values.
LEMMA ParseNodeSound ==
    ASSUME IInv, IInv', ListInv, NEW level \in [Address -> Nat], NEW graph \in [Address -> Nat],
           GraphSound(level, graph), Parsing, NEW cell \in Cell, NEW m \in Nat, m <= Len(values),
           ParseNode(cell, SubSeq(values, 1, m)),
           TakesAfter(cell, m)
    PROVE  /\ ListInv'
           /\ \E l, g \in [Address -> Nat] : GraphSound(l, g)' /\ WalkSound(l, g)'
<1> DEFINE cells == <<cell>>
<1>1. /\ pc = "parsing" /\ pc' = "parsing" /\ todo = <<>> /\ NewNodes(cells)
      /\ refcnt' = Counted(cells) /\ values' = Append(SubSeq(values, 1, m), Fresh(1))
      /\ UNCHANGED root
  BY DEF Parsing, ParseNode, statement
<1>2. /\ cells \in Seq(Cell) /\ DOMAIN cells = {1} /\ cells[1] = cell
  OBVIOUS
<1>3. /\ values \in Seq(Address) /\ Len(values) \in Nat /\ DOMAIN values = 1..Len(values)
      /\ m \in Nat /\ m <= Len(values) /\ m + 1 \in Nat /\ m + 2 \in Nat
      /\ HeapTypeOK /\ HeapTypeOK' /\ NodeFacts /\ ~Underway /\ ~Underway'
  <2>1. values \in Seq(Address) /\ HeapTypeOK /\ HeapTypeOK'
    BY DEF IInv, TypeOK
  <2> QED
    BY <1>1, <2>1, LenProperties, NodeFactsHold DEF Underway, Reducing
<1>4. \A i \in 1..Len(values) : values[i] \in InUse /\ refcnt[values[i]] = 0 /\ graph[values[i]] = i
  BY <1>3 DEF GraphSound, ValuesSound
\* the children of the new node
<1>5. /\ \A c \in {cell.left, cell.right} \ {Null} :
            c \in InUse /\ c \in Address /\ graph[c] > m /\ graph[c] \in Nat
      /\ \A i \in m + 1..Len(values) : values[i] \in {cell.left, cell.right}
      /\ cell.label = App => cell.left # Null /\ cell.right # Null
      /\ cell.label # App => cell.left = Null /\ cell.right = Null
  <2>1. CASE /\ m = Len(values) /\ cell.label # App /\ cell.left = Null /\ cell.right = Null
    BY <1>3, <2>1
  <2>2. CASE /\ m + 2 = Len(values) /\ cell.label = App
             /\ cell.left = values[m + 1] /\ cell.right = values[m + 2]
    <3>1. m + 1 \in 1..Len(values) /\ m + 2 \in 1..Len(values)
          /\ \A i \in m + 1..Len(values) : i = m + 1 \/ i = m + 2
      BY <1>3, <2>2
    <3>2. /\ cell.left \in InUse /\ graph[cell.left] = m + 1
          /\ cell.right \in InUse /\ graph[cell.right] = m + 2
      BY <1>4, <2>2, <3>1
    <3>3. \A c \in {cell.left, cell.right} : c \in InUse /\ c \in Address /\ c # Null
      BY <1>3, <3>2 DEF NodeFacts
    <3>4. graph[cell.left] > m /\ graph[cell.right] > m
      BY <1>3, <3>2
    <3>5. \A i \in m + 1..Len(values) : values[i] \in {cell.left, cell.right}
      BY <2>2, <3>1
    <3> QED
      BY <2>2, <3>3, <3>4, <3>5
  <2> QED
    BY <2>1, <2>2 DEF TakesAfter
<1>6. /\ \A i \in DOMAIN cells :
            /\ {cells[i].left, cells[i].right} \subseteq Live \cup New(cells) \cup {Null}
            /\ cells[i].label # App => cells[i].left = Null /\ cells[i].right = Null
      /\ \A n \in Node \ (Live \cup New(cells)) : refcnt'[n] = Counted(cells)[n]
  <2>1. {cell.left, cell.right} \subseteq Live \cup {Null}
    BY <1>3, <1>5 DEF NodeFacts
  <2> HIDE DEF cells
  <2> QED
    BY <1>1, <1>2, <1>5, <2>1
<1> HIDE DEF cells
<1>7. /\ ListInv' /\ todo' = <<>>
      /\ New(cells) \subseteq Node /\ New(cells) \cap Live = {} /\ InUse = Live
      /\ Live' = Live \cup New(cells) /\ InUse' = Live \cup New(cells)
      /\ \A i \in DOMAIN cells :
            /\ Fresh(i) \in New(cells) /\ label'[Fresh(i)] = cells[i].label
            /\ left'[Fresh(i)] = cells[i].left /\ right'[Fresh(i)] = cells[i].right
      /\ \A n \in Live : /\ label'[n] = label[n] /\ left'[n] = left[n] /\ right'[n] = right[n]
                         /\ n \in Parents' <=> n \in Parents
      /\ \A p \in Parents' \ Parents :
            \E i \in DOMAIN cells : p = Fresh(i) /\ cells[i].label = App
      /\ \A n \in Node : Edges(n)' = (IF n \in New(cells) THEN 0 ELSE Edges(n)) + Mentions(cells, n)
      /\ \A n : Pending(n) = 0 /\ Pending(n)' = 0
      /\ \A n \in Address : Counted(cells)[n] = (IF n \in New(cells) THEN 0 ELSE refcnt[n])
                                                 + Mentions(cells, n)
      /\ \A n : Mentions(cells, n) \in Nat
      /\ \A n : Mentions(cells, n) = 0
                  <=> \A i \in DOMAIN cells : cells[i].left # n /\ cells[i].right # n
  <2>1. Ordered(level, graph)
    BY DEF GraphSound
  <2> QED
    BY <1>1, <1>2, <1>3, <1>6, <2>1, Built
<1>30. PICK new \in Node : new = Fresh(1)
  BY <1>2, <1>7
<1>31. values' = Append(SubSeq(values, 1, m), new)
  BY <1>1, <1>30
<1>8. /\ New(cells) = {new} /\ new \in Node /\ new \notin Live /\ new \in Address /\ new # Null
      /\ left'[new] = cell.left /\ right'[new] = cell.right
      /\ \A p \in Parents' : p \in Parents \/ (p = new /\ cell.label = App)
      /\ \A n : Mentions(cells, n) = 0 <=> cell.left # n /\ cell.right # n
  <2>1. New(cells) = {new}
    BY <1>2, <1>30 DEF New
  <2>2. new # Null
    BY MaxNodeAssumption DEF Node, Null
  <2> QED
    BY <1>2, <1>3, <1>7, <1>30, <2>1, <2>2 DEF Address
<1>9. \A p \in Parents : p \in Live /\ p \in Address /\ left'[p] = left[p] /\ right'[p] = right[p]
                         /\ left[p] # Null /\ right[p] # Null
  <2>1. \A p : ~Doomed(p)
    BY <1>7 DEF Doomed
  <2>2. \A p \in Parents : left[p] # Null /\ right[p] # Null
    BY <1>1, <1>3, <2>1 DEF GraphSound, HollowOnly
  <2> QED
    BY <1>3, <1>7, <2>2 DEF NodeFacts
<1>10. /\ [n \in Address |-> IF n = new THEN 0 ELSE level[n] + 1] \in [Address -> Nat]
       /\ [n \in Address |-> IF n = new \/ graph[n] > m THEN m + 1 ELSE graph[n]] \in [Address -> Nat]
  BY <1>3
<1>32. PICK l \in [Address -> Nat] : l = [n \in Address |-> IF n = new THEN 0 ELSE level[n] + 1]
  BY <1>10
<1>33. PICK g \in [Address -> Nat] :
          g = [n \in Address |-> IF n = new \/ graph[n] > m THEN m + 1 ELSE graph[n]]
  BY <1>10
<1>11. /\ \A n \in Address : n # new => l[n] = level[n] + 1
       /\ l[new] = 0
       /\ \A n \in Address : n # new /\ graph[n] <= m => g[n] = graph[n]
       /\ \A n \in Address : n # new /\ graph[n] > m => g[n] = m + 1
       /\ g[new] = m + 1
       /\ \A n \in Address : level[n] \in Nat /\ graph[n] \in Nat
  BY <1>3, <1>8, <1>32, <1>33
<1>12. CountsExact(Holders)'
  <2>1. \A n \in Address : Holders[n] = 0 /\ Holders'[n] = 0
    BY <1>1, <1>3 DEF Holders, Bit
  <2> SUFFICES ASSUME NEW n \in Live'
               PROVE  refcnt'[n] = Edges(n)' + Pending(n)' + Holders'[n]
    BY DEF CountsExact
  <2>2. n \in Node /\ n \in Address
    BY <1>3, <1>7 DEF NodeFacts
  <2>3. refcnt'[n] = (IF n \in New(cells) THEN 0 ELSE refcnt[n]) + Mentions(cells, n)
    BY <1>1, <1>7, <2>2
  <2>4. n \notin New(cells) => refcnt[n] = Edges(n) + 0 + 0
    BY <1>7, <2>1, <2>2 DEF GraphSound, CountsExact
  <2>5. Edges(n) \in Nat /\ Mentions(cells, n) \in Nat
    BY <1>3, <1>7 DEF NodeFacts
  <2> QED
    BY <1>7, <2>1, <2>2, <2>3, <2>4, <2>5
<1>13. Ordered(l, g)'
  <2> SUFFICES ASSUME NEW p \in Parents', NEW c \in {left'[p], right'[p]} \ {Null}
               PROVE  c \in InUse' /\ l[p] < l[c] /\ g[p] = g[c]
    BY DEF Ordered
  <2>1. CASE p \in Parents
    <3>1. c \in InUse /\ level[p] < level[c] /\ graph[p] = graph[c]
      BY <1>9, <2>1 DEF GraphSound, Ordered
    <3>2. c \in Address /\ p \in Address /\ c # new /\ p # new
      BY <1>3, <1>7, <1>8, <1>9, <2>1, <3>1 DEF NodeFacts
    <3>3. l[p] < l[c]
      BY <1>11, <3>1, <3>2
    <3>4. g[p] = g[c]
      <4>1. CASE graph[p] <= m
        BY <1>11, <3>1, <3>2, <4>1
      <4>2. CASE graph[p] > m
        BY <1>11, <3>1, <3>2, <4>2
      <4>3. graph[p] <= m \/ graph[p] > m
        BY <1>3, <1>11, <3>2
      <4> QED
        BY <4>1, <4>2, <4>3
    <3> QED
      BY <1>7, <3>1, <3>3, <3>4
  <2>2. CASE p = new
    <3>1. c \in InUse /\ c \in Address /\ graph[c] > m /\ c # new
      BY <1>5, <1>7, <1>8, <2>2
    <3> QED
      BY <1>3, <1>7, <1>11, <2>2, <3>1
  <2> QED
    BY <1>8, <2>1, <2>2
<1>14. CallsInUse'
  BY <1>7 DEF CallsInUse
<1>15. /\ DOMAIN values' = 1..m + 1 /\ Len(values') = m + 1 /\ values'[m + 1] = new
       /\ \A i \in 1..m : values'[i] = values[i] /\ i \in 1..Len(values)
  <2>1. /\ SubSeq(values, 1, m) \in Seq(Address) /\ Len(SubSeq(values, 1, m)) = m
        /\ \A i \in 1..m : SubSeq(values, 1, m)[i] = values[i]
    <3>1. m \in 0..Len(values) /\ values \in Seq(Address)
      BY <1>3
    <3> QED
      BY <3>1, Prefix
  <2>2. \A i \in 1..m : i \in 1..Len(values)
    BY <1>3
  <2> DEFINE s == SubSeq(values, 1, m)
  <2>3. s \in Seq(Address) /\ Len(s) = m /\ (\A i \in 1..m : s[i] = values[i]) /\ values' = Append(s, new)
    BY <1>31, <2>1
  <2> HIDE DEF s
  <2>4. /\ Append(s, new) \in Seq(Address) /\ Len(Append(s, new)) = Len(s) + 1
        /\ \A i \in 1..Len(s) : Append(s, new)[i] = s[i]
        /\ Append(s, new)[Len(s) + 1] = new
    BY <1>8, <2>3, AppendProperties
  <2> QED
    BY <2>2, <2>3, <2>4, LenProperties
<1>16. NoGarbage'
  <2> SUFFICES ASSUME NEW n \in InUse', refcnt'[n] = 0
               PROVE  \E i \in DOMAIN values' : values'[i] = n
    BY DEF NoGarbage
  <2>1. CASE n = new
    <3>1. m + 1 \in DOMAIN values'
      BY <1>3, <1>15
    <3> QED
      BY <1>15, <2>1, <3>1
  <2>2. CASE n # new
    <3>1. n \in Live /\ n \in InUse /\ n \in Address
      BY <1>3, <1>7, <1>8, <2>2 DEF NodeFacts
    <3>2. refcnt[n] \in Nat
      <4>1. refcnt[n] = Edges(n) + 0 + 0 /\ Edges(n) \in Nat
        BY <1>1, <1>3, <1>7, <3>1 DEF GraphSound, CountsExact, NodeFacts, Holders, Bit
      <4> QED
        BY <4>1
    <3>3. refcnt[n] = 0 /\ Mentions(cells, n) = 0
      <4>1. refcnt'[n] = refcnt[n] + Mentions(cells, n) /\ Mentions(cells, n) \in Nat
        BY <1>1, <1>7, <1>8, <2>2, <3>1
      <4> QED
        BY <3>2, <4>1
    <3>4. PICK i \in DOMAIN values : values[i] = n
      BY <1>1, <3>1, <3>3 DEF GraphSound, NoGarbage
    <3>5. i \notin m + 1..Len(values)
      BY <1>5, <1>8, <3>3, <3>4
    <3>6. i \in 1..m
      BY <1>3, <3>5
    <3>7. i \in DOMAIN values' /\ values'[i] = n
      BY <1>3, <1>15, <3>4, <3>6
    <3> QED
      BY <3>7
  <2> QED
    BY <2>1, <2>2
<1>17. DummiesApart'
  BY <1>3 DEF DummiesApart
<1>18. HollowOnly'
  <2> SUFFICES ASSUME NEW p \in Parents' PROVE left'[p] # Null /\ right'[p] # Null
    BY DEF HollowOnly
  <2> QED
    BY <1>5, <1>8, <1>9
<1>19. ValuesSound(g)'
  <2> SUFFICES ASSUME NEW i \in 1..m + 1
               PROVE  values'[i] \in InUse' /\ refcnt'[values'[i]] = 0 /\ g[values'[i]] = i
    BY <1>3, <1>15 DEF ValuesSound
  <2>1. CASE i = m + 1
    <3>1. Mentions(cells, new) = 0
      BY <1>3, <1>5, <1>7, <1>8 DEF NodeFacts
    <3>2. refcnt'[new] = 0
      <4>1. Counted(cells)[new] = 0 + Mentions(cells, new)
        BY <1>7, <1>8
      <4> QED
        BY <1>1, <3>1, <4>1
    <3> QED
      BY <1>7, <1>8, <1>11, <1>15, <2>1, <3>2
  <2>2. CASE i \in 1..m
    <3>1. /\ values'[i] = values[i] /\ values[i] \in InUse /\ refcnt[values[i]] = 0
          /\ graph[values[i]] = i
      BY <1>4, <1>15, <2>2
    <3>2. values[i] \in Address /\ values[i] # new /\ values[i] \in Live
      BY <1>3, <1>7, <1>8, <3>1 DEF NodeFacts
    <3>3. Mentions(cells, values[i]) = 0
      <4>1. values[i] # Null
        BY <1>3, <3>1 DEF NodeFacts
      <4>2. ~(i > m)
        BY <1>3, <2>2
      <4> QED
        BY <1>5, <1>8, <3>1, <4>1, <4>2
    <3>4. refcnt'[values[i]] = 0
      <4>1. Counted(cells)[values[i]] = refcnt[values[i]] + Mentions(cells, values[i])
        BY <1>7, <1>8, <3>2
      <4> QED
        BY <1>1, <3>1, <3>3, <4>1
    <3>5. g[values[i]] = i
      BY <1>3, <1>11, <2>2, <3>1, <3>2
    <3> QED
      BY <1>7, <3>1, <3>2, <3>4, <3>5
  <2> QED
    BY <1>3, <2>1, <2>2
<1>20. GraphSound(l, g)'
  BY <1>12, <1>13, <1>14, <1>16, <1>17, <1>18, <1>19 DEF GraphSound
<1>21. WalkSound(l, g)'
  BY <1>1 DEF WalkSound, StackSound, ContractumSound, DirSound, Reducing
<1> QED
  BY <1>7, <1>10, <1>20, <1>21

\* new_term and new_application.
LEMMA ParseSound ==
    ASSUME IInv, IInv', ListInv, NEW level \in [Address -> Nat], NEW graph \in [Address -> Nat],
           GraphSound(level, graph), ParseTerm \/ ParseApplication
    PROVE  /\ ListInv'
           /\ \E l, g \in [Address -> Nat] : GraphSound(l, g)' /\ WalkSound(l, g)'
<1>1. values \in Seq(Address) /\ Len(values) \in Nat /\ typed \in Seq(Label \cup {Reduce})
  BY LenProperties DEF IInv, TypeOK
<1>2. CASE ParseTerm
  <2> DEFINE cell == [label |-> Head(typed), left |-> Null, right |-> Null]
  <2>1. /\ Parsing /\ Head(typed) \in Combinators \cup Variables /\ ParseNode(cell, values)
    BY <1>2 DEF ParseTerm
  <2>2. cell \in Cell /\ cell.label # App /\ cell.left = Null /\ cell.right = Null
    BY <2>1, RulesAssumption DEF Cell, Label, Address
  <2>3. SubSeq(values, 1, Len(values)) = values
    BY <1>1, SubSeqFull
  <2>4. TakesAfter(cell, Len(values))
    BY <2>2 DEF TakesAfter
  <2> HIDE DEF cell
  <2>5. PICK c \in Cell, m \in Nat : c = cell /\ m = Len(values)
    BY <1>1, <2>2
  <2>6. Parsing /\ ParseNode(c, SubSeq(values, 1, m)) /\ m <= Len(values) /\ TakesAfter(c, m)
    <3>1. SubSeq(values, 1, m) = values
      BY <2>3, <2>5
    <3>2. Parsing /\ ParseNode(c, SubSeq(values, 1, m))
      BY <2>1, <2>5, <3>1
    <3>3. m <= Len(values)
      BY <1>1, <2>5
    <3>4. TakesAfter(c, m)
      BY <2>4, <2>5
    <3> QED
      BY <3>2, <3>3, <3>4
  <2> QED
    BY <2>6, ParseNodeSound
<1>3. CASE ParseApplication
  <2> DEFINE k == Len(values)
             cell == [label |-> App, left |-> values[k - 1], right |-> values[k]]
             m == k - 2
  <2>1. /\ Parsing /\ k >= 2 /\ ParseNode(cell, SubSeq(values, 1, m))
    BY <1>3 DEF ParseApplication
  <2>2. k - 1 \in 1..k /\ k \in 1..k /\ m \in Nat /\ m <= k /\ m + 2 = k /\ m + 1 = k - 1
    BY <1>1, <2>1
  <2>3. values[k - 1] \in Address /\ values[k] \in Address
    BY <1>1, <2>2, ElementOfSeq
  <2>4. /\ cell \in Cell /\ cell.label = App /\ cell.left = values[m + 1] /\ cell.right = values[m + 2]
    <3> HIDE DEF k, m
    <3> QED
      BY <2>2, <2>3 DEF Cell, Label
  <2> HIDE DEF cell, m
  <2>5. TakesAfter(cell, m)
    BY <2>2, <2>4 DEF TakesAfter
  <2>6. PICK c \in Cell, n \in Nat : c = cell /\ n = m
    BY <2>2, <2>4
  <2>7. Parsing /\ ParseNode(c, SubSeq(values, 1, n)) /\ n <= Len(values) /\ TakesAfter(c, n)
    BY <2>1, <2>2, <2>5, <2>6
  <2> QED
    BY <2>7, ParseNodeSound
<1> QED
  BY <1>2, <1>3

-----------------------------------------------------------------------------
\* reduce_tree puts two new nodes above the last value.
LEMMA StartReductionSound ==
    ASSUME IInv, IInv', ListInv, NEW level \in [Address -> Nat], NEW graph \in [Address -> Nat],
           GraphSound(level, graph), StartReduction
    PROVE  /\ ListInv'
           /\ \E l, g \in [Address -> Nat] : GraphSound(l, g)' /\ WalkSound(l, g)'
<1> DEFINE cells == << [label |-> App, left |-> Null, right |-> Null],
                       [label |-> App, left |-> values[Len(values)], right |-> Fresh(1)] >>
<1>1. /\ pc = "parsing" /\ pc' = "loop" /\ todo = <<>> /\ values # <<>> /\ NewNodes(cells)
      /\ refcnt' = [Counted(cells) EXCEPT ![Fresh(2)] = @ + 1]
      /\ updateable' = [Cleared(cells) EXCEPT ![Fresh(2)] = "left"]
      /\ values' = SubSeq(values, 1, Len(values) - 1) /\ root' = Fresh(2)
      /\ stack' = << [node |-> Fresh(2), depth |-> 1] >> /\ dir' = "left"
  BY DEF StartReduction, Parsing
<1>2. /\ values \in Seq(Address) /\ Len(values) \in Nat \ {0} /\ DOMAIN values = 1..Len(values)
      /\ HeapTypeOK /\ HeapTypeOK' /\ NodeFacts /\ ~Underway /\ Underway'
  <2>1. values \in Seq(Address) /\ HeapTypeOK /\ HeapTypeOK'
    BY DEF IInv, TypeOK
  <2> QED
    BY <1>1, <2>1, LenProperties, EmptySeq, NodeFactsHold DEF Underway, Reducing
<1>3. PICK k \in Nat \ {0} : k = Len(values)
  BY <1>2
<1>4. \A i \in 1..k : values[i] \in InUse /\ refcnt[values[i]] = 0 /\ graph[values[i]] = i
  BY <1>2, <1>3 DEF GraphSound, ValuesSound
<1>5. PICK v \in Node : v = values[k] /\ v \in Live /\ v \in InUse /\ graph[v] = k /\ refcnt[v] = 0
  <2>1. k \in 1..k
    OBVIOUS
  <2> QED
    BY <1>2, <1>4, <2>1 DEF NodeFacts
<1>6. PICK F1 \in Node, F2 \in Node : F1 = Fresh(1) /\ F2 = Fresh(2)
  <2>1. CanAllocate(2)
    BY <1>1 DEF NewNodes
  <2> QED
    BY <1>2, <2>1, FreshNodes DEF ListInv
<1>7. F1 \notin Live /\ F2 \notin Live /\ F1 # F2
  <2>1. CanAllocate(2)
    BY <1>1 DEF NewNodes
  <2>2. \A i, j \in 1..2 : Fresh(i) = Fresh(j) => i = j
    BY <1>2, <2>1, FreshNodes DEF ListInv
  <2>3. \A i \in 1..2 : Fresh(i) \notin Live
    BY <1>2, <2>1, FreshNodes DEF ListInv
  <2> QED
    BY <1>6, <2>2, <2>3
<1>8. /\ F1 # Null /\ F2 # Null /\ v # Null /\ F1 # v /\ F2 # v
      /\ F1 \in Address /\ F2 \in Address /\ v \in Address /\ Null \in Address
  BY <1>2, <1>5, <1>7 DEF NodeFacts
<1>9. cells = << [label |-> App, left |-> Null, right |-> Null],
                 [label |-> App, left |-> v, right |-> F1] >>
  BY <1>3, <1>5, <1>6
<1>10. /\ cells \in Seq(Cell) /\ DOMAIN cells = {1, 2}
       /\ cells[1].label = App /\ cells[1].left = Null /\ cells[1].right = Null
       /\ cells[2].label = App /\ cells[2].left = v /\ cells[2].right = F1
  <2>1. [label |-> App, left |-> Null, right |-> Null] \in Cell
    BY <1>8 DEF Cell, Label
  <2>2. [label |-> App, left |-> v, right |-> F1] \in Cell
    BY <1>8 DEF Cell, Label
  <2> QED
    BY <1>9, <2>1, <2>2
<1>11. /\ refcnt' = [Counted(cells) EXCEPT ![F2] = @ + 1] /\ root' = F2
       /\ updateable' = [Cleared(cells) EXCEPT ![F2] = "left"]
       /\ stack' = << [node |-> F2, depth |-> 1] >>
  BY <1>1, <1>6
<1> HIDE DEF cells
<1>12. New(cells) = {F1, F2}
  BY <1>6, <1>10 DEF New
<1>13. /\ \A i \in DOMAIN cells :
             /\ {cells[i].left, cells[i].right} \subseteq Live \cup New(cells) \cup {Null}
             /\ cells[i].label # App => cells[i].left = Null /\ cells[i].right = Null
       /\ \A n \in Node \ (Live \cup New(cells)) : refcnt'[n] = Counted(cells)[n]
  BY <1>5, <1>10, <1>11, <1>12
<1>14. Ordered(level, graph)
  BY DEF GraphSound
<1>15. /\ ListInv' /\ todo' = <<>>
       /\ InUse = Live /\ Live' = Live \cup New(cells) /\ InUse' = Live \cup New(cells)
       /\ \A i \in DOMAIN cells :
             /\ Fresh(i) \in New(cells) /\ label'[Fresh(i)] = cells[i].label
             /\ left'[Fresh(i)] = cells[i].left /\ right'[Fresh(i)] = cells[i].right
       /\ \A n \in Live : /\ label'[n] = label[n] /\ left'[n] = left[n] /\ right'[n] = right[n]
                          /\ n \in Parents' <=> n \in Parents
       /\ \A p \in Parents' \ Parents :
             \E i \in DOMAIN cells : p = Fresh(i) /\ cells[i].label = App
       /\ \A i \in DOMAIN cells : Fresh(i) \in Parents' <=> cells[i].label = App
       /\ \A n \in Node : Edges(n)' = (IF n \in New(cells) THEN 0 ELSE Edges(n)) + Mentions(cells, n)
       /\ \A n : Pending(n) = 0 /\ Pending(n)' = 0
       /\ \A n \in Address : Counted(cells)[n] = (IF n \in New(cells) THEN 0 ELSE refcnt[n])
                                                  + Mentions(cells, n)
       /\ \A n : Mentions(cells, n) \in Nat
       /\ \A n : Mentions(cells, n) = 0
                   <=> \A i \in DOMAIN cells : cells[i].left # n /\ cells[i].right # n
  BY <1>1, <1>2, <1>10, <1>13, <1>14, Built
<1>16. /\ left'[F1] = Null /\ right'[F1] = Null /\ left'[F2] = v /\ right'[F2] = F1
       /\ F1 \in Parents' /\ F2 \in Parents'
       /\ \A p \in Parents' : p \in Parents \/ p = F1 \/ p = F2
  BY <1>6, <1>10, <1>15
<1>17. \A p \in Parents : /\ p \in Live /\ p \in Address /\ p # F1 /\ p # F2
                          /\ left'[p] = left[p] /\ right'[p] = right[p]
                          /\ left[p] # Null /\ right[p] # Null
  <2>1. \A p : ~Doomed(p)
    BY <1>15 DEF Doomed
  <2>2. \A p \in Parents : left[p] # Null /\ right[p] # Null
    BY <1>1, <1>2, <2>1 DEF GraphSound, HollowOnly
  <2>3. \A p \in Parents : p \in Live /\ p \in Address
    BY <1>2 DEF NodeFacts
  <2>4. \A p \in Parents : p # F1 /\ p # F2 /\ left'[p] = left[p] /\ right'[p] = right[p]
    BY <1>7, <1>15, <2>3
  <2> QED
    BY <2>2, <2>3, <2>4
<1>18. Mentions(cells, v) = 1 /\ Mentions(cells, F1) = 1
       /\ \A n : n \notin {v, F1, Null} => Mentions(cells, n) = 0
  <2>1. {i \in DOMAIN cells : cells[i].left = v} = {2}
    BY <1>8, <1>10
  <2>2. {i \in DOMAIN cells : cells[i].right = v} = {}
    BY <1>8, <1>10
  <2>3. {i \in DOMAIN cells : cells[i].left = F1} = {}
    BY <1>8, <1>10
  <2>4. {i \in DOMAIN cells : cells[i].right = F1} = {2}
    BY <1>8, <1>10
  <2>5. Cardinality({2}) = 1
    BY FS_Singleton
  <2>6. Cardinality({}) = 0
    BY FS_EmptySet
  <2>7. \A n : n \notin {v, F1, Null} => Mentions(cells, n) = 0
    BY <1>10, <1>15
  <2>8. Mentions(cells, v) = Cardinality({2}) + Cardinality({})
    BY <2>1, <2>2 DEF Mentions
  <2>9. Mentions(cells, F1) = Cardinality({}) + Cardinality({2})
    BY <2>3, <2>4 DEF Mentions
  <2> QED
    BY <2>5, <2>6, <2>7, <2>8, <2>9
<1>19. /\ refcnt'[F1] = 1 /\ refcnt'[F2] = 1 /\ refcnt'[v] = 1
       /\ \A n \in Live : n # v => refcnt'[n] = refcnt[n]
  <2>1. \A n \in Address : Counted(cells)[n] = (IF n \in {F1, F2} THEN 0 ELSE refcnt[n])
                                                + Mentions(cells, n)
    BY <1>12, <1>15
  <2>2. \A n \in Address : n # F2 => refcnt'[n] = Counted(cells)[n]
    BY <1>11
  <2>3. refcnt'[F2] = Counted(cells)[F2] + 1
    BY <1>8, <1>11 DEF Counted
  <2>4. Mentions(cells, F2) = 0
    BY <1>7, <1>8, <1>18
  <2>5. \A n \in Live : n \in Address /\ n # F1 /\ n # F2 /\ n # Null /\ refcnt[n] \in Int
    BY <1>2, <1>7 DEF NodeFacts
  <2>6. refcnt'[F1] = 1
    BY <1>7, <1>8, <1>18, <2>1, <2>2
  <2>7. refcnt'[F2] = 1
    BY <1>8, <2>1, <2>3, <2>4
  <2>8. refcnt'[v] = 1
    BY <1>5, <1>8, <1>18, <2>1, <2>2
  <2>9. \A n \in Live : n # v => refcnt'[n] = refcnt[n]
    BY <1>18, <2>1, <2>2, <2>5
  <2> QED
    BY <2>6, <2>7, <2>8, <2>9
<1>20. PICK l \in [Address -> Nat] :
          l = [n \in Address |-> IF n = F2 THEN 0 ELSE IF n = F1 THEN 1 ELSE level[n] + 1]
  <2>1. [n \in Address |-> IF n = F2 THEN 0 ELSE IF n = F1 THEN 1 ELSE level[n] + 1]
          \in [Address -> Nat]
    OBVIOUS
  <2> QED
    BY <2>1
<1>21. PICK g \in [Address -> Nat] :
          g = [n \in Address |-> IF n = F1 \/ n = F2 THEN k ELSE graph[n]]
  OBVIOUS
<1>22. /\ l[F2] = 0 /\ l[F1] = 1 /\ g[F1] = k /\ g[F2] = k
       /\ \A n \in Live : l[n] = level[n] + 1 /\ g[n] = graph[n] /\ level[n] \in Nat
  <2>1. \A n \in Live : n \in Address /\ n # F1 /\ n # F2
    BY <1>2, <1>7 DEF NodeFacts
  <2> QED
    BY <1>7, <1>8, <1>20, <1>21, <2>1
<1>23. CountsExact(Holders)'
  <2>1. \A n \in Address : Holders[n] = 0 /\ Holders'[n] = (IF n = F2 THEN 1 ELSE 0)
    <3>1. \A n \in Address : Holders[n] = 0
      BY <1>1, <1>2 DEF Holders, Bit
    <3>2. \A n \in Address : Holders'[n] = (IF n = F2 THEN 1 ELSE 0)
      BY <1>1, <1>2, <1>11 DEF Holders, Bit
    <3> QED
      BY <3>1, <3>2
  <2> SUFFICES ASSUME NEW n \in Live'
               PROVE  refcnt'[n] = Edges(n)' + Pending(n)' + Holders'[n]
    BY DEF CountsExact
  <2>2. n \in Node /\ n \in Address /\ n # Null /\ (n \in Live \/ n = F1 \/ n = F2)
    <3>1. n \in Live \/ n = F1 \/ n = F2
      BY <1>12, <1>15
    <3>2. \A p \in Live : p \in Node /\ p # Null
      BY <1>2 DEF NodeFacts
    <3>3. \A p \in Node : p \in Address
      BY <1>2 DEF NodeFacts
    <3> QED
      BY <1>8, <3>1, <3>2, <3>3
  <2>3. CASE n \in Live
    <3>1. refcnt[n] = Edges(n) + 0 + 0 /\ Edges(n) \in Nat
      <4>1. refcnt[n] = Edges(n) + Pending(n) + Holders[n]
        BY <2>3 DEF GraphSound, CountsExact
      <4>2. Pending(n) = 0 /\ Holders[n] = 0
        BY <1>15, <2>1, <2>2
      <4>3. Edges(n) \in Nat
        BY <1>2 DEF NodeFacts
      <4> QED
        BY <4>1, <4>2, <4>3
    <3>2. Edges(n)' = Edges(n) + Mentions(cells, n) /\ n # F1 /\ n # F2
      BY <1>7, <1>12, <1>15, <2>2, <2>3
    <3>3. CASE n = v
      BY <1>5, <1>15, <1>18, <1>19, <2>1, <2>2, <3>1, <3>2, <3>3
    <3>4. CASE n # v
      <4>1. Mentions(cells, n) = 0 /\ refcnt'[n] = refcnt[n]
        BY <1>18, <1>19, <2>2, <2>3, <3>2, <3>4
      <4> QED
        BY <1>15, <2>1, <2>2, <3>1, <3>2, <4>1
    <3> QED
      BY <3>3, <3>4
  <2>4. CASE n = F1
    <3>1. Edges(n)' = 0 + 1 /\ Pending(n)' = 0 /\ Holders'[n] = 0 /\ refcnt'[n] = 1
      BY <1>7, <1>12, <1>15, <1>18, <1>19, <2>1, <2>2, <2>4
    <3> QED
      BY <3>1
  <2>5. CASE n = F2
    <3>1. Mentions(cells, n) = 0
      BY <1>7, <1>8, <1>18, <2>5
    <3>2. Edges(n)' = 0 + 0 /\ Pending(n)' = 0 /\ Holders'[n] = 1 /\ refcnt'[n] = 1
      BY <1>12, <1>15, <1>19, <2>1, <2>2, <2>5, <3>1
    <3> QED
      BY <3>2
  <2> QED
    BY <2>2, <2>3, <2>4, <2>5
<1>24. Ordered(l, g)'
  <2> SUFFICES ASSUME NEW p \in Parents', NEW c \in {left'[p], right'[p]} \ {Null}
               PROVE  c \in InUse' /\ l[p] < l[c] /\ g[p] = g[c]
    BY DEF Ordered
  <2>1. CASE p \in Parents
    <3>1. c \in InUse /\ level[p] < level[c] /\ graph[p] = graph[c] /\ p \in Live
      BY <1>14, <1>17, <2>1 DEF Ordered
    <3> QED
      BY <1>15, <1>22, <3>1
  <2>2. CASE p = F1
    BY <1>16, <2>2
  <2>3. CASE p = F2
    <3>1. c = v \/ c = F1
      BY <1>16, <2>3
    <3> QED
      BY <1>5, <1>12, <1>15, <1>22, <2>3, <3>1
  <2> QED
    BY <1>16, <2>1, <2>2, <2>3
<1>25. CallsInUse'
  BY <1>15 DEF CallsInUse
<1>26. /\ DOMAIN values' = 1..k - 1 /\ Len(values') = k - 1 /\ k - 1 \in Nat
       /\ \A i \in 1..k - 1 : values'[i] = values[i] /\ i \in 1..k /\ i # k
  <2>1. k - 1 \in 0..Len(values) /\ values \in Seq(Address) /\ k - 1 \in Nat
    BY <1>2, <1>3
  <2>2. /\ DOMAIN SubSeq(values, 1, k - 1) = 1..k - 1 /\ Len(SubSeq(values, 1, k - 1)) = k - 1
        /\ \A i \in 1..k - 1 : SubSeq(values, 1, k - 1)[i] = values[i]
    BY <2>1, Prefix
  <2>3. values' = SubSeq(values, 1, k - 1)
    BY <1>1, <1>3
  <2>4. \A i \in 1..k - 1 : i \in 1..k /\ i # k
    OBVIOUS
  <2>5. \A i \in 1..k - 1 : values'[i] = values[i]
    BY <2>2, <2>3
  <2> QED
    BY <2>1, <2>2, <2>3, <2>4, <2>5
<1>27. NoGarbage'
  <2> SUFFICES ASSUME NEW n \in InUse', refcnt'[n] = 0
               PROVE  \E i \in DOMAIN values' : values'[i] = n
    BY DEF NoGarbage
  <2>1. n \in Live /\ n # v /\ n \in InUse /\ refcnt[n] = 0
    <3>1. n # F1 /\ n # F2 /\ n # v
      BY <1>19
    <3> QED
      BY <1>12, <1>15, <1>19, <3>1
  <2>2. PICK i \in DOMAIN values : values[i] = n
    BY <1>1, <2>1 DEF GraphSound, NoGarbage
  <2>3. i \in 1..k - 1
    BY <1>2, <1>3, <1>5, <2>1, <2>2
  <2> QED
    BY <1>26, <2>2, <2>3
<1>28. DummiesApart'
  <2>1. \A p \in Parents' \ {F2} : left'[p] \notin {F2, F1} /\ right'[p] \notin {F2, F1}
    <3>1. ASSUME NEW p \in Parents PROVE left'[p] \in Live /\ right'[p] \in Live
      <4>1. left[p] \in {left[p], right[p]} \ {Null} /\ right[p] \in {left[p], right[p]} \ {Null}
        BY <1>17
      <4>2. left[p] \in InUse /\ right[p] \in InUse
        BY <1>14, <4>1 DEF Ordered
      <4> QED
        BY <1>15, <1>17, <4>2
    <3> QED
      BY <1>7, <1>8, <1>16, <3>1
  <2>2. v \in InUse' \ {F2, F1}
    BY <1>5, <1>8, <1>15
  <2>3. Dummies' = {F2, F1} /\ right'[root'] = F1 /\ left'[root'] = v
    BY <1>11, <1>16 DEF Dummies
  <2> QED
    BY <1>7, <1>11, <1>16, <2>1, <2>2, <2>3 DEF DummiesApart
<1>29. HollowOnly'
  <2> SUFFICES ASSUME NEW p \in Parents', left'[p] = Null \/ right'[p] = Null
               PROVE  p = F1
    BY <1>2, <1>11, <1>16 DEF HollowOnly
  <2> QED
    BY <1>8, <1>16, <1>17
<1>30. ValuesSound(g)'
  <2>1. g[root'] = Len(values') + 1
    BY <1>11, <1>22, <1>26
  <2> SUFFICES ASSUME NEW i \in 1..k - 1
               PROVE  values'[i] \in InUse' /\ refcnt'[values'[i]] = 0 /\ g[values'[i]] = i
    BY <1>26, <2>1 DEF ValuesSound
  <2>2. /\ values'[i] = values[i] /\ values[i] \in InUse /\ refcnt[values[i]] = 0
        /\ graph[values[i]] = i /\ values[i] # v
    BY <1>4, <1>5, <1>26
  <2> QED
    BY <1>15, <1>19, <1>22, <2>2
<1>31. GraphSound(l, g)'
  BY <1>23, <1>24, <1>25, <1>27, <1>28, <1>29, <1>30 DEF GraphSound
<1>32. WalkSound(l, g)'
  <2>1. /\ Len(stack') = 1 /\ stack'[1] = [node |-> F2, depth |-> 1] /\ Kept' = 1
        /\ stack'[1].node = F2
    BY <1>1, <1>11 DEF Kept
  <2>2. updateable'[F2] = "left"
    BY <1>8, <1>11 DEF Cleared
  <2>3. F2 \in InUse'
    BY <1>12, <1>15
  <2>4. StackSound(l, g)'
    BY <1>11, <2>1, <2>2, <2>3 DEF StackSound
  <2>5. ContractumSound(l, g)' /\ DirSound'
    BY <1>1 DEF ContractumSound, DirSound
  <2> QED
    BY <2>4, <2>5 DEF WalkSound
<1> QED
  BY <1>15, <1>31, <1>32

-----------------------------------------------------------------------------
\* The arguments hang below the redex.
LEMMA ArgumentsBelow ==
    ASSUME IInv, NEW level \in [Address -> Nat], NEW graph,
           GraphSound(level, graph), WalkSound(level, graph), pc = "loop", stack # <<>>,
           NEW d \in Nat \ {0}, d + 2 <= Len(stack)
    PROVE  /\ Len(stack) - d \in 1..Len(stack) /\ stack[Len(stack) - d].node \in Address
           /\ \A a \in Arguments(d) :
                 /\ a \in InUse \ Dummies /\ a # Null /\ graph[a] = graph[root]
                 /\ level[stack[Len(stack) - d].node] < level[a]
           /\ Len(stack) - (d + 1) \in 1..Len(stack)
           /\ level[stack[Len(stack) - (d + 1)].node] < level[stack[Len(stack) - d].node]
<1>1. /\ Len(stack) \in Nat \ {0} /\ Kept = Len(stack)
      /\ \A i \in 1..Len(stack) : stack[i].node \in Address
  BY StackFacts DEF Reducing
<1>2. PICK k \in Nat \ {0} : k = Len(stack)
  BY <1>1
<1>3. /\ \A i \in 1..k : /\ stack[i].node \in InUse /\ graph[stack[i].node] = graph[root]
                         /\ i # 1 => stack[i].node \notin Dummies
      /\ \A i \in 1..k - 1 : LeadsOn(stack[i], stack[i + 1])
      /\ \A i, j \in 1..k : i < j => level[stack[i].node] < level[stack[j].node]
  BY <1>1, <1>2 DEF WalkSound, StackSound, Reducing
<1>4. /\ k - d \in 1..k /\ k - (d + 1) \in 1..k /\ k - (d + 1) < k - d
  BY <1>2
<1>5. ASSUME NEW o \in 1..d
      PROVE  LET a == right[stack[k - o].node]
             IN  /\ a \in InUse \ Dummies /\ a # Null /\ graph[a] = graph[root]
                 /\ level[stack[k - d].node] < level[a]
  <2>1. /\ k - o \in 1..k /\ k - o \in 1..k - 1 /\ k - o # 1
        /\ (k - d < k - o \/ k - d = k - o)
    BY <1>2
  <2> DEFINE p == stack[k - o].node
             a == right[p]
  <2>2. /\ p \in InUse /\ p \in Address /\ p \notin Dummies /\ graph[p] = graph[root]
        /\ LeadsOn(stack[k - o], stack[(k - o) + 1])
        /\ (level[stack[k - d].node] < level[p] \/ level[stack[k - d].node] = level[p])
    BY <1>1, <1>2, <1>3, <1>4, <2>1
  <2>3. p \in Parents /\ p # root /\ p # right[root]
    BY <2>2, LeadsToChild DEF Parents, Dummies
  <2>4. a # Null
    BY <2>3 DEF GraphSound, HollowOnly, Underway
  <2>5. a \in InUse /\ level[p] < level[a] /\ graph[p] = graph[a]
    <3>1. a \in {left[p], right[p]} \ {Null}
      BY <2>4
    <3> QED
      BY <2>3, <3>1 DEF GraphSound, Ordered
  <2>6. a \notin Dummies
    BY <2>3 DEF GraphSound, DummiesApart, Underway, Reducing
  <2>7. level[stack[k - d].node] \in Nat /\ level[p] \in Nat /\ level[a] \in Nat
    <3>1. a \in Address /\ stack[k - d].node \in Address
      BY <1>1, <1>2, <1>4, <2>5, NodeFactsHold DEF NodeFacts, IInv, TypeOK
    <3> QED
      BY <2>2, <3>1
  <2>8. level[stack[k - d].node] < level[a]
    BY <2>2, <2>5, <2>7
  <2> QED
    BY <2>2, <2>4, <2>5, <2>6, <2>8
<1>6. \A a \in Arguments(d) :
         /\ a \in InUse \ Dummies /\ a # Null /\ graph[a] = graph[root]
         /\ level[stack[k - d].node] < level[a]
  BY <1>2, <1>5 DEF Arguments
<1>7. level[stack[k - (d + 1)].node] < level[stack[k - d].node]
  BY <1>3, <1>4
<1> QED
  BY <1>1, <1>2, <1>4, <1>6, <1>7

\* Building the contractum: the new nodes find their level between the redex
\* and its arguments once what is below the redex has moved down.
LEMMA BuildSound ==
    ASSUME IInv, IInv', Control, ListInv,
           NEW level \in [Address -> Nat], NEW graph \in [Address -> Nat],
           GraphSound(level, graph), WalkSound(level, graph), BuildContractum
    PROVE  /\ ListInv'
           /\ \E l, g \in [Address -> Nat] : GraphSound(l, g)' /\ WalkSound(l, g)'
<1>1. PICK cells \in Seq(Cell), d \in Nat \ {0} : BuildsTree(cells, d)
  BY BuildFacts
<1>2. /\ pc = "loop" /\ pc' = "store" /\ stack # <<>>
      /\ UNCHANGED <<stack, root, values>>
  BY DEF BuildContractum, walk, parser, statement
<1>3. /\ NewNodes(cells) /\ refcnt' = Counted(cells) /\ updateable' = Cleared(cells)
      /\ d + 2 <= Len(stack) /\ pop_stack_cnt' = d + 1
      /\ \A i \in DOMAIN cells : cells[i].label = App
  BY <1>1 DEF BuildsTree
<1>4. /\ HeapTypeOK /\ HeapTypeOK' /\ NodeFacts /\ NodeFacts' /\ Underway /\ Underway' /\ todo = <<>>
  <2>1. HeapTypeOK /\ HeapTypeOK'
    BY DEF IInv, TypeOK
  <2>2. todo = <<>>
    BY <1>2 DEF Control
  <2> QED
    BY <1>2, <2>1, <2>2, NodeFactsHold, NodeFactsLater DEF Underway, Reducing
<1>5. Len(cells) \in Nat /\ DOMAIN cells = 1..Len(cells)
  BY LenProperties
<1>6. PICK K \in Nat : K = Len(cells) /\ DOMAIN cells = 1..K
  BY <1>5
<1>7. PICK x \in Address, w \in Address :
          /\ x = stack[Len(stack) - d].node /\ w = stack[Len(stack) - (d + 1)].node
          /\ level[w] < level[x]
  <2>1. /\ Len(stack) - d \in 1..Len(stack) /\ Len(stack) - (d + 1) \in 1..Len(stack)
        /\ level[stack[Len(stack) - (d + 1)].node] < level[stack[Len(stack) - d].node]
    BY <1>2, <1>3, ArgumentsBelow
  <2>2. \A i \in 1..Len(stack) : stack[i].node \in Address
    BY <1>2, StackFacts DEF Reducing
  <2> QED
    BY <2>1, <2>2
<1>8. PICK A : A = Arguments(d)
  OBVIOUS
<1>9. \A a \in A : /\ a \in InUse \ Dummies /\ a # Null /\ graph[a] = graph[root]
                   /\ level[x] < level[a]
  BY <1>2, <1>3, <1>7, <1>8, ArgumentsBelow
<1>10. PICK G \in Nat : G = graph[root]
  BY DEF IInv, TypeOK
<1>11. PICK lx \in Nat : lx = level[x]
  BY <1>7
\* the nodes of the contractum
<1>12. \A i \in 1..K : Fresh(i) \in Node /\ Fresh(i) \notin Live
  BY <1>3, <1>4, <1>6, FreshNodes DEF ListInv, NewNodes
<1>13. \A i, j \in 1..K : Fresh(i) = Fresh(j) => i = j
  BY <1>3, <1>4, <1>6, FreshNodes DEF ListInv, NewNodes
<1>14. PICK N \in [1..K -> Node] : \A i \in 1..K : N[i] = Fresh(i)
  <2>1. [i \in 1..K |-> Fresh(i)] \in [1..K -> Node]
    BY <1>12
  <2> QED
    BY <2>1
<1>15. /\ \A i \in 1..K : N[i] \notin Live /\ N[i] \in New(cells) /\ N[i] \in Address
       /\ \A i, j \in 1..K : N[i] = N[j] => i = j
       /\ \A n \in New(cells) : \E i \in 1..K : n = N[i]
  BY <1>6, <1>12, <1>13, <1>14 DEF New, Address
<1>16. /\ \A i \in 1..K : \A c \in {cells[i].left, cells[i].right} :
             c \in A \/ \E j \in 1..i - 1 : c = N[j]
       /\ \A i \in 1..K : \/ contractum' = N[i]
                          \/ \E j \in 1..K : N[i] \in {cells[j].left, cells[j].right}
       /\ contractum' \in A \/ \E j \in 1..K : contractum' = N[j]
  <2>1. \A i \in 1..K : \A c \in {cells[i].left, cells[i].right} :
           c \in A \/ \E j \in 1..i - 1 : c = N[j]
    <3> SUFFICES ASSUME NEW i \in 1..K, NEW c \in {cells[i].left, cells[i].right}
                 PROVE  c \in A \/ \E j \in 1..i - 1 : c = N[j]
      OBVIOUS
    <3>1. c \in A \/ \E j \in 1..i - 1 : c = Fresh(j)
      BY <1>1, <1>6, <1>8 DEF BuildsTree
    <3>2. \A j \in 1..i - 1 : j \in 1..K
      BY <1>6
    <3> QED
      BY <1>14, <3>1, <3>2
  <2>2. \A i \in 1..K : \/ contractum' = N[i]
                        \/ \E j \in 1..K : N[i] \in {cells[j].left, cells[j].right}
    BY <1>1, <1>6, <1>14 DEF BuildsTree
  <2>3. contractum' \in A \/ \E j \in 1..K : contractum' = N[j]
    BY <1>1, <1>6, <1>8, <1>14 DEF BuildsTree
  <2> QED
    BY <2>1, <2>2, <2>3
<1>17. \A i \in 1..K : \A c \in {cells[i].left, cells[i].right} : c \in A \/ c \in New(cells)
  <2> SUFFICES ASSUME NEW i \in 1..K, NEW c \in {cells[i].left, cells[i].right}, c \notin A
               PROVE  c \in New(cells)
    OBVIOUS
  <2>1. PICK j \in 1..i - 1 : c = N[j]
    BY <1>16
  <2>2. j \in 1..K
    BY <2>1
  <2> QED
    BY <1>15, <2>1, <2>2
<1>18. \A n \in InUse : n \in Live /\ n \in Address /\ n \in Node
  BY <1>4 DEF NodeFacts
<1>19. /\ \A i \in DOMAIN cells :
             /\ {cells[i].left, cells[i].right} \subseteq Live \cup New(cells) \cup {Null}
             /\ cells[i].label # App => cells[i].left = Null /\ cells[i].right = Null
       /\ \A n \in Node \ (Live \cup New(cells)) : refcnt'[n] = Counted(cells)[n]
  BY <1>3, <1>6, <1>9, <1>17, <1>18
<1>20. Ordered(level, graph)
  BY DEF GraphSound
<1>21. /\ ListInv' /\ todo' = <<>>
       /\ New(cells) \subseteq Node /\ New(cells) \cap Live = {} /\ InUse = Live
       /\ Live' = Live \cup New(cells) /\ InUse' = Live \cup New(cells)
       /\ \A i \in DOMAIN cells :
             /\ Fresh(i) \in New(cells) /\ label'[Fresh(i)] = cells[i].label
             /\ left'[Fresh(i)] = cells[i].left /\ right'[Fresh(i)] = cells[i].right
       /\ \A n \in Live : /\ label'[n] = label[n] /\ left'[n] = left[n] /\ right'[n] = right[n]
                          /\ n \in Parents' <=> n \in Parents
       /\ \A p \in Parents' \ Parents :
             \E i \in DOMAIN cells : p = Fresh(i) /\ cells[i].label = App
       /\ \A n \in Node : Edges(n)' = (IF n \in New(cells) THEN 0 ELSE Edges(n)) + Mentions(cells, n)
       /\ \A n : Pending(n) = 0 /\ Pending(n)' = 0
       /\ \A n \in Address : Counted(cells)[n] = (IF n \in New(cells) THEN 0 ELSE refcnt[n])
                                                  + Mentions(cells, n)
       /\ \A n : Mentions(cells, n) \in Nat
       /\ \A n : Mentions(cells, n) = 0
                   <=> \A i \in DOMAIN cells : cells[i].left # n /\ cells[i].right # n
  BY <1>3, <1>4, <1>19, <1>20, Built
<1>22. /\ \A i \in 1..K : left'[N[i]] = cells[i].left /\ right'[N[i]] = cells[i].right
       /\ \A p \in Parents' : p \in Parents \/ \E i \in 1..K : p = N[i]
  <2>1. \A i \in 1..K : left'[N[i]] = cells[i].left /\ right'[N[i]] = cells[i].right
    BY <1>6, <1>14, <1>21
  <2>2. \A p \in Parents' : p \in Parents \/ \E i \in 1..K : p = N[i]
    BY <1>6, <1>14, <1>21
  <2> QED
    BY <2>1, <2>2
<1>23. \A p \in Parents : /\ p \in Live /\ p \in InUse /\ p \in Address
                          /\ left'[p] = left[p] /\ right'[p] = right[p]
  BY <1>4, <1>21 DEF NodeFacts
\* its levels and its graph
<1> DEFINE index(n) == CHOOSE i \in 1..K : N[i] = n
<1>24. PICK l \in [Address -> Nat] :
          l = [n \in Address |-> IF \E i \in 1..K : N[i] = n THEN (lx + K + 1) - index(n)
                                 ELSE IF level[n] > lx THEN level[n] + K ELSE level[n]]
  <2>1. \A n : (\E i \in 1..K : N[i] = n) => index(n) \in 1..K
    OBVIOUS
  <2>2. \A i \in 1..K : (lx + K + 1) - i \in Nat
    OBVIOUS
  <2> HIDE DEF index
  <2>3. [n \in Address |-> IF \E i \in 1..K : N[i] = n THEN (lx + K + 1) - index(n)
                           ELSE IF level[n] > lx THEN level[n] + K ELSE level[n]]
          \in [Address -> Nat]
    <3>1. ASSUME NEW n \in Address
          PROVE  (IF \E i \in 1..K : N[i] = n THEN (lx + K + 1) - index(n)
                  ELSE IF level[n] > lx THEN level[n] + K ELSE level[n]) \in Nat
      <4>1. CASE \E i \in 1..K : N[i] = n
        BY <2>1, <2>2, <4>1
      <4>2. CASE ~\E i \in 1..K : N[i] = n
        <5>1. level[n] \in Nat /\ level[n] + K \in Nat
          OBVIOUS
        <5> QED
          BY <4>2, <5>1
      <4> QED
        BY <4>1, <4>2
    <3> QED
      BY <3>1
  <2> QED
    BY <2>3
<1>25. PICK g \in [Address -> Nat] :
          g = [n \in Address |-> IF \E i \in 1..K : N[i] = n THEN G ELSE graph[n]]
  <2>1. [n \in Address |-> IF \E i \in 1..K : N[i] = n THEN G ELSE graph[n]] \in [Address -> Nat]
    OBVIOUS
  <2> QED
    BY <2>1
<1>26. /\ \A i \in 1..K : l[N[i]] = (lx + K + 1) - i /\ g[N[i]] = G
       /\ \A n \in Live : /\ level[n] \in Nat /\ g[n] = graph[n]
                          /\ l[n] = IF level[n] > lx THEN level[n] + K ELSE level[n]
  <2>1. \A i \in 1..K : index(N[i]) = i
    BY <1>15
  <2>2. \A n \in Live : n \in Address /\ ~\E i \in 1..K : N[i] = n
    BY <1>4, <1>15 DEF NodeFacts
  <2> HIDE DEF index
  <2>3. ASSUME NEW i \in 1..K PROVE l[N[i]] = (lx + K + 1) - i /\ g[N[i]] = G
    BY <1>15, <1>24, <1>25, <2>1
  <2>4. ASSUME NEW n \in Live
        PROVE  /\ level[n] \in Nat /\ g[n] = graph[n]
               /\ l[n] = IF level[n] > lx THEN level[n] + K ELSE level[n]
    BY <1>24, <1>25, <2>2
  <2> QED
    BY <2>3, <2>4
<1> HIDE DEF index
<1>43. \A a, b \in Nat :
          a < b => (IF a > lx THEN a + K ELSE a) < (IF b > lx THEN b + K ELSE b)
  OBVIOUS
<1>27. \A n, m \in Live : level[n] < level[m] => l[n] < l[m]
  <2> SUFFICES ASSUME NEW n \in Live, NEW m \in Live, level[n] < level[m] PROVE l[n] < l[m]
    OBVIOUS
  <2>1. PICK a \in Nat, b \in Nat : a = level[n] /\ b = level[m]
    BY <1>26
  <2>2. a < b
    BY <2>1
  <2>3. l[n] = (IF a > lx THEN a + K ELSE a) /\ l[m] = (IF b > lx THEN b + K ELSE b)
    BY <1>26, <2>1
  <2>4. (IF a > lx THEN a + K ELSE a) < (IF b > lx THEN b + K ELSE b)
    BY <1>43, <2>2
  <2> QED
    BY <2>3, <2>4
<1>28. \A a \in A : /\ a \in Live /\ l[a] = level[a] + K /\ g[a] = G /\ level[a] \in Nat
                    /\ lx < level[a]
  <2> SUFFICES ASSUME NEW a \in A
               PROVE  /\ a \in Live /\ l[a] = level[a] + K /\ g[a] = G /\ level[a] \in Nat
                      /\ lx < level[a]
    OBVIOUS
  <2>1. a \in Live /\ lx < level[a] /\ graph[a] = G
    BY <1>9, <1>10, <1>11, <1>18
  <2> QED
    BY <1>26, <2>1
<1>29. CountsExact(Holders)'
  <2>1. Holders' = Holders
    BY <1>2, <1>4 DEF Holders, Bit
  <2> SUFFICES ASSUME NEW n \in Live'
               PROVE  refcnt'[n] = Edges(n)' + Pending(n)' + Holders[n]
    BY <2>1 DEF CountsExact
  <2>2. n \in Node /\ n \in Address /\ (n \in Live \/ n \in New(cells))
    BY <1>4, <1>21 DEF NodeFacts
  <2>3. refcnt'[n] = (IF n \in New(cells) THEN 0 ELSE refcnt[n]) + Mentions(cells, n)
    BY <1>3, <1>21, <2>2
  <2>4. Mentions(cells, n) \in Nat /\ Edges(n) \in Nat
    BY <1>4, <1>21 DEF NodeFacts
  <2>5. CASE n \in Live
    <3>1. refcnt[n] = Edges(n) + Pending(n) + Holders[n]
      BY <2>5 DEF GraphSound, CountsExact
    <3>2. Pending(n) = 0 /\ Pending(n)' = 0 /\ Holders[n] \in Int
      BY <1>21, <2>2 DEF Holders, Bit
    <3>3. Edges(n)' = Edges(n) + Mentions(cells, n) /\ refcnt'[n] = refcnt[n] + Mentions(cells, n)
      BY <1>21, <2>2, <2>3, <2>5
    <3> QED
      BY <2>4, <3>1, <3>2, <3>3
  <2>6. CASE n \in New(cells)
    <3>1. n # root
      BY <1>4, <1>18, <1>21, <2>6 DEF GraphSound, DummiesApart, NodeFacts
    <3>2. Holders[n] = 0
      BY <1>2, <2>2, <3>1 DEF Holders, Bit
    <3>3. Edges(n)' = 0 + Mentions(cells, n) /\ refcnt'[n] = 0 + Mentions(cells, n) /\ Pending(n)' = 0
      BY <1>21, <2>2, <2>3, <2>6
    <3> QED
      BY <2>4, <3>2, <3>3
  <2> QED
    BY <2>2, <2>5, <2>6
<1>30. Ordered(l, g)'
  <2> SUFFICES ASSUME NEW p \in Parents', NEW c \in {left'[p], right'[p]} \ {Null}
               PROVE  c \in InUse' /\ l[p] < l[c] /\ g[p] = g[c]
    BY DEF Ordered
  <2>1. CASE p \in Parents
    <3>1. c \in InUse /\ level[p] < level[c] /\ graph[p] = graph[c] /\ p \in Live /\ c \in Live
      BY <1>18, <1>20, <1>23, <2>1 DEF Ordered
    <3> QED
      BY <1>21, <1>26, <1>27, <3>1
  <2>2. ASSUME NEW i \in 1..K, p = N[i]
        PROVE  c \in InUse' /\ l[p] < l[c] /\ g[p] = g[c]
    <3>1. c \in {cells[i].left, cells[i].right}
      BY <1>22, <2>2
    <3>2. l[p] = (lx + K + 1) - i /\ g[p] = G
      BY <1>26, <2>2
    <3>3. CASE c \in A
      <4>1. c \in Live /\ l[c] = level[c] + K /\ g[c] = G /\ level[c] \in Nat /\ lx < level[c]
        BY <1>28, <3>3
      <4>2. c \in InUse'
        BY <1>21, <4>1
      <4>3. (lx + K + 1) - i < level[c] + K
        <5>1. PICK a \in Nat : a = level[c]
          BY <4>1
        <5>2. lx < a
          BY <4>1, <5>1
        <5>3. (lx + K + 1) - i < a + K
          BY <5>2
        <5> QED
          BY <5>1, <5>3
      <4>4. l[p] < l[c]
        BY <3>2, <4>1, <4>3
      <4> QED
        BY <3>2, <4>1, <4>2, <4>4
    <3>4. CASE \E j \in 1..i - 1 : c = N[j]
      <4>1. PICK j \in 1..i - 1 : c = N[j]
        BY <3>4
      <4>2. j \in 1..K /\ j < i
        BY <4>1
      <4>3. c \in InUse'
        BY <1>15, <1>21, <4>1, <4>2
      <4>4. l[c] = (lx + K + 1) - j /\ g[c] = G
        BY <1>26, <4>1, <4>2
      <4> QED
        BY <3>2, <4>2, <4>3, <4>4
    <3> QED
      BY <1>16, <3>1, <3>3, <3>4
  <2> QED
    BY <1>22, <2>1, <2>2
<1>31. CallsInUse'
  BY <1>21 DEF CallsInUse
<1>32. NoGarbage'
  <2> SUFFICES ASSUME NEW n \in InUse', refcnt'[n] = 0
               PROVE  n = contractum' \/ \E i \in DOMAIN values : values[i] = n
    BY <1>2 DEF NoGarbage
  <2>1. n \in Address /\ (n \in Live \/ n \in New(cells))
    BY <1>4, <1>21 DEF NodeFacts
  <2>2. refcnt'[n] = (IF n \in New(cells) THEN 0 ELSE refcnt[n]) + Mentions(cells, n)
    BY <1>3, <1>21, <2>1
  <2>3. CASE n \in Live
    <3>1. refcnt[n] \in Nat
      <4>1. Holders[n] \in Nat
        BY <1>2, <2>1 DEF Holders, Bit
      <4>2. refcnt[n] = Edges(n) + Pending(n) + Holders[n]
        BY <2>3 DEF GraphSound, CountsExact
      <4>3. Edges(n) \in Nat /\ Pending(n) = 0
        BY <1>4, <1>21 DEF NodeFacts
      <4> QED
        BY <4>1, <4>2, <4>3
    <3>2. n \notin New(cells) /\ Mentions(cells, n) \in Nat
      BY <1>21, <2>3
    <3>3. refcnt[n] = 0
      BY <2>2, <3>1, <3>2
    <3> QED
      BY <1>2, <1>21, <2>3, <3>3 DEF GraphSound, NoGarbage
  <2>4. CASE n \in New(cells)
    <3>1. Mentions(cells, n) = 0
      BY <1>21, <2>2, <2>4
    <3>2. PICK i \in 1..K : n = N[i]
      BY <1>15, <2>4
    <3>3. \A j \in 1..K : n \notin {cells[j].left, cells[j].right}
      BY <1>6, <1>21, <3>1
    <3> QED
      BY <1>16, <3>2, <3>3
  <2> QED
    BY <2>1, <2>3, <2>4
<1>33. /\ root \in Parents /\ right[root] \in Parents /\ root # right[root]
       /\ left[right[root]] = Null /\ right[right[root]] = Null
       /\ left[root] \in InUse \ Dummies
       /\ \A p \in Parents \ {root} : left[p] \notin Dummies /\ right[p] \notin Dummies
  BY <1>4 DEF GraphSound, DummiesApart
<1>34. Dummies' = Dummies /\ Dummies \subseteq Live
  BY <1>2, <1>23, <1>33 DEF Dummies
<1>35. DummiesApart'
  <2>1. \A p \in Parents' \ {root} : left'[p] \notin Dummies /\ right'[p] \notin Dummies
    <3> SUFFICES ASSUME NEW p \in Parents', p # root
                 PROVE  left'[p] \notin Dummies /\ right'[p] \notin Dummies
      OBVIOUS
    <3>1. CASE p \in Parents
      BY <1>23, <1>33, <3>1
    <3>2. ASSUME NEW i \in 1..K, p = N[i]
          PROVE  left'[p] \notin Dummies /\ right'[p] \notin Dummies
      <4>1. \A c \in {cells[i].left, cells[i].right} : c \notin Dummies
        BY <1>9, <1>17, <1>21, <1>34
      <4> QED
        BY <1>22, <3>2, <4>1
    <3> QED
      BY <1>22, <3>1, <3>2
  <2>2. root \in Parents' /\ right[root] \in Parents'
    BY <1>21, <1>23, <1>33
  <2>3. /\ right'[root] = right[root] /\ left'[root] = left[root]
        /\ left'[right[root]] = Null /\ right'[right[root]] = Null
    BY <1>23, <1>33
  <2>4. left[root] \in InUse'
    BY <1>18, <1>21, <1>33
  <2> QED
    BY <1>2, <1>33, <1>34, <2>1, <2>2, <2>3, <2>4 DEF DummiesApart
<1>36. HollowOnly'
  <2> SUFFICES ASSUME NEW p \in Parents', left'[p] = Null \/ right'[p] = Null
               PROVE  p = right'[root]
    BY <1>2, <1>4 DEF HollowOnly
  <2>1. CASE p \in Parents
    <3>1. p = right[root]
      BY <1>2, <1>23, <2>1 DEF GraphSound, HollowOnly
    <3> QED
      BY <1>23, <1>33, <3>1
  <2>2. ASSUME NEW i \in 1..K, p = N[i] PROVE FALSE
    <3>1. \A c \in {cells[i].left, cells[i].right} : c # Null
      <4>1. \A n \in New(cells) : n # Null
        BY <1>4, <1>21 DEF NodeFacts
      <4> QED
        BY <1>9, <1>17, <4>1
    <3> QED
      BY <1>22, <2>2, <3>1
  <2> QED
    BY <1>22, <2>1, <2>2
<1>37. ValuesSound(g)'
  <2>1. /\ \A i \in DOMAIN values :
              values[i] \in InUse /\ refcnt[values[i]] = 0 /\ graph[values[i]] = i
        /\ graph[root] = Len(values) + 1
    BY <1>4 DEF GraphSound, ValuesSound
  <2>2. values \in Seq(Address) /\ Len(values) \in Nat /\ DOMAIN values = 1..Len(values)
    BY LenProperties DEF IInv, TypeOK
  <2>3. ASSUME NEW i \in DOMAIN values
        PROVE  values[i] \in InUse' /\ refcnt'[values[i]] = 0 /\ g[values[i]] = i
    <3>1. /\ values[i] \in Live /\ values[i] \in Address /\ values[i] \notin New(cells)
          /\ graph[values[i]] # G
      BY <1>10, <1>18, <1>21, <2>1, <2>2, <2>3
    <3>2. values[i] \notin A
      BY <1>9, <1>10, <3>1
    <3>3. Mentions(cells, values[i]) = 0
      BY <1>6, <1>17, <1>21, <3>1, <3>2
    <3>4. Counted(cells)[values[i]] = refcnt[values[i]] + Mentions(cells, values[i])
      BY <1>21, <3>1
    <3>5. refcnt'[values[i]] = 0
      BY <1>3, <2>1, <3>3, <3>4
    <3> QED
      BY <1>21, <1>26, <2>1, <3>1, <3>5
  <2>4. g[root] = Len(values) + 1
    BY <1>23, <1>26, <1>33, <2>1
  <2> QED
    BY <1>2, <2>3, <2>4 DEF ValuesSound
<1>38. GraphSound(l, g)'
  BY <1>29, <1>30, <1>31, <1>32, <1>35, <1>36, <1>37 DEF GraphSound
<1>39. /\ Len(stack) \in Nat \ {0} /\ Kept = Len(stack) /\ Kept' = Len(stack)
       /\ \A i \in 1..Len(stack) : stack[i].node \in Address
  BY <1>2, StackFacts DEF Reducing, Kept
<1>40. StackSound(l, g)'
  <2>1. PICK k \in Nat \ {0} : k = Len(stack)
    BY <1>39
  <2>2. /\ stack[1] = [node |-> root, depth |-> 1] /\ updateable[root] = "left"
        /\ \A i \in 1..k : /\ stack[i].node \in InUse /\ graph[stack[i].node] = graph[root]
                           /\ i # 1 => stack[i].node \notin Dummies
        /\ \A i \in 1..k - 1 : LeadsOn(stack[i], stack[i + 1])
        /\ \A i, j \in 1..k : i < j => level[stack[i].node] < level[stack[j].node]
    BY <1>2, <1>39, <2>1 DEF WalkSound, StackSound, Reducing
  <2>3. \A n \in Live : updateable'[n] = updateable[n]
    <3>1. \A n \in Live : n \in Address /\ n \notin New(cells)
      BY <1>4, <1>21 DEF NodeFacts
    <3> QED
      BY <1>3, <3>1 DEF Cleared, New
  <2>4. root \in Live /\ g[root] = graph[root]
    BY <1>23, <1>26, <1>33
  <2>5. \A i \in 1..k : /\ stack[i].node \in InUse' /\ stack[i].node \in Live
                        /\ g[stack[i].node] = g[root]
    BY <1>18, <1>21, <1>26, <2>2, <2>4
  <2>6. \A i \in 1..k - 1 : LeadsOn(stack[i], stack[i + 1])'
    <3> SUFFICES ASSUME NEW i \in 1..k - 1 PROVE LeadsOn(stack[i], stack[i + 1])'
      OBVIOUS
    <3>1. i \in 1..k
      BY <2>1
    <3>2. stack[i].node \in Live
      BY <2>5, <3>1
    <3>3. /\ label'[stack[i].node] = label[stack[i].node]
          /\ left'[stack[i].node] = left[stack[i].node]
          /\ right'[stack[i].node] = right[stack[i].node]
          /\ updateable'[stack[i].node] = updateable[stack[i].node]
      BY <1>21, <2>3, <3>2
    <3>4. LeadsOn(stack[i], stack[i + 1])
      BY <2>2
    <3> QED
      BY <1>2, <3>3, <3>4 DEF LeadsOn
  <2>7. \A i, j \in 1..k : i < j => l[stack[i].node] < l[stack[j].node]
    BY <1>27, <2>2, <2>5
  <2>8. updateable'[root] = "left"
    BY <2>2, <2>3, <2>4
  <2> QED
    BY <1>2, <1>34, <1>39, <2>1, <2>2, <2>5, <2>6, <2>7, <2>8 DEF StackSound
<1>41. ContractumSound(l, g)'
  <2>1. RedexParent(stack)' = w
    BY <1>2, <1>3, <1>7 DEF RedexParent, PARENTNODE
  <2>2. w \in Live
    <3>1. Len(stack) - (d + 1) \in 1..Len(stack)
      BY <1>3, <1>39
    <3>2. w \in InUse
      BY <1>2, <1>7, <1>39, <3>1 DEF WalkSound, StackSound, Reducing
    <3> QED
      BY <1>18, <3>2
  <2>3. l[w] = level[w] /\ level[w] \in Nat /\ level[w] < lx
    <3>1. level[w] < lx /\ level[w] \in Nat
      BY <1>7, <1>11
    <3> QED
      BY <1>26, <2>2, <3>1
  <2>4. root \in Live /\ g[root] = G
    BY <1>10, <1>23, <1>26, <1>33
  <2>5. contractum' \in InUse' \ Dummies /\ g[contractum'] = G /\ l[w] < l[contractum']
    <3>1. CASE contractum' \in A
      <4>1. /\ contractum' \in Live /\ l[contractum'] = level[contractum'] + K
            /\ g[contractum'] = G /\ level[contractum'] \in Nat /\ lx < level[contractum']
            /\ contractum' \notin Dummies
        BY <1>9, <1>28, <3>1
      <4>2. l[w] < l[contractum']
        BY <2>3, <4>1
      <4> QED
        BY <1>21, <4>1, <4>2
    <3>2. ASSUME NEW i \in 1..K, contractum' = N[i]
          PROVE  contractum' \in InUse' \ Dummies /\ g[contractum'] = G /\ l[w] < l[contractum']
      <4>1. contractum' \in InUse' \ Dummies
        BY <1>15, <1>21, <1>34, <3>2
      <4>2. l[contractum'] = (lx + K + 1) - i /\ g[contractum'] = G
        BY <1>26, <3>2
      <4>3. l[w] < l[contractum']
        BY <2>3, <4>2
      <4> QED
        BY <4>1, <4>2, <4>3
    <3> QED
      BY <1>16, <3>1, <3>2
  <2> QED
    BY <1>2, <1>34, <2>1, <2>4, <2>5 DEF ContractumSound
<1>42. WalkSound(l, g)'
  BY <1>2, <1>40, <1>41 DEF WalkSound, DirSound
<1> QED
  BY <1>21, <1>38, <1>42

-----------------------------------------------------------------------------
\* A first free_node call changes nothing by itself.
LEMMA CallList ==
    ASSUME HeapTypeOK, HeapTypeOK', ListInv, todo = <<>>, NEW n \in Address, todo' = FreeCall(n),
           UNCHANGED <<label, right, allocated, freeList>>
    PROVE  /\ InUse = Live /\ Live' = Live /\ InUse' = Live /\ Parents' = Parents
           /\ FreeListChained' /\ LinksOnce'
           /\ \A c : Pending(c) = 0 /\ Pending(c)' = Bit(c = n)
           /\ DOMAIN todo' = {1} /\ todo'[1] = FreeTask(n)
<1>1. Live' = Live
  BY DEF Live
<1>2. DOMAIN todo' = {1} /\ todo'[1] = FreeTask(n) /\ todo'[1].op = "free"
  BY DEF FreeCall, FreeTask
<1>3. Linking = {} /\ Linking' = {}
  BY <1>2 DEF Linking
<1>4. InUse = Live /\ InUse' = Live /\ Parents' = Parents
  BY <1>1, <1>3 DEF InUse, Parents
<1>5. FreeListChained' /\ LinksOnce'
  BY <1>2 DEF ListInv, FreeListChained, LinksOnce
<1>6. ASSUME NEW c PROVE Pending(c) = 0 /\ Pending(c)' = Bit(c = n)
  <2>1. {i \in DOMAIN todo : todo[i] = [op |-> "free", node |-> c]} = {}
    OBVIOUS
  <2>2. {i \in DOMAIN todo' : todo'[i] = [op |-> "free", node |-> c]}
          = IF c = n THEN {1} ELSE {}
    BY <1>2 DEF FreeTask
  <2>3. Cardinality({}) = 0 /\ Cardinality({1}) = 1
    BY FS_EmptySet, FS_Singleton
  <2> QED
    BY <2>1, <2>2, <2>3 DEF Pending, Bit
<1> QED
  BY <1>1, <1>2, <1>4, <1>5, <1>6

\* Whoever holds the result of a part is the dummy root, once.
LEMMA ResultHeldOnce ==
    ASSUME IInv, ListInv, NEW level \in [Address -> Nat], NEW graph \in [Address -> Nat],
           GraphSound(level, graph), pc = "returned", todo = <<>>
    PROVE  /\ \A p \in Parents : left[root] \in {left[p], right[p]} => p = root
           /\ Edges(left[root]) = 1
<1>1. NodeFacts /\ HeapTypeOK /\ Underway
  BY NodeFactsHold DEF IInv, TypeOK, Underway
<1>2. /\ root \in Parents /\ right[root] \in Parents /\ root # right[root]
      /\ left[right[root]] = Null /\ right[right[root]] = Null
      /\ left[root] \in InUse \ Dummies
      /\ \A p \in Parents \ {root} : left[p] \notin Dummies /\ right[p] \notin Dummies
  BY <1>1 DEF GraphSound, DummiesApart
<1>3. PICK v \in Address, h \in Address, D \in Address :
         v = left[root] /\ h = root /\ D = right[root] /\ Dummies = {h, D}
  BY <1>1, <1>2 DEF NodeFacts, Dummies
<1>4. v # Null /\ v # h /\ v # D /\ v \in InUse /\ h \in InUse
  BY <1>1, <1>2, <1>3 DEF NodeFacts
<1>5. graph[v] = graph[h]
  BY <1>2, <1>3, <1>4 DEF GraphSound, Ordered
<1>6. \A p \in Parents : v \in {left[p], right[p]} => p = h
  <2> DEFINE T == {q \in InUse \ {h, D} : graph[q] = graph[h] /\ level[q] < level[v]}
  <2> SUFFICES ASSUME NEW p \in Parents, v \in {left[p], right[p]}, p # h PROVE FALSE
    OBVIOUS
  <2>1. p \in T
    <3>1. p \in InUse /\ p # D
      BY <1>1, <1>2, <1>3, <1>4 DEF NodeFacts
    <3>2. level[p] < level[v] /\ graph[p] = graph[v]
      BY <1>4 DEF GraphSound, Ordered
    <3> QED
      BY <1>5, <3>1, <3>2
  <2>2. T \in SUBSET Address
    BY <1>1 DEF NodeFacts
  <2>3. PICK q \in T : \A y \in T : level[q] <= level[y]
    <3> HIDE DEF T
    <3> QED
      BY <2>1, <2>2, MinimalExists
  <2>4. q \in InUse /\ q \in Live /\ q \in Address /\ q # h /\ q # D /\ graph[q] = graph[h]
        /\ level[q] < level[v]
    BY <1>1 DEF NodeFacts
  <2>5. refcnt[q] # 0
    <3>1. ~\E i \in DOMAIN values : values[i] = q
      <4>1. \A i \in DOMAIN values : graph[values[i]] = i /\ i \in 1..Len(values)
        BY LenProperties DEF GraphSound, ValuesSound, IInv, TypeOK
      <4>2. graph[h] = Len(values) + 1 /\ Len(values) \in Nat
        BY <1>1, <1>3, LenProperties DEF GraphSound, ValuesSound, IInv, TypeOK
      <4> QED
        BY <2>4, <4>1, <4>2
    <3> QED
      BY <2>4, <3>1 DEF GraphSound, NoGarbage
  <2>6. Edges(q) # 0
    <3>1. refcnt[q] = Edges(q) + Pending(q) + Holders[q]
      BY <2>4 DEF GraphSound, CountsExact
    <3>2. Holders[q] = 0
      BY <1>3, <2>4 DEF Holders, Bit
    <3>3. Pending(q) = 0
      BY <1>1 DEF NodeFacts
    <3> QED
      BY <2>5, <3>1, <3>2, <3>3
  <2>7. PICK s \in Parents : q \in {left[s], right[s]}
    BY <1>1, <2>6 DEF NodeFacts
  <2>8. q # Null
    BY <1>1, <2>4 DEF NodeFacts
  <2>9. level[s] < level[q] /\ graph[s] = graph[q] /\ s \in InUse /\ s \in Address
    BY <1>1, <2>7, <2>8 DEF GraphSound, Ordered, NodeFacts
  <2>10. s # D
    BY <1>2, <1>3, <2>7, <2>8
  <2>11. s # h
    <3>1. level[q] \in Nat /\ level[v] \in Nat
      BY <2>4
    <3>2. q # v
      BY <2>4, <3>1
    <3> QED
      BY <1>3, <2>4, <2>7, <3>2
  <2>12. level[s] \in Nat /\ level[q] \in Nat /\ level[v] \in Nat
    BY <2>4, <2>9
  <2>13. s \in T
    BY <2>4, <2>9, <2>10, <2>11, <2>12
  <2> QED
    BY <2>3, <2>9, <2>12, <2>13
<1>7. {p \in Parents : left[p] = v} = {h} /\ {p \in Parents : right[p] = v} = {}
  BY <1>2, <1>3, <1>4, <1>6
<1>8. Edges(v) = Cardinality({h}) + Cardinality({})
  BY <1>7 DEF Edges
<1>9. Cardinality({h}) = 1 /\ Cardinality({}) = 0
  BY FS_EmptySet, FS_Singleton
<1>10. Edges(v) = 1
  BY <1>8, <1>9
<1> QED
  BY <1>3, <1>6, <1>10

\* The dummies are counted once: by reduce_tree and by the root.
LEMMA DummiesHeldOnce ==
    ASSUME IInv, ListInv, NEW level \in [Address -> Nat], NEW graph \in [Address -> Nat],
           GraphSound(level, graph), pc = "returned", todo = <<>>
    PROVE  refcnt[root] = 1 /\ refcnt[right[root]] = 1
<1>1. NodeFacts /\ HeapTypeOK /\ Underway
  BY NodeFactsHold DEF IInv, TypeOK, Underway
<1>2. /\ root \in Parents /\ right[root] \in Parents /\ root # right[root]
      /\ left[root] \in InUse \ Dummies
      /\ \A p \in Parents \ {root} : left[p] \notin Dummies /\ right[p] \notin Dummies
  BY <1>1 DEF GraphSound, DummiesApart
<1>3. PICK h \in Address, D \in Address : h = root /\ D = right[root] /\ Dummies = {h, D}
  BY <1>1, <1>2 DEF NodeFacts, Dummies
<1>4. /\ {p \in Parents : left[p] = D} = {} /\ {p \in Parents : right[p] = D} = {h}
      /\ {p \in Parents : left[p] = h} = {} /\ {p \in Parents : right[p] = h} = {}
  BY <1>2, <1>3
<1>5. Edges(D) = Cardinality({}) + Cardinality({h}) /\ Edges(h) = Cardinality({}) + Cardinality({})
  BY <1>4 DEF Edges
<1>6. Cardinality({h}) = 1 /\ Cardinality({}) = 0
  BY FS_EmptySet, FS_Singleton
<1>7. Edges(D) = 1 /\ Edges(h) = 0
  BY <1>5, <1>6
<1>8. Holders[h] = 1 /\ Holders[D] = 0
  BY <1>1, <1>2, <1>3 DEF Holders, Bit
<1>9. Pending(h) = 0 /\ Pending(D) = 0
  BY <1>1 DEF NodeFacts
<1>10. h \in Live /\ D \in Live
  BY <1>1, <1>2, <1>3 DEF NodeFacts
<1>11. refcnt[h] = 0 + 0 + 1 /\ refcnt[D] = 1 + 0 + 0
  BY <1>7, <1>8, <1>9, <1>10 DEF GraphSound, CountsExact
<1> QED
  BY <1>3, <1>11

-----------------------------------------------------------------------------
\* The result of a part becomes a value, and the dummies are doomed.
LEMMA TakeResultSound ==
    ASSUME IInv, IInv', Control, ListInv,
           NEW level \in [Address -> Nat], NEW graph \in [Address -> Nat],
           GraphSound(level, graph), TakeResult
    PROVE  ListInv' /\ GraphSound(level, graph)' /\ WalkSound(level, graph)'
<1>1. /\ pc = "returned" /\ pc' = "parsing" /\ todo = <<>> /\ contractum = Null
      /\ refcnt' = [refcnt EXCEPT ![left[root]] = @ - 1]
      /\ values' = Append(values, left[root])
      /\ left' = [left EXCEPT ![root] = Null] /\ todo' = FreeCall(root) /\ root' = Null
      /\ UNCHANGED <<label, right, allocated, freeList>>
  BY DEF TakeResult, ResultUncounted, Control
<1>2. NodeFacts /\ NodeFacts' /\ HeapTypeOK /\ HeapTypeOK' /\ Underway /\ ~Underway'
  BY <1>1, NodeFactsHold, NodeFactsLater DEF IInv, TypeOK, Underway, Reducing
<1>3. /\ root \in Parents /\ right[root] \in Parents /\ root # right[root]
      /\ left[right[root]] = Null /\ right[right[root]] = Null
      /\ left[root] \in InUse \ Dummies
      /\ \A p \in Parents \ {root} : left[p] \notin Dummies /\ right[p] \notin Dummies
  BY <1>2 DEF GraphSound, DummiesApart
<1>4. PICK v \in Address, h \in Address, D \in Address :
         v = left[root] /\ h = root /\ D = right[root] /\ Dummies = {h, D}
  BY <1>2, <1>3 DEF NodeFacts, Dummies
<1>5. /\ v # Null /\ v # h /\ v # D /\ h # D /\ v \in InUse /\ h \in InUse /\ D \in InUse
      /\ h \in Parents /\ D \in Parents
  BY <1>2, <1>3, <1>4 DEF NodeFacts
<1>6. /\ refcnt' = [refcnt EXCEPT ![v] = @ - 1] /\ values' = Append(values, v)
      /\ left' = [left EXCEPT ![h] = Null] /\ todo' = FreeCall(h)
  BY <1>1, <1>4
<1>7. refcnt[h] = 1 /\ refcnt[D] = 1 /\ Edges(v) = 1
  BY <1>1, <1>4, ResultHeldOnce, DummiesHeldOnce
<1>8. /\ InUse = Live /\ Live' = Live /\ InUse' = Live /\ Parents' = Parents
      /\ FreeListChained' /\ LinksOnce'
      /\ \A c : Pending(c) = 0 /\ Pending(c)' = Bit(c = h)
      /\ DOMAIN todo' = {1} /\ todo'[1] = FreeTask(h)
  BY <1>1, <1>2, <1>6, CallList
<1>9. \A n \in InUse : n \in Address /\ n \in Node /\ n \in Live /\ n # Null /\ refcnt[n] \in Int
  BY <1>2 DEF NodeFacts
<1>10. /\ refcnt'[v] = refcnt[v] - 1
       /\ \A n \in Address : n # v => refcnt'[n] = refcnt[n]
  BY <1>2, <1>4, <1>6 DEF HeapTypeOK
<1>11. /\ left'[h] = Null /\ \A n \in Address : n # h => left'[n] = left[n]
  BY <1>2, <1>4, <1>6 DEF HeapTypeOK
<1>12. \A n \in InUse : Edges(n)' = Edges(n) - Bit(n = v)
  <2> SUFFICES ASSUME NEW n \in InUse PROVE Edges(n)' = Edges(n) - Bit(n = v)
    OBVIOUS
  <2>1. Edges(n)' = Edges(n)
              + Bit(h \in Parents' /\ left'[h] = n) + Bit(h \in Parents' /\ right'[h] = n)
              - Bit(h \in Parents /\ left[h] = n) - Bit(h \in Parents /\ right[h] = n)
    <3>1. /\ Parents' \ {h} = Parents \ {h}
          /\ \A q \in Parents \ {h} : left'[q] = left[q] /\ right'[q] = right[q]
      <4>1. \A q \in Parents : q \in Address
        BY <1>2 DEF NodeFacts
      <4> QED
        BY <1>1, <1>8, <1>11, <4>1
    <3> QED
      BY <1>2, <3>1, EdgesDiffer
  <2>2. left'[h] # n /\ right'[h] = right[h] /\ (left[h] = n <=> n = v) /\ Edges(n) \in Nat
    BY <1>1, <1>2, <1>4, <1>9, <1>11 DEF NodeFacts
  <2> QED
    BY <1>5, <1>8, <2>1, <2>2 DEF Bit
<1>13. /\ values \in Seq(Address) /\ Len(values) \in Nat /\ DOMAIN values = 1..Len(values)
       /\ DOMAIN values' = 1..Len(values) + 1 /\ values'[Len(values) + 1] = v
       /\ \A i \in DOMAIN values : values'[i] = values[i]
  <2>1. values \in Seq(Address) /\ Len(values) \in Nat /\ DOMAIN values = 1..Len(values)
    BY LenProperties DEF IInv, TypeOK
  <2>2. /\ Append(values, v) \in Seq(Address) /\ Len(Append(values, v)) = Len(values) + 1
        /\ \A i \in 1..Len(values) : Append(values, v)[i] = values[i]
        /\ Append(values, v)[Len(values) + 1] = v
    BY <1>4, <2>1, AppendProperties
  <2>3. DOMAIN Append(values, v) = 1..Len(values) + 1
    BY <2>2, LenProperties
  <2> QED
    BY <1>6, <2>1, <2>2, <2>3
<1>14. /\ \A i \in DOMAIN values :
             values[i] \in InUse /\ refcnt[values[i]] = 0 /\ graph[values[i]] = i
       /\ graph[h] = Len(values) + 1 /\ graph[v] = graph[h]
  <2>1. /\ \A i \in DOMAIN values :
              values[i] \in InUse /\ refcnt[values[i]] = 0 /\ graph[values[i]] = i
        /\ graph[h] = Len(values) + 1
    BY <1>2, <1>4 DEF GraphSound, ValuesSound
  <2>2. graph[v] = graph[h]
    BY <1>4, <1>5 DEF GraphSound, Ordered
  <2> QED
    BY <2>1, <2>2
<1>15. \A n \in Address : Holders[n] = Bit(n = h) /\ Holders'[n] = 0
  <2>1. \A n \in Address : Holders[n] = Bit(n = h)
    BY <1>1, <1>2, <1>4 DEF Holders, Bit
  <2>2. \A n \in Address : Holders'[n] = 0
    BY <1>1, <1>2 DEF Holders, Bit
  <2> QED
    BY <2>1, <2>2
<1>16. \A n \in Live : refcnt[n] = Edges(n) + 0 + Bit(n = h) /\ Edges(n) \in Nat
  <2> SUFFICES ASSUME NEW n \in Live
               PROVE  refcnt[n] = Edges(n) + 0 + Bit(n = h) /\ Edges(n) \in Nat
    OBVIOUS
  <2>1. refcnt[n] = Edges(n) + Pending(n) + Holders[n]
    BY DEF GraphSound, CountsExact
  <2>2. Pending(n) = 0 /\ Holders[n] = Bit(n = h) /\ Edges(n) \in Nat
    BY <1>2, <1>8, <1>9, <1>15 DEF NodeFacts
  <2> QED
    BY <2>1, <2>2
<1>17. refcnt'[v] = 0
  <2>1. refcnt[v] = 1 + 0 + 0
    BY <1>5, <1>7, <1>8, <1>16 DEF Bit
  <2> QED
    BY <1>10, <2>1
<1>18. ListInv'
  <2>1. DeadUncounted'
    <3> SUFFICES ASSUME NEW n \in Node \ InUse PROVE refcnt'[n] <= 0
      BY <1>8 DEF DeadUncounted
    <3>1. n \in Address /\ n # v /\ refcnt[n] <= 0
      BY <1>2, <1>5 DEF ListInv, DeadUncounted, NodeFacts
    <3> QED
      BY <1>10, <3>1
  <2> QED
    BY <1>8, <2>1 DEF ListInv
<1>19. CountsExact(Holders)'
  <2> SUFFICES ASSUME NEW n \in Live
               PROVE  refcnt'[n] = Edges(n)' + Pending(n)' + Holders'[n]
    BY <1>8 DEF CountsExact
  <2>1. /\ n \in Address /\ n \in InUse /\ refcnt[n] = Edges(n) + 0 + Bit(n = h) /\ Edges(n) \in Nat
    BY <1>8, <1>9, <1>16
  <2>2. Edges(n)' = Edges(n) - Bit(n = v) /\ Pending(n)' = Bit(n = h) /\ Holders'[n] = 0
    BY <1>8, <1>12, <1>15, <2>1
  <2>3. CASE n = v
    BY <1>5, <1>7, <1>17, <2>2, <2>3 DEF Bit
  <2>4. CASE n # v
    <3>1. refcnt'[n] = refcnt[n] /\ Edges(n)' = Edges(n) - 0
      BY <1>10, <2>1, <2>2, <2>4 DEF Bit
    <3> QED
      BY <2>1, <2>2, <3>1 DEF Bit
  <2> QED
    BY <2>3, <2>4
<1>20. Ordered(level, graph)'
  <2> SUFFICES ASSUME NEW p \in Parents, NEW c \in {left'[p], right'[p]} \ {Null}
               PROVE  c \in InUse' /\ level[p] < level[c] /\ graph[p] = graph[c]
    BY <1>8 DEF Ordered
  <2>1. c \in {left[p], right[p]} \ {Null}
    <3>1. p \in Address
      BY <1>2 DEF NodeFacts
    <3> QED
      BY <1>1, <1>11, <3>1
  <2> QED
    BY <1>8, <2>1 DEF GraphSound, Ordered
<1>21. CallsInUse'
  BY <1>5, <1>8 DEF CallsInUse, FreeTask
<1>22. NoGarbage'
  <2> SUFFICES ASSUME NEW n \in InUse, refcnt'[n] = 0
               PROVE  \E i \in DOMAIN values' : values'[i] = n
    BY <1>8 DEF NoGarbage
  <2>1. CASE n = v
    <3>1. Len(values) + 1 \in DOMAIN values'
      BY <1>13
    <3> QED
      BY <1>13, <2>1, <3>1
  <2>2. CASE n # v
    <3>1. refcnt[n] = 0
      BY <1>9, <1>10, <2>2
    <3>2. PICK i \in DOMAIN values : values[i] = n
      BY <1>1, <3>1 DEF GraphSound, NoGarbage
    <3>3. i \in DOMAIN values'
      BY <1>13
    <3> QED
      BY <1>13, <3>2, <3>3
  <2> QED
    BY <2>1, <2>2
<1>23. DummiesApart'
  BY <1>2 DEF DummiesApart
<1>24. HollowOnly'
  <2> SUFFICES ASSUME NEW p \in Parents, left'[p] = Null \/ right'[p] = Null
               PROVE  Doomed(p)'
    BY <1>1, <1>8 DEF HollowOnly
  <2>1. p \in Address
    BY <1>2 DEF NodeFacts
  <2>2. refcnt'[h] = 1 /\ refcnt'[D] = 1 /\ Pending(h)' = 1 /\ right'[h] = D /\ h \in Parents'
    BY <1>1, <1>4, <1>5, <1>7, <1>8, <1>10 DEF Bit
  <2>3. CASE p = h
    BY <2>2, <2>3 DEF Doomed
  <2>4. CASE p # h
    <3>1. left[p] = Null \/ right[p] = Null
      BY <1>1, <1>11, <2>1, <2>4
    <3>2. p = D
      BY <1>1, <1>4, <3>1 DEF GraphSound, HollowOnly
    <3> QED
      BY <2>2, <3>2 DEF Doomed
  <2> QED
    BY <2>3, <2>4
<1>25. ValuesSound(graph)'
  <2> SUFFICES ASSUME NEW i \in DOMAIN values'
               PROVE  values'[i] \in InUse' /\ refcnt'[values'[i]] = 0 /\ graph[values'[i]] = i
    BY <1>2 DEF ValuesSound
  <2>1. CASE i = Len(values) + 1
    BY <1>5, <1>8, <1>13, <1>14, <1>17, <2>1
  <2>2. CASE i # Len(values) + 1
    <3>1. i \in DOMAIN values
      <4>1. i \in 1..Len(values) + 1 /\ i # Len(values) + 1 /\ Len(values) \in Nat
        BY <1>13, <2>2
      <4>2. i \in 1..Len(values)
        BY <4>1
      <4> QED
        BY <1>13, <4>2
    <3>2. values'[i] = values[i] /\ values[i] \in InUse /\ refcnt[values[i]] = 0 /\ graph[values[i]] = i
      BY <1>13, <1>14, <3>1
    <3>3. values[i] # v
      BY <1>13, <1>14, <2>2, <3>2
    <3> QED
      BY <1>8, <1>9, <1>10, <3>2, <3>3
  <2> QED
    BY <2>1, <2>2
<1>26. GraphSound(level, graph)'
  BY <1>19, <1>20, <1>21, <1>22, <1>23, <1>24, <1>25 DEF GraphSound
<1>27. WalkSound(level, graph)'
  BY <1>1 DEF WalkSound, StackSound, ContractumSound, DirSound, Reducing
<1> QED
  BY <1>18, <1>26, <1>27

\* The statement's result is printed, its graph is to be released.
LEMMA ReleaseGraphSound ==
    ASSUME IInv, IInv', Control, ListInv, NEW level, NEW graph, ReleaseGraph
    PROVE  /\ ListInv'
           /\ GraphSound(level, graph) => GraphSound(level, graph)' /\ WalkSound(level, graph)'
<1>1. /\ pc = "returned" /\ pc' = "release" /\ todo = <<>> /\ todo' = FreeCall(root)
      /\ UNCHANGED <<label, left, right, refcnt, allocated, freeList, root, values>>
  BY DEF ReleaseGraph, Control, parser, statement
<1>2. NodeFacts /\ NodeFacts' /\ HeapTypeOK /\ HeapTypeOK' /\ Underway /\ ~Underway' /\ root \in Address
  BY <1>1, NodeFactsHold, NodeFactsLater DEF IInv, TypeOK, Underway, Reducing
<1>3. PICK h \in Address : h = root
  BY <1>2
<1>4. /\ InUse = Live /\ Live' = Live /\ InUse' = Live /\ Parents' = Parents
      /\ FreeListChained' /\ LinksOnce'
      /\ \A c : Pending(c) = 0 /\ Pending(c)' = Bit(c = h)
      /\ DOMAIN todo' = {1} /\ todo'[1] = FreeTask(h)
  BY <1>1, <1>2, <1>3, CallList
<1>5. ListInv'
  BY <1>1, <1>4 DEF ListInv, DeadUncounted
<1>6. ASSUME GraphSound(level, graph) PROVE GraphSound(level, graph)' /\ WalkSound(level, graph)'
  <2>1. CountsExact(Holders)'
    <3> SUFFICES ASSUME NEW n \in Live
                 PROVE  refcnt'[n] = Edges(n)' + Pending(n)' + Holders'[n]
      BY <1>4 DEF CountsExact
    <3>1. Edges(n)' = Edges(n) /\ Edges(n) \in Nat /\ n \in Address
      <4>1. Edges(n)' = Edges(n)
        BY <1>1, <1>4 DEF Edges
      <4> QED
        BY <1>2, <4>1 DEF NodeFacts
    <3>2. Holders[n] = Bit(n = h)
      BY <1>1, <1>2, <1>3, <3>1 DEF Holders, Bit
    <3>3. Holders'[n] = 0
      BY <1>1, <1>2, <3>1 DEF Holders, Bit
    <3>4. refcnt[n] = Edges(n) + Pending(n) + Holders[n]
      BY <1>6 DEF GraphSound, CountsExact
    <3> QED
      BY <1>1, <1>4, <3>1, <3>2, <3>3, <3>4 DEF Bit
  <2>2. Ordered(level, graph)'
    BY <1>1, <1>4, <1>6 DEF GraphSound, Ordered
  <2>3. CallsInUse'
    <3>1. root \in InUse
      BY <1>2, <1>6 DEF GraphSound, DummiesApart, NodeFacts
    <3> QED
      BY <1>3, <1>4, <3>1 DEF CallsInUse, FreeTask
  <2>4. NoGarbage'
    BY <1>1, <1>4, <1>6 DEF GraphSound, NoGarbage
  <2>5. DummiesApart' /\ HollowOnly'
    BY <1>1, <1>2 DEF DummiesApart, HollowOnly
  <2>6. ValuesSound(graph)'
    BY <1>1, <1>2, <1>4, <1>6 DEF GraphSound, ValuesSound
  <2>7. WalkSound(level, graph)'
    BY <1>1 DEF WalkSound, StackSound, ContractumSound, DirSound, Reducing
  <2> QED
    BY <2>1, <2>2, <2>3, <2>4, <2>5, <2>6, <2>7 DEF GraphSound
<1> QED
  BY <1>5, <1>6

\* A statement begins with an empty arena.
LEMMA StartSound ==
    ASSUME IInv, IInv', Control, ParserSound, ListInv, pc = "prompt", NEW e, StartStatement(e),
           NEW level, NEW graph
    PROVE  ListInv' /\ GraphSound(level, graph)' /\ WalkSound(level, graph)'
<1>1. /\ pc' = "parsing" /\ UNCHANGED heap /\ UNCHANGED values /\ allocated = 0 /\ values = <<>>
      /\ todo = <<>>
  BY DEF StartStatement, Control, ParserSound
<1>2. /\ Live' = {} /\ InUse' = {} /\ Parents' = {} /\ todo' = <<>>
  BY <1>1 DEF heap, Live, InUse, Parents
<1>3. ListInv'
  BY <1>1, HeapKept DEF heap
<1>4. GraphSound(level, graph)'
  <2>1. CountsExact(Holders)' /\ Ordered(level, graph)' /\ CallsInUse' /\ NoGarbage'
    BY <1>2 DEF CountsExact, Ordered, CallsInUse, NoGarbage
  <2>2. DummiesApart' /\ HollowOnly' /\ ValuesSound(graph)'
    BY <1>1, <1>2 DEF DummiesApart, HollowOnly, ValuesSound, Underway, Reducing
  <2> QED
    BY <2>1, <2>2 DEF GraphSound
<1>5. WalkSound(level, graph)'
  BY <1>1 DEF WalkSound, StackSound, ContractumSound, DirSound, Reducing
<1> QED
  BY <1>3, <1>4, <1>5

-----------------------------------------------------------------------------
\* siglongjmp abandons free_node's work: what it was releasing is lost, and
\* the free list is whole.
LEMMA LongJumpList ==
    ASSUME IInv, ListInv, LongJump
    PROVE  ListInv'
<1>1. todo' = <<>> /\ UNCHANGED <<label, left, right, refcnt, allocated, freeList>>
  BY DEF LongJump
<1>2. Live' = Live
  BY <1>1 DEF Live
<1>3. InUse \subseteq InUse'
  BY <1>1, <1>2 DEF InUse, Linking
<1>4. FreeListChained' /\ LinksOnce'
  BY <1>1 DEF ListInv, FreeListChained, LinksOnce
<1>5. DeadUncounted'
  BY <1>1, <1>3 DEF ListInv, DeadUncounted
<1> QED
  BY <1>4, <1>5 DEF ListInv

\* reset_node_allocation leaves an empty list.
LEMMA BlankList ==
    ASSUME freeList = <<>>, todo = <<>>, \A n \in Node : refcnt[n] = 0
    PROVE  ListInv
BY DEF ListInv, FreeListChained, LinksOnce, DeadUncounted

\* The same, of the next state.
LEMMA BlankListLater ==
    ASSUME freeList' = <<>>, todo' = <<>>, \A n \in Node : refcnt'[n] = 0
    PROVE  ListInv'
BY DEF ListInv, FreeListChained, LinksOnce, DeadUncounted

\* A step of free_node keeps the list, whatever the counts are.
LEMMA FreeStepList ==
    ASSUME HeapTypeOK, HeapTypeOK', ListInv, FreeStep
    PROVE  ListInv'
BY FreeStepCases, FreeNothingList, FreeSharedList, FreeLastList, LinkOneList

\* One step of an uninterrupted statement.
LEMMA WorkSound ==
    ASSUME IInv, IInv', Control, ListInv,
           NEW level \in [Address -> Nat], NEW graph \in [Address -> Nat],
           GraphSound(level, graph), WalkSound(level, graph),
           Work \/ (ReadLine /\ ~LongJump /\ pc' # "exited"), ~Cleanup
    PROVE  ListInv' /\ \E l, g \in [Address -> Nat] : GraphSound(l, g)' /\ WalkSound(l, g)'
<1>1. CASE ParseTerm \/ ParseApplication
  BY <1>1, ParseSound
<1>2. CASE StartReduction
  BY <1>2, StartReductionSound
<1>3. CASE TakeResult
  BY <1>3, TakeResultSound
<1>4. CASE PushLeft \/ PushRight
  <2>1. UNCHANGED <<label, left, right, refcnt, allocated, freeList, todo>>
    BY <1>4 DEF PushLeft, PushRight
  <2>2. ListInv'
    BY <2>1, HeapKept
  <2> QED
    BY <1>4, <2>2, PushSound
<1>5. CASE PopUp \/ KeepReducing
  <2>1. UNCHANGED heap
    BY <1>5 DEF PopUp, KeepReducing
  <2>2. ListInv'
    BY <2>1, HeapKept DEF heap
  <2> QED
    BY <1>5, <2>2, PopUpSound, KeepReducingSound
<1>6. CASE BuildContractum
  BY <1>6, BuildSound
<1>7. CASE StoreContractum
  BY <1>7, StoreSound
<1>8. CASE CountContractum
  BY <1>8, CountSound
<1>9. CASE FreeNode
  BY <1>9, FreeNodeSound
<1>10. CASE \/ ContractionDone \/ StopOnCycle \/ StopAtLimit \/ ReachNormalForm
            \/ ReadLine /\ ~LongJump /\ pc' # "exited"
  <2>1. UNCHANGED heap
    BY <1>10 DEF ContractionDone, StopOnCycle, StopAtLimit, ReachNormalForm, ExitReduceGraph, ReadLine
  <2>2. ListInv'
    BY <2>1, HeapKept DEF heap
  <2> QED
    BY <1>10, <2>2, QuietSound
<1>11. CASE ReleaseGraph
  BY <1>11, ReleaseGraphSound
<1> QED
  BY <1>1, <1>2, <1>3, <1>4, <1>5, <1>6, <1>7, <1>8, <1>9, <1>10, <1>11 DEF Work

\* A step in which nothing happens.
LEMMA HeapStutters ==
    ASSUME HeapInv, UNCHANGED vars
    PROVE  HeapInv'
<1>1. /\ UNCHANGED <<label, left, right, refcnt, updateable, allocated, freeList, todo>>
      /\ UNCHANGED <<pc, values, root, stack, dir, pop_stack_cnt, contractum>>
      /\ UNCHANGED <<reduction_interrupted, part_interrupted>>
  BY DEF vars, heap, parser, walk, redex, statement
<1>2. /\ Live' = Live /\ InUse' = InUse /\ Parents' = Parents
      /\ \A n : Edges(n)' = Edges(n) /\ Pending(n)' = Pending(n)
      /\ ListInv => ListInv'
  BY <1>1, HeapKept
<1>3. Underway' = Underway /\ Holders' = Holders /\ Dummies' = Dummies /\ Kept' = Kept
  BY <1>1 DEF Underway, Holders, RedexNode, PARENTNODE, Dummies, Kept
<1>4. ASSUME NEW level, NEW graph, GraphSound(level, graph)
      PROVE  GraphSound(level, graph)'
  <2>1. CountsExact(Holders)'
    BY <1>1, <1>2, <1>3, <1>4 DEF GraphSound, CountsExact
  <2>2. Ordered(level, graph)' /\ CallsInUse'
    BY <1>1, <1>2, <1>4 DEF GraphSound, Ordered, CallsInUse
  <2>3. NoGarbage' /\ DummiesApart'
    BY <1>1, <1>2, <1>3, <1>4 DEF GraphSound, NoGarbage, DummiesApart
  <2>4. HollowOnly' /\ ValuesSound(graph)'
    BY <1>1, <1>2, <1>3, <1>4 DEF GraphSound, HollowOnly, Doomed, ValuesSound
  <2> QED
    BY <2>1, <2>2, <2>3, <2>4 DEF GraphSound
<1>5. ASSUME NEW level, NEW graph, WalkSound(level, graph)
      PROVE  WalkSound(level, graph)'
  <2>1. StackSound(level, graph)'
    BY <1>1, <1>2, <1>3, <1>5 DEF WalkSound, StackSound, LeadsOn
  <2>2. ContractumSound(level, graph)' /\ DirSound'
    BY <1>1, <1>2, <1>3, <1>5 DEF WalkSound, ContractumSound, DirSound, RedexParent, RedexNode,
       PARENTNODE, TOPNODE
  <2> QED
    BY <2>1, <2>2 DEF WalkSound
<1> QED
  BY <1>1, <1>2, <1>4, <1>5 DEF HeapInv, Uninterrupted

\* Every step keeps the heap, the graphs and the walk.
LEMMA HeapKeptSound ==
    ASSUME IInv, IInv', Control, ParserSound, HeapInv, [Next]_vars
    PROVE  HeapInv'
<1>1. CASE UNCHANGED vars
  BY <1>1, HeapStutters
<1>2. CASE Configure
  <2>1. UNCHANGED <<heap, pc, statement>> /\ pc = "prompt"
    BY <1>2 DEF Configure
  <2> QED
    BY <2>1, HeapKept DEF heap, statement, HeapInv, Uninterrupted
<1>3. ASSUME NEW e \in Expressions, pc = "prompt", StartStatement(e)
      PROVE  HeapInv'
  <2>1. UNCHANGED statement /\ ~reduction_interrupted /\ ~part_interrupted
    BY <1>3 DEF StartStatement, Control
  <2>2. PICK z \in [Address -> Nat] : TRUE
    <3>1. [n \in Address |-> 0] \in [Address -> Nat]
      OBVIOUS
    <3> QED
      BY <3>1
  <2>3. ListInv' /\ GraphSound(z, z)' /\ WalkSound(z, z)'
    BY <1>3, <2>1, StartSound DEF HeapInv
  <2> QED
    BY <2>3 DEF HeapInv
<1>4. CASE LongJump
  <2>1. reduction_interrupted' /\ UNCHANGED part_interrupted
    BY <1>4 DEF LongJump
  <2> QED
    BY <1>4, <2>1, LongJumpList DEF HeapInv, Uninterrupted
<1>5. CASE Cleanup
  <2>1. freeList' = <<>> /\ todo' = <<>> /\ pc' = "prompt" /\ \A n \in Node : refcnt'[n] = 0
    BY <1>5 DEF Cleanup, ResetNodeAllocation, Address
  <2> QED
    BY <2>1, BlankListLater DEF HeapInv, Uninterrupted
<1>6. CASE ReadLine /\ ~LongJump /\ pc' = "exited"
  <2>1. UNCHANGED heap /\ UNCHANGED statement
    BY <1>6 DEF ReadLine
  <2> QED
    BY <1>6, <2>1, HeapKept DEF heap, statement, HeapInv, Uninterrupted
<1>7. CASE (Work /\ ~Cleanup) \/ (ReadLine /\ ~LongJump /\ pc' # "exited")
  <2>1. /\ UNCHANGED reduction_interrupted /\ pc \notin {"prompt", "exited"}
        /\ UNCHANGED part_interrupted \/ (TakeResult /\ part_interrupted' = reduction_interrupted)
    BY <1>7 DEF Work, ParseTerm, ParseApplication, ParseNode, Parsing, StartReduction, TakeResult,
       PushLeft, PushRight, AtApplication, PopUp, BuildContractum, StoreContractum, CountContractum,
       FreeNode, ContractionDone, StopOnCycle, StopAtLimit, KeepReducing, ReachNormalForm,
       ExitReduceGraph, ReleaseGraph, ReadLine, statement
  <2>2. CASE ~reduction_interrupted
    <3>1. ~part_interrupted /\ Uninterrupted
      BY <2>1, <2>2 DEF Control, Uninterrupted
    <3>2. PICK level \in [Address -> Nat], graph \in [Address -> Nat] :
             GraphSound(level, graph) /\ WalkSound(level, graph)
      BY <3>1 DEF HeapInv
    <3>3. ListInv' /\ \E l, g \in [Address -> Nat] : GraphSound(l, g)' /\ WalkSound(l, g)'
      BY <1>7, <3>1, <3>2, WorkSound DEF HeapInv, Cleanup, ReadLine
    <3> QED
      BY <3>3 DEF HeapInv
  <2>3. CASE reduction_interrupted
    <3>1. ~Uninterrupted'
      BY <2>1, <2>3 DEF Uninterrupted
    <3> SUFFICES ASSUME ~part_interrupted' PROVE ListInv'
      BY <3>1 DEF HeapInv
    <3>a. ~TakeResult
      BY <2>3 DEF TakeResult
    <3>b. ~part_interrupted
      BY <2>1, <3>a
    <3>2. ~part_interrupted /\ ListInv /\ pc \in {"returned", "release"} /\ ~TakeResult
      BY <2>1, <2>3, <3>a, <3>b DEF HeapInv, Control
    <3>3. ReleaseGraph \/ FreeNode
      BY <1>7, <3>2 DEF Work, ParseTerm, ParseApplication, Parsing, StartReduction,
         PushLeft, PushRight, AtApplication, PopUp, BuildContractum, StoreContractum, CountContractum,
         ContractionDone, StopOnCycle, StopAtLimit, KeepReducing, ReachNormalForm, ReadLine
    <3>4. CASE ReleaseGraph
      BY <3>2, <3>4, ReleaseGraphSound
    <3>5. CASE FreeNode
      BY <3>2, <3>5, FreeStepList DEF FreeNode, IInv, TypeOK
    <3> QED
      BY <3>3, <3>4, <3>5
  <2> QED
    BY <2>2, <2>3
<1>8. CASE \E s \in Signals : Interrupt(s)
  BY <1>4, <1>8 DEF Interrupt
<1>9. CASE Exited
  BY <1>1, <1>9 DEF Exited
<1> QED
  BY <1>1, <1>2, <1>3, <1>4, <1>5, <1>6, <1>7, <1>8, <1>9 DEF Next

-----------------------------------------------------------------------------
\* At the first prompt nothing has been allocated.
LEMMA InitGraph == Init => GInv
<1> SUFFICES ASSUME Init PROVE GInv
  OBVIOUS
<1>1. /\ pc = "prompt" /\ typed = <<>> /\ values = <<>> /\ stack = <<>> /\ root = Null
      /\ contractum = Null /\ ~reduction_interrupted /\ ~part_interrupted
      /\ allocated = 0 /\ freeList = <<>> /\ todo = <<>>
      /\ \A n \in Address : refcnt[n] = 0
  BY DEF Init, HeapInit
<1>2. Control
  BY <1>1 DEF Control, Reducing
<1>3. ParserSound
  BY <1>1 DEF ParserSound, Underway, Reducing
<1>4. ListInv
  BY <1>1, BlankList DEF Address
<1>5. HeapInv
  BY <1>1, <1>4 DEF HeapInv, Uninterrupted
<1> QED
  BY <1>2, <1>3, <1>5, InitInvariant DEF GInv

\* Every step preserves it.
LEMMA NextGraph == GInv /\ [Next]_vars => GInv'
<1> SUFFICES ASSUME GInv, [Next]_vars PROVE GInv'
  OBVIOUS
<1>1. IInv'
  BY NextInvariant DEF GInv
<1>2. Control' /\ ParserSound'
  BY ControlKept, ParserKept DEF GInv
<1>3. HeapInv'
  BY <1>1, HeapKeptSound DEF GInv
<1> QED
  BY <1>1, <1>2, <1>3 DEF GInv

\* The graph invariant holds in every behaviour of the interpreter.
THEOREM GraphInvariance == Spec => []GInv
BY InitGraph, NextGraph, PTL DEF Spec

-----------------------------------------------------------------------------
\* The free list stays a list, also when a signal cut a contraction or a
\* free_node short, until an interrupted part is handed to the parser.
THEOREM FreeListStaysIntact == Spec => []FreeListIntact
<1>1. GInv => FreeListIntact
  BY DEF GInv, HeapInv, ListInv, FreeListIntact
<1> QED
  BY <1>1, GraphInvariance, PTL

\* In an uninterrupted statement a node's reference count is the number of
\* fields, pending free_node calls and holds of reduce_tree that refer to it.
THEOREM CountsAreExact == Spec => []RefCountsExact
<1>1. GInv => RefCountsExact
  <2> SUFFICES ASSUME GInv, ~reduction_interrupted,
                      pc \in {"parsing", "loop", "freeing", "settle", "returned", "release"},
                      NEW n \in Live
               PROVE  refcnt[n] = Edges(n) + Pending(n)
                                    + (IF n = root /\ pc # "release" THEN 1 ELSE 0)
    BY DEF RefCountsExact
  <2>1. NodeFacts
    BY NodeFactsHold DEF GInv, IInv, TypeOK
  <2>2. n \in Address /\ n # Null /\ Edges(n) \in Nat /\ Pending(n) \in Nat
    BY <2>1 DEF NodeFacts
  <2>3. refcnt[n] = Edges(n) + Pending(n) + Holders[n]
    BY DEF GInv, HeapInv, Uninterrupted, GraphSound, CountsExact
  <2>4. pc = "parsing" => root = Null
    BY DEF GInv, Control
  <2>5. Holders[n] = IF n = root /\ pc # "release" THEN 1 ELSE 0
    BY <2>2, <2>4 DEF Holders, Bit, Underway, Reducing
  <2> QED
    BY <2>3, <2>5
<1> QED
  BY <1>1, GraphInvariance, PTL

\* The spine stack is the path from the dummy root to the node in hand.
THEOREM SpineIsPath == Spec => []StackIsPath
<1>1. GInv => StackIsPath
  <2> SUFFICES ASSUME GInv, pc \in {"loop", "store"}, stack # <<>>, ~reduction_interrupted
               PROVE  /\ stack[1] = [node |-> root, depth |-> 1]
                      /\ \A i \in 1..Len(stack)-1 : LeadsOn(stack[i], stack[i + 1])
    BY DEF StackIsPath
  <2>1. PICK level, graph : WalkSound(level, graph)
    BY DEF GInv, HeapInv, Uninterrupted
  <2>2. Kept = Len(stack)
    BY DEF Kept
  <2> QED
    BY <2>1, <2>2 DEF WalkSound, StackSound, Reducing
<1> QED
  BY <1>1, GraphInvariance, PTL

\* A graph nobody holds has no nodes: the lowest of them would have a parent,
\* or a reference of its own.
LEMMA NothingHeld ==
    ASSUME HeapTypeOK, NEW level \in [Address -> Nat], NEW graph,
           GraphSound(level, graph), pc = "release", todo = <<>>, values = <<>>
    PROVE  Live = {}
<1> SUFFICES ASSUME Live # {} PROVE FALSE
  OBVIOUS
<1>1. NodeFacts
  BY NodeFactsHold
<1>2. Live \in SUBSET Address
  BY <1>1 DEF NodeFacts
<1>3. PICK n \in Live : \A m \in Live : level[n] <= level[m]
  BY <1>2, MinimalExists
<1>4. InUse = Live
  BY DEF InUse, Linking
<1>5. Edges(n) = 0
  <2> SUFFICES ASSUME NEW p \in Parents, n \in {left[p], right[p]} PROVE FALSE
    BY <1>1 DEF NodeFacts
  <2>1. p \in Live /\ n # Null /\ level[p] < level[n]
    BY <1>1, <1>4 DEF NodeFacts, GraphSound, Ordered
  <2>2. level[p] \in Nat /\ level[n] \in Nat
    BY <1>2, <2>1
  <2> QED
    BY <1>3, <2>1, <2>2
<1>6. Pending(n) = 0
  BY <1>1 DEF NodeFacts
<1>7. Holders[n] = 0
  BY <1>2 DEF Holders, Bit, Underway, Reducing
<1>8. refcnt[n] = 0
  BY <1>5, <1>6, <1>7 DEF GraphSound, CountsExact
<1> QED
  BY <1>4, <1>8 DEF GraphSound, NoGarbage

\* A list that holds every node once is as long as the arena.
LEMMA ListOfAll ==
    ASSUME HeapTypeOK, FreeListChained, Live = {}
    PROVE  AllOnFreeList
<1>1. /\ DOMAIN freeList = 1..Len(freeList) /\ Len(freeList) \in Nat /\ allocated \in Nat
  BY LenProperties DEF HeapTypeOK
<1>2. {freeList[i] : i \in DOMAIN freeList} = 1..allocated
  BY DEF Live, FreeListChained
<1>3. \A k \in Nat : IsFiniteSet(1..k) /\ Cardinality(1..k) = k
  <2> SUFFICES ASSUME NEW k \in Nat PROVE IsFiniteSet(1..k) /\ Cardinality(1..k) = k
    OBVIOUS
  <2>1. IsFiniteSet(1..k) /\ Cardinality(1..k) = IF 1 > k THEN 0 ELSE k - 1 + 1
    BY FS_Interval
  <2> QED
    BY <2>1
<1>4. Cardinality({freeList[i] : i \in DOMAIN freeList}) = Cardinality(DOMAIN freeList)
  <2>1. IsFiniteSet(DOMAIN freeList)
    BY <1>1, <1>3
  <2> QED
    BY <2>1, ImageCount DEF FreeListChained
<1> QED
  BY <1>1, <1>2, <1>3, <1>4 DEF AllOnFreeList

\* After an uninterrupted statement every node is back on the free list.
THEOREM NoNodeLost == Spec => []AllNodesReturned
<1>1. GInv => AllNodesReturned
  <2> SUFFICES ASSUME GInv, pc = "release", todo = <<>>, ~reduction_interrupted
               PROVE  AllOnFreeList
    BY DEF AllNodesReturned
  <2>1. PICK level \in [Address -> Nat], graph \in [Address -> Nat] : GraphSound(level, graph)
    BY DEF GInv, HeapInv, Uninterrupted
  <2>2. HeapTypeOK /\ FreeListChained
    BY DEF GInv, IInv, TypeOK, Control, HeapInv, ListInv
  <2>3. values = <<>>
    <3>1. PICK e \in Expressions : \E i \in 0..Len(e) :
             typed = SubSeq(e, i + 1, Len(e)) /\ GraphsAfter(e, i) = Len(values) + 1
      BY DEF GInv, ParserSound
    <3>2. PICK i \in 0..Len(e) :
             typed = SubSeq(e, i + 1, Len(e)) /\ GraphsAfter(e, i) = Len(values) + 1
      BY <3>1
    <3>3. typed = <<>>
      BY DEF GInv, ParserSound
    <3>4. i = Len(e) /\ GraphsAfter(e, Len(e)) = 1
      BY <3>2, <3>3, RestOfExpression
    <3>5. values \in Seq(Address) /\ Len(values) \in Nat
      BY LenProperties DEF GInv, IInv, TypeOK
    <3>6. Len(values) = 0
      BY <3>2, <3>4, <3>5
    <3> QED
      BY <3>5, <3>6, EmptySeq
  <2> QED
    BY <2>1, <2>2, <2>3, NothingHeld, ListOfAll
<1> QED
  BY <1>1, GraphInvariance, PTL

-----------------------------------------------------------------------------
\* The sets of nodes that lead out of themselves nowhere.
Closed(C) ==
    C \subseteq Node /\ \A m \in C : label[m] = App => {left[m], right[m]} \ {Null} \subseteq C

\* The recursive definition has a solution, whatever the graph looks like: the
\* least closed set around each node.
LEMMA SubgraphIsDefined ==
    ASSUME HeapTypeOK
    PROVE  Subgraph = [n \in Address |-> IF n = Null THEN {}
              ELSE {n} \cup (IF label[n] = App
                             THEN Subgraph[left[n]] \cup Subgraph[right[n]] ELSE {})]
<1> DEFINE Least(n) == {m \in Node : \A C \in SUBSET Node : Closed(C) /\ n \in C => m \in C}
           s == [n \in Address |-> IF n = Null THEN {} ELSE Least(n)]
           Step(f, n) == IF n = Null THEN {}
                         ELSE {n} \cup (IF label[n] = App THEN f[left[n]] \cup f[right[n]] ELSE {})
<1>1. \A n \in Address : left[n] \in Address /\ right[n] \in Address
  BY DEF HeapTypeOK
<1>2. /\ s[Null] = {} /\ \A n \in Node : s[n] = Least(n) /\ n \in s[n]
      /\ Node \subseteq Address /\ Null \notin Node
      /\ \A n \in Address : s[n] \subseteq Node /\ (n = Null \/ n \in Node)
  BY DEF Address, Node, Null
<1>3. ASSUME NEW n \in Node PROVE s[n] = Step(s, n)
  <2>1. ASSUME NEW c \in {left[n], right[n]}, label[n] = App PROVE s[c] \subseteq s[n]
    <3>1. c \in Address
      BY <1>1, <1>2, <2>1
    <3>2. CASE c = Null
      BY <1>2, <3>2
    <3>3. CASE c # Null
      <4>1. \A C : Closed(C) /\ n \in C => c \in C
        BY <2>1, <3>3 DEF Closed
      <4>2. Least(c) \subseteq Least(n)
        BY <4>1
      <4> QED
        BY <1>2, <3>1, <3>3, <4>2
    <3> QED
      BY <3>2, <3>3
  <2>2. Step(s, n) \subseteq s[n]
    <3> HIDE DEF s
    <3> QED
      BY <1>2, <2>1
  <2>3. Closed(Step(s, n)) /\ n \in Step(s, n)
    <3>1. n \in Step(s, n) /\ Step(s, n) \subseteq Node
      <4> HIDE DEF s
      <4> QED
        BY <1>1, <1>2
    <3>2. ASSUME NEW m \in Step(s, n), label[m] = App, NEW c \in {left[m], right[m]} \ {Null}
          PROVE  c \in Step(s, n)
      <4>0. c \in Address /\ c \in Node
        BY <1>1, <1>2, <3>1, <3>2
      <4>1. CASE m = n
        <5>1. c \in s[c]
          BY <1>2, <4>0
        <5> HIDE DEF s
        <5> QED
          BY <1>2, <3>2, <4>1, <5>1
      <4>2. ASSUME NEW d \in {left[n], right[n]}, label[n] = App, m \in s[d]
            PROVE  c \in s[d]
        <5>1. d \in Address /\ d # Null /\ d \in Node
          BY <1>1, <1>2, <4>2
        <5>2. \A C \in SUBSET Node : Closed(C) /\ d \in C => c \in C
          <6>1. \A C \in SUBSET Node : Closed(C) /\ d \in C => m \in C
            BY <1>2, <4>2, <5>1
          <6> QED
            BY <3>2, <6>1 DEF Closed
        <5> QED
          BY <1>2, <4>0, <5>1, <5>2
      <4> HIDE DEF s
      <4> QED
        BY <1>2, <3>2, <4>1, <4>2
    <3> HIDE DEF Step
    <3> QED
      BY <3>1, <3>2 DEF Closed
  <2>4. s[n] \subseteq Step(s, n)
    <3>1. Step(s, n) \in SUBSET Node
      <4> HIDE DEF Step
      <4> QED
        BY <2>3 DEF Closed
    <3> HIDE DEF Step
    <3> QED
      BY <1>2, <2>3, <3>1
  <2> QED
    <3> HIDE DEF Step, s
    <3> QED
      BY <2>2, <2>4
<1>4. s = [n \in Address |-> Step(s, n)]
  <2>1. \A n \in Address : s[n] = Step(s, n)
    <3> HIDE DEF s
    <3> QED
      BY <1>2, <1>3
  <2>2. s = [n \in Address |-> s[n]]
    OBVIOUS
  <2> HIDE DEF s, Step
  <2> QED
    BY <2>1, <2>2
<1>5. \E f : f = [n \in Address |-> Step(f, n)]
  <2> HIDE DEF s, Step
  <2> QED
    BY <1>4
<1>6. Subgraph = CHOOSE f : f = [n \in Address |-> Step(f, n)]
  BY DEF Subgraph
<1> QED
  BY <1>5, <1>6

\* What a node in use leads to is live: the highest node for which it is not
\* would have a child of the same kind.
LEMMA SubgraphIsLive ==
    ASSUME HeapTypeOK, NEW level \in [Address -> Nat], NEW graph, Ordered(level, graph)
    PROVE  /\ Subgraph[Null] = {}
           /\ \A n \in InUse : Subgraph[n] \subseteq Live
<1>1. NodeFacts
  BY NodeFactsHold
<1>2. /\ Subgraph[Null] = {}
      /\ \A n \in InUse : Subgraph[n] =
            {n} \cup (IF label[n] = App THEN Subgraph[left[n]] \cup Subgraph[right[n]] ELSE {})
  <2> HIDE DEF Subgraph
  <2> QED
    BY <1>1, SubgraphIsDefined DEF NodeFacts
<1> DEFINE T == {n \in InUse : ~(Subgraph[n] \subseteq Live)}
<1> HIDE DEF Subgraph
<1>3. T \in SUBSET Address
  BY <1>1 DEF NodeFacts
<1>4. SUFFICES ASSUME T # {} PROVE FALSE
  BY <1>2
<1>5. PICK n \in T : \A m \in T : level[m] <= level[n]
  <2> HIDE DEF T
  <2> QED
    BY <1>3, <1>4, MaximalExists
<1>6. label[n] = App /\ n \in Parents
  BY <1>1, <1>2, <1>5 DEF NodeFacts, Parents
<1>7. ASSUME NEW c \in {left[n], right[n]} PROVE Subgraph[c] \subseteq Live
  <2>1. CASE c = Null
    BY <1>2, <2>1
  <2>2. CASE c # Null
    <3>1. c \in InUse /\ level[n] < level[c]
      BY <1>6, <1>7, <2>2 DEF Ordered
    <3>2. level[n] \in Nat /\ level[c] \in Nat
      BY <1>1, <1>3, <3>1 DEF NodeFacts
    <3>3. c \notin T
      BY <1>5, <3>1, <3>2
    <3> QED
      BY <3>1, <3>3
  <2> QED
    BY <2>1, <2>2
<1> QED
  BY <1>1, <1>2, <1>5, <1>6, <1>7 DEF NodeFacts

\* No node that the graph, the contractum, the parser or the spine stack can
\* still reach has been given back to the free list.
THEOREM NothingFreedIsReachable == Spec => []NoDanglingReference
<1>1. GInv => NoDanglingReference
  <2> SUFFICES ASSUME GInv, pc \in Reducing \cup {"parsing", "returned"}, ~reduction_interrupted
               PROVE  Subgraph[root] \cup Subgraph[contractum]
                        \cup (UNION {Subgraph[values[i]] : i \in DOMAIN values})
                        \cup {stack[i].node : i \in 1..Len(stack)-pop_stack_cnt} \subseteq Live
    BY DEF NoDanglingReference
  <2>1. PICK level \in [Address -> Nat], graph \in [Address -> Nat] :
           GraphSound(level, graph) /\ WalkSound(level, graph)
    BY DEF GInv, HeapInv, Uninterrupted, Reducing
  <2>2. IInv /\ HeapTypeOK /\ Control
    BY DEF GInv, IInv, TypeOK
  <2>3. Subgraph[Null] = {} /\ \A n \in InUse : Subgraph[n] \subseteq Live
    BY <2>1, <2>2, SubgraphIsLive DEF GraphSound
  <2> HIDE DEF Subgraph
  <2>4. Subgraph[root] \subseteq Live
    <3>1. root = Null \/ root \in InUse
      BY <2>1, <2>2 DEF GraphSound, DummiesApart, Underway, Control, Parents
    <3> QED
      BY <2>3, <3>1
  <2>5. Subgraph[contractum] \subseteq Live
    <3>1. contractum = Null \/ contractum \in InUse
      BY <2>1, <2>2 DEF WalkSound, ContractumSound, Control
    <3> QED
      BY <2>3, <3>1
  <2>6. \A i \in DOMAIN values : Subgraph[values[i]] \subseteq Live
    BY <2>1, <2>3 DEF GraphSound, ValuesSound
  <2>7. ASSUME NEW i \in 1..Len(stack)-pop_stack_cnt PROVE stack[i].node \in Live
    <3>1. pop_stack_cnt \in Nat /\ Len(stack) \in Nat
      BY <2>2, LenProperties DEF IInv, TypeOK
    <3>2. stack # <<>> /\ pc \in Reducing
      BY <2>2, <2>7, <3>1 DEF Control, Reducing
    <3>3. i \in 1..Kept
      BY <3>1, <3>2, <2>2, StackFacts
    <3>4. stack[i].node \in InUse
      BY <2>1, <3>2, <3>3 DEF WalkSound, StackSound
    <3> QED
      BY <2>2, <3>4, LiveNodes
  <2> QED
    BY <2>4, <2>5, <2>6, <2>7
<1> QED
  BY <1>1, GraphInvariance, PTL

-----------------------------------------------------------------------------
(* Normal forms                                                            *)

\* Steps that leave the nodes in use as they are.
LEMMA RedexFreeKept ==
    ASSUME NEW W, RedexFree(W), InUse \subseteq InUse',
           \A n \in InUse : label'[n] = label[n] /\ left'[n] = left[n] /\ right'[n] = right[n]
    PROVE  RedexFree(W)'
BY DEF RedexFree, RedexAt

\* The path without levels and graphs.
LEMMA PathFacts ==
    ASSUME GInv, Uninterrupted, pc \in Reducing, stack # <<>>
    PROVE  /\ stack[1].node = root /\ stack[1].depth = 1 /\ updateable[root] = "left"
           /\ \A i \in 1..Kept : /\ stack[i].node \in InUse
                                 /\ i # 1 => stack[i].node # root
                                 /\ stack[i].depth \in Nat /\ stack[i].depth >= 1
                                 /\ i # 1 => stack[i].depth >= 2
           /\ \A i \in 1..Kept - 1 : LeadsOn(stack[i], stack[i + 1])
           /\ \A i, j \in 1..Kept : i # j => stack[i].node # stack[j].node
           /\ pc = "loop" /\ dir # "left" => TOPNODE(stack) # root
<1>1. PICK level \in [Address -> Nat], graph \in [Address -> Nat] :
         GraphSound(level, graph) /\ WalkSound(level, graph)
  BY DEF GInv, HeapInv
<1>2. /\ stack[1] = [node |-> root, depth |-> 1] /\ updateable[root] = "left"
      /\ \A i \in 1..Kept : /\ stack[i].node \in InUse
                            /\ i # 1 => stack[i].node \notin Dummies
      /\ \A i \in 1..Kept - 1 : LeadsOn(stack[i], stack[i + 1])
      /\ \A i, j \in 1..Kept : i < j => level[stack[i].node] < level[stack[j].node]
  BY <1>1 DEF WalkSound, StackSound
<1>3. /\ Kept \in 1..Len(stack) /\ Len(stack) \in Nat
      /\ \A i \in 1..Len(stack) : stack[i] \in Element /\ stack[i].node \in Address
  BY StackFacts DEF GInv
<1>4. \A i \in 1..Kept : i \in 1..Len(stack)
  BY <1>3
<1>5. \A e \in Element : e.depth \in Nat /\ e.depth >= 1
  BY DEF Element
<1>6. ASSUME NEW i \in 1..Kept, i # 1 PROVE stack[i].depth >= 2
  <2>1. i - 1 \in 1..Kept - 1 /\ i - 1 \in 1..Kept /\ (i - 1) + 1 = i
    BY <1>3, <1>6
  <2>2. LeadsOn(stack[i - 1], stack[i])
    BY <1>2, <2>1
  <2>3. stack[i].depth = stack[i - 1].depth + 1 \/ stack[i].depth = 2
    BY <2>2, LeadsOnFields
  <2>4. stack[i - 1].depth \in Nat /\ stack[i - 1].depth >= 1
    BY <1>3, <1>4, <1>5, <2>1
  <2> QED
    BY <2>3, <2>4
<1>7. ASSUME NEW i \in 1..Kept, NEW j \in 1..Kept, i # j PROVE stack[i].node # stack[j].node
  <2>1. level[stack[i].node] < level[stack[j].node] \/ level[stack[j].node] < level[stack[i].node]
    BY <1>2, <1>3, <1>7
  <2>2. level[stack[i].node] \in Nat /\ level[stack[j].node] \in Nat
    BY <1>3, <1>4
  <2> QED
    BY <2>1, <2>2
<1>8. stack[1].node = root /\ stack[1].depth = 1
  BY <1>2
<1>9. pc = "loop" /\ dir # "left" => TOPNODE(stack) # root
  BY <1>1 DEF WalkSound, DirSound
<1> QED
  BY <1>2, <1>3, <1>4, <1>5, <1>6, <1>7, <1>8, <1>9 DEF Dummies

-----------------------------------------------------------------------------
\* Going down.
LEMMA PushWalked ==
    ASSUME GInv, GInv', Uninterrupted, NEW W, WalkedSound(W), PushLeft \/ PushRight
    PROVE  WalkedSound(W)'
<1> DEFINE k == Len(stack)
           n == IF dir = "left" THEN left[top] ELSE right[top]
           e == [node |-> n, depth |-> IF dir = "left" THEN DEPTH(stack) + 1 ELSE 2]
<1>1. /\ pc = "loop" /\ stack # <<>> /\ pc' = pc
      /\ UNCHANGED <<label, left, right, allocated, freeList, todo, root>>
      /\ dir \in {"left", "right"} /\ dir' = "left"
  BY DEF PushLeft, PushRight, AtApplication, parser, statement
<1>2. /\ updateable' = [updateable EXCEPT ![top] = dir] /\ stack' = Append(stack, e)
  BY DEF PushLeft, PushRight, pushnode, AtApplication
<1>3. /\ stack \in Seq(Element) /\ k \in Nat \ {0} /\ Kept = k /\ stack[k] \in Element
      /\ top = stack[k].node /\ DEPTH(stack) = stack[k].depth /\ k \in 1..k
  BY <1>1, StackFacts DEF GInv, Reducing, top, TOPNODE, DEPTH
<1>4. stack' \in Seq(Element) /\ stack' # <<>>
  <2>1. stack' # <<>>
    BY <1>2, <1>3
  <2>2. IInv' /\ pc' \in Reducing
    BY <1>1 DEF GInv, Reducing
  <2> QED
    BY <2>1, <2>2 DEF IInv, TypeOK, Element
<1>5. /\ Len(stack') = k + 1 /\ \A i \in 1..k : stack'[i] = stack[i]
  <2> HIDE DEF e
  <2> QED
    BY <1>2, <1>3
<1>6. Passed = k - 1 /\ Passed' = k
  BY <1>1, <1>3, <1>5 DEF Passed
<1>7. RedexFree(W)'
  BY <1>1, HeapKept, RedexFreeKept DEF WalkedSound
<1>8. ASSUME NEW i \in 1..k
      PROVE  /\ label'[stack'[i].node] = App
             /\ \/ updateable'[stack'[i].node] = "left"
                \/ /\ updateable'[stack'[i].node] = "right"
                   /\ <<left'[stack'[i].node], stack'[i].depth - 1>> \in W
  <2>1. CASE i = k
    <3>1. top \in Address /\ updateable \in [Address -> {"left", "right", "none"}]
      BY <1>3 DEF Element, GInv, IInv, TypeOK, HeapTypeOK
    <3>2. updateable'[top] = dir
      BY <1>2, <3>1
    <3>3. stack'[i].node = top /\ stack'[i].depth = DEPTH(stack)
      BY <1>3, <1>5, <2>1
    <3>4. label[top] = App
      BY DEF PushLeft, PushRight, AtApplication
    <3> QED
      BY <1>1, <3>2, <3>3, <3>4 DEF WalkedSound, TopWalked
  <2>2. CASE i # k
    <3>1. i \in 1..k - 1 /\ i \in 1..k /\ k \in 1..k
      BY <1>3, <2>2
    <3>2. stack[i].node # top
      BY <1>1, <1>3, <2>2, <3>1, PathFacts DEF Reducing
    <3>3. updateable'[stack[i].node] = updateable[stack[i].node]
      <4> stack[i].node \in Address /\ updateable \in [Address -> {"left", "right", "none"}]
        <5>1. i \in 1..Len(stack)
          BY <3>1
        <5> QED
          BY <1>1, <5>1, StackFacts DEF GInv, IInv, TypeOK, HeapTypeOK, Reducing
      <4> QED
        BY <1>2, <3>2
    <3> QED
      BY <1>1, <1>5, <1>6, <3>1, <3>3 DEF WalkedSound, LeftBranchesWalked, Reducing
  <2> QED
    BY <2>1, <2>2
<1>9. LeftBranchesWalked(W)'
  <2> HIDE DEF k
  <2> QED
    BY <1>6, <1>8 DEF LeftBranchesWalked
<1> QED
  BY <1>1, <1>4, <1>7, <1>9 DEF WalkedSound, TopWalked, AllWalked, RedexInHand

\* Going up.
LEMMA PopUpWalked ==
    ASSUME GInv, GInv', Uninterrupted, NEW W \in SUBSET (Address \X Nat), WalkedSound(W), PopUp
    PROVE  \E V \in SUBSET (Address \X Nat) : WalkedSound(V)'
<1> DEFINE k == Len(stack)
           rest == POP(stack, 1)
           n == TOPNODE(rest)
<1>1. /\ pc = "loop" /\ stack # <<>> /\ pc' = pc /\ UNCHANGED heap /\ UNCHANGED root
      /\ dir' = Upward(n)
      /\ stack' = IF n = root THEN POP(rest, 1) ELSE rest
      /\ (label[top] = App /\ dir = "up") \/ (label[top] # App /\ ~Contractible(stack))
  BY DEF PopUp, statement
<1>2. /\ stack \in Seq(Element) /\ k \in Nat \ {0} /\ Kept = k /\ stack[k] \in Element
      /\ \A i \in 1..k : stack[i].node \in Address
      /\ top = stack[k].node /\ TOPNODE(stack) = top /\ DEPTH(stack) = stack[k].depth
  BY <1>1, StackFacts DEF GInv, Reducing, top, TOPNODE, DEPTH
<1>3. /\ stack[1].node = root /\ stack[1].depth = 1 /\ updateable[root] = "left"
      /\ \A i \in 1..k : /\ stack[i].node \in InUse
                         /\ i # 1 => stack[i].node # root
                         /\ stack[i].depth \in Nat /\ stack[i].depth >= 1
                         /\ i # 1 => stack[i].depth >= 2
      /\ \A i \in 1..k - 1 : LeadsOn(stack[i], stack[i + 1])
      /\ dir # "left" => TOPNODE(stack) # root
  BY <1>1, <1>2, PathFacts DEF Reducing
<1>4. k # 1
  <2> SUFFICES ASSUME k = 1 PROVE FALSE
    OBVIOUS
  <2>1. top = root /\ dir = "left"
    BY <1>2, <1>3
  <2>2. label[root] = App
    BY <1>1 DEF GInv, HeapInv, GraphSound, DummiesApart, Underway, Reducing, Parents
  <2> QED
    BY <1>1, <2>1, <2>2
<1>5. /\ k - 1 \in 1..k /\ k - 1 \in 0..k /\ k - 1 \in 1..k - 1 /\ (k - 1) + 1 = k /\ k \in 1..k
      /\ k - 2 \in 0..k - 1
  BY <1>2, <1>4
<1>6. /\ Len(rest) = k - 1 /\ \A i \in 1..k - 1 : rest[i] = stack[i]
      /\ rest \in Seq(Element)
  BY <1>2, <1>5, Prefix DEF POP
<1>7. n = stack[k - 1].node
  <2> HIDE DEF rest, k
  <2> QED
    BY <1>5, <1>6 DEF TOPNODE
<1>8. PICK d \in Nat : d = DEPTH(stack) - 2
  BY <1>2, <1>3, <1>4, <1>5
<1>9. /\ label[n] = App
      /\ \/ updateable[n] = "left" /\ top = left[n] /\ DEPTH(stack) = stack[k - 1].depth + 1
         \/ updateable[n] = "right" /\ top = right[n] /\ DEPTH(stack) = 2
  <2>1. LeadsOn(stack[k - 1], stack[k])
    BY <1>3, <1>5
  <2> QED
    BY <1>2, <1>7, <2>1, LeadsOnFields
<1> DEFINE m == stack[k - 1].depth - 2
           up == IF n # root /\ updateable[n] = "right" THEN {<<n, m>>} ELSE {}
<1>10. top \in Address /\ top \in InUse
  BY <1>2, <1>3, <1>5 DEF Element
<1>11. n # root => m \in Nat /\ n \in Address /\ n \in InUse
  <2>1. n # root => k - 1 # 1
    BY <1>3, <1>7
  <2>2. stack[k - 1].node \in Address
    BY <1>2, <1>5
  <2> QED
    BY <1>3, <1>5, <1>7, <2>1, <2>2
<1>12. PICK V \in SUBSET (Address \X Nat) : V = W \cup {<<top, d>>} \cup up
  <2> HIDE DEF n, m
  <2>1. up \subseteq Address \X Nat
    BY <1>11
  <2>2. {<<top, d>>} \subseteq Address \X Nat
    BY <1>10
  <2> HIDE DEF up
  <2>3. W \cup {<<top, d>>} \cup up \in SUBSET (Address \X Nat)
    BY <2>1, <2>2
  <2> QED
    BY <2>3
<1>13. updateable[n] = "right" => <<left[n], stack[k - 1].depth - 1>> \in W
  <2>1. Passed = k - 1
    BY <1>1 DEF Passed
  <2> QED
    BY <1>1, <1>5, <1>7, <2>1 DEF WalkedSound, LeftBranchesWalked, Reducing
<1>14. RedexFree(V)
  <2> SUFFICES ASSUME NEW a \in Address, NEW depth \in Nat, <<a, depth>> \in V
               PROVE  /\ a \in InUse
                      /\ IF label[a] = App THEN <<left[a], depth + 1>> \in V /\ <<right[a], 0>> \in V
                                           ELSE ~RedexAt(a, depth)
    BY DEF RedexFree
  <2>1. CASE <<a, depth>> \in W
    BY <1>12, <2>1 DEF WalkedSound, RedexFree
  <2>2. CASE <<a, depth>> = <<top, d>>
    <3>1. a = top /\ depth = d
      BY <2>2
    <3>2. CASE label[top] = App
      <4>1. <<top, DEPTH(stack) - 2>> \in W
        BY <1>1, <3>2 DEF WalkedSound, TopWalked
      <4>2. <<a, depth>> \in W
        BY <1>8, <3>1, <4>1
      <4> QED
        BY <1>12, <4>2 DEF WalkedSound, RedexFree
    <3>3. CASE label[top] # App
      <4>1. ~RedexAt(top, d)
        <5> SUFFICES ASSUME label[top] \in Combinators, d >= Rule[label[top]].required_depth
                     PROVE  FALSE
          BY DEF RedexAt
        <5>1. Rule[label[top]].required_depth \in Nat
          BY RulesAssumption DEF IsRule
        <5>2. DEPTH(stack) \in Nat
          BY <1>2, <1>3, <1>5
        <5>3. DEPTH(stack) >= Rule[label[top]].required_depth + 2
          BY <1>8, <5>1, <5>2
        <5> QED
          BY <1>1, <1>2, <3>3, <5>3 DEF Contractible
      <4> QED
        BY <1>10, <3>1, <3>3, <4>1
    <3> QED
      BY <3>2, <3>3
  <2>3. CASE <<a, depth>> \in up
    <3>1. a = n /\ depth = m /\ n # root /\ updateable[n] = "right"
      BY <2>3
    <3>2. label[n] = App /\ top = right[n] /\ DEPTH(stack) = 2
      BY <1>9, <3>1
    <3>3. d = 0
      BY <1>8, <3>2
    <3>4. depth + 1 = stack[k - 1].depth - 1
      BY <1>3, <1>5, <3>1
    <3>5. <<left[n], depth + 1>> \in V
      BY <1>12, <1>13, <3>1, <3>4
    <3>6. <<right[n], 0>> \in V
      BY <1>12, <3>2, <3>3
    <3> HIDE DEF n
    <3> QED
      BY <1>11, <3>1, <3>2, <3>5, <3>6
  <2> QED
    BY <1>12, <2>1, <2>2, <2>3
<1>15. RedexFree(V)'
  <2>1. InUse \subseteq InUse'
    BY <1>1, HeapKept DEF heap
  <2> QED
    BY <1>1, <1>14, <2>1, RedexFreeKept DEF heap
<1>16. CASE n = root
  <2>1. stack' = <<>>
    <3>1. k - 1 = 1
      BY <1>3, <1>5, <1>7, <1>16
    <3>2. Len(rest) = 1 /\ Len(rest) - 1 = 0 /\ 0 \in 0..Len(rest)
      <4>1. Len(rest) = 1
        BY <1>6, <3>1
      <4> HIDE DEF rest
      <4> QED
        BY <4>1
    <3>3. Len(SubSeq(rest, 1, 0)) = 0 /\ SubSeq(rest, 1, 0) \in Seq(Element)
      <4> HIDE DEF rest
      <4> QED
        BY <1>6, <3>2, Prefix
    <3> HIDE DEF rest
    <3> QED
      BY <1>1, <1>16, <3>2, <3>3, EmptySeq DEF POP
  <2>2. <<left[root], 0>> \in V
    <3>1. top = left[root] /\ DEPTH(stack) = 2
      <4>1. stack[k - 1].depth = 1
        BY <1>3, <1>5, <1>7, <1>16
      <4> QED
        BY <1>3, <1>9, <1>16, <4>1
    <3>2. d = 0
      BY <1>8, <3>1
    <3> QED
      BY <1>12, <3>1, <3>2
  <2>3. LeftBranchesWalked(V)'
    <3>1. \A i \in 1..Passed' : FALSE
      <4>1. Passed' = 0 - 1
        BY <1>1, <2>1 DEF Passed
      <4> QED
        BY <4>1
    <3> QED
      BY <3>1 DEF LeftBranchesWalked
  <2>4. AllWalked(V)'
    BY <1>1, <2>2 DEF AllWalked, heap
  <2> QED
    BY <1>1, <1>15, <2>1, <2>3, <2>4 DEF WalkedSound, TopWalked, RedexInHand
<1>17. CASE n # root
  <2>1. stack' = rest /\ stack' # <<>> /\ Len(stack') = k - 1
    <3>1. Len(rest) # 0
      BY <1>2, <1>4, <1>6
    <3> QED
      BY <1>1, <1>6, <1>17, <3>1
  <2>2. LeftBranchesWalked(V)'
    <3>1. Passed' = k - 2
      BY <1>1, <1>2, <2>1 DEF Passed
    <3>2. Passed = k - 1
      BY <1>1 DEF Passed
    <3>3. ASSUME NEW i \in 1..k - 2
          PROVE  /\ label[stack[i].node] = App
                 /\ \/ updateable[stack[i].node] = "left"
                    \/ /\ updateable[stack[i].node] = "right"
                       /\ <<left[stack[i].node], stack[i].depth - 1>> \in W
      <4>1. i \in 1..k - 1
        BY <1>2
      <4> QED
        BY <1>1, <3>2, <4>1 DEF WalkedSound, LeftBranchesWalked, Reducing
    <3>4. \A i \in 1..k - 2 : stack'[i] = stack[i]
      BY <1>2, <1>6, <2>1
    <3> HIDE DEF k
    <3> QED
      BY <1>1, <1>12, <3>1, <3>3, <3>4 DEF LeftBranchesWalked, heap
  <2>3. top' = n /\ DEPTH(stack') = stack[k - 1].depth
    <3>1. stack'[k - 1] = stack[k - 1]
      BY <1>5, <1>6, <2>1
    <3> QED
      BY <1>7, <2>1, <3>1 DEF top, TOPNODE, DEPTH
  <2>4. dir' = IF updateable[n] = "left" THEN "right" ELSE "up"
    <3> HIDE DEF n
    <3> QED
      BY <1>1, <1>17 DEF Upward
  <2>5. dir' = "right" => <<left[n], stack[k - 1].depth - 1>> \in V
    <3> SUFFICES ASSUME updateable[n] = "left" PROVE <<left[n], stack[k - 1].depth - 1>> \in V
      BY <2>4
    <3>1. top = left[n] /\ DEPTH(stack) = stack[k - 1].depth + 1
      BY <1>9
    <3>2. d = stack[k - 1].depth - 1
      BY <1>3, <1>5, <1>8, <3>1
    <3> QED
      BY <1>12, <3>1, <3>2
  <2>6. dir' = "up" => <<n, stack[k - 1].depth - 2>> \in V
    BY <1>9, <1>12, <1>17, <2>4
  <2>7. TopWalked(V)'
    <3> HIDE DEF n, k
    <3> QED
      BY <1>1, <2>3, <2>5, <2>6 DEF TopWalked, heap
  <2> QED
    BY <1>1, <1>15, <2>1, <2>2, <2>7 DEF WalkedSound, AllWalked, RedexInHand
<1> QED
  BY <1>16, <1>17

\* Along the path a depth grows by one at most.
LEMMA DepthGrows ==
    ASSUME GInv, Uninterrupted, pc \in Reducing, stack # <<>>, NEW i \in 1..Kept
    PROVE  \A j \in i..Kept : stack[j].depth <= stack[i].depth + (j - i)
<1> DEFINE Bad == {j \in i..Kept : stack[j].depth > stack[i].depth + (j - i)}
           T == {stack[j].node : j \in Bad}
<1>1. PICK level \in [Address -> Nat] :
         \A a, b \in 1..Kept : a < b => level[stack[a].node] < level[stack[b].node]
  BY DEF GInv, HeapInv, WalkSound, StackSound
<1>2. /\ Kept \in 1..Len(stack) /\ Len(stack) \in Nat
      /\ \A j \in 1..Kept : stack[j].node \in Address
  BY StackFacts DEF GInv
<1>3. /\ \A j \in 1..Kept : stack[j].depth \in Nat /\ stack[j].depth >= 1
      /\ \A j \in 1..Kept - 1 : LeadsOn(stack[j], stack[j + 1])
  BY PathFacts
<1>4. \A j \in i..Kept : j \in 1..Kept /\ j - i \in Nat
  BY <1>2
<1>5. SUFFICES ASSUME Bad # {} PROVE FALSE
  BY <1>3, <1>4
<1>6. PICK n \in T : \A m \in T : level[n] <= level[m]
  <2>1. T \in SUBSET Address /\ T # {}
    BY <1>2, <1>4, <1>5
  <2> HIDE DEF T
  <2> QED
    BY <2>1, MinimalExists
<1>7. PICK j \in Bad : n = stack[j].node
  BY <1>6
<1>8. j \in i..Kept /\ stack[j].depth > stack[i].depth + (j - i) /\ j # i
  BY <1>3, <1>4, <1>7
<1>9. j - 1 \in i..Kept /\ j - 1 \in 1..Kept - 1 /\ j \in 1..Kept /\ (j - 1) + 1 = j
  BY <1>2, <1>8
<1>10. LeadsOn(stack[j - 1], stack[j])
  BY <1>3, <1>9
<1>11. j - 1 \in Bad
  <2>1. stack[j].depth = stack[j - 1].depth + 1 \/ stack[j].depth = 2
    BY <1>10, LeadsOnFields
  <2>2. stack[i].depth >= 1 /\ stack[i].depth \in Nat /\ stack[j - 1].depth \in Nat
    BY <1>3, <1>4, <1>9
  <2>3. stack[j - 1].depth > stack[i].depth + ((j - 1) - i)
    <3>1. i \in Int /\ j \in Int /\ j - 1 >= i
      BY <1>2, <1>9
    <3> HIDE DEF Bad
    <3> QED
      BY <1>8, <2>1, <2>2, <3>1
  <2> QED
    BY <1>9, <2>3
<1>12. level[stack[j - 1].node] < level[n]
  BY <1>1, <1>2, <1>7, <1>9
<1>13. level[n] <= level[stack[j - 1].node]
  BY <1>6, <1>11
<1>14. level[n] \in Nat /\ level[stack[j - 1].node] \in Nat
  BY <1>2, <1>7, <1>9
<1> QED
  BY <1>12, <1>13, <1>14

\* A contractible atom is the head of a redex: all its arguments are on the
\* spine, below each other on the left.
LEMMA SpineIsLeft ==
    ASSUME GInv, Uninterrupted, pc \in {"loop", "store"}, stack # <<>>, Contractible(stack)
    PROVE  LET d == Rule[label[top]].required_depth
               k == Len(stack)
           IN  /\ d \in Nat \ {0} /\ k - d \in 2..k - 1
               /\ \A i \in k - d..k - 1 : /\ label[stack[i].node] = App
                                          /\ stack[i + 1].node = left[stack[i].node]
<1> DEFINE d == Rule[label[top]].required_depth
           k == Len(stack)
<1>1. /\ stack \in Seq(Element) /\ k \in Nat \ {0} /\ Kept = k /\ k \in 1..k
      /\ top = stack[k].node /\ TOPNODE(stack) = top /\ DEPTH(stack) = stack[k].depth
  BY StackFacts DEF GInv, Reducing, top, TOPNODE, DEPTH
<1>2. /\ \A i \in 1..k : /\ stack[i].depth \in Nat /\ stack[i].depth >= 1
                         /\ i # 1 => stack[i].depth >= 2
      /\ \A i \in 1..k - 1 : LeadsOn(stack[i], stack[i + 1])
  BY <1>1, PathFacts DEF Reducing
<1>3. d \in Nat \ {0} /\ stack[k].depth >= d + 2
  <2>1. label[top] \in Combinators
    BY <1>1 DEF Contractible
  <2>2. d \in Nat \ {0}
    BY <2>1, RulesAssumption DEF IsRule
  <2> QED
    BY <1>1, <2>2 DEF Contractible
<1>4. \A i \in 1..k : stack[i].depth <= i
  BY <1>1, LenProperties DEF GInv, IInv, DepthBounded
<1>5. k - d \in 2..k - 1
  BY <1>1, <1>2, <1>3, <1>4
<1>6. ASSUME NEW i \in k - d..k - 1
      PROVE  label[stack[i].node] = App /\ stack[i + 1].node = left[stack[i].node]
  <2>1. i \in 1..k - 1 /\ i + 1 \in 1..k /\ i + 1 > (k - d)
    BY <1>1, <1>3, <1>5
  <2>2. LeadsOn(stack[i], stack[i + 1])
    BY <1>2, <2>1
  <2>3. stack[i + 1].depth # 2
    <3> SUFFICES ASSUME stack[i + 1].depth = 2 PROVE FALSE
      OBVIOUS
    <3>1. stack[k].depth <= stack[i + 1].depth + (k - (i + 1))
      <4>1. k \in (i + 1)..Kept /\ i + 1 \in 1..Kept
        BY <1>1, <2>1
      <4> QED
        BY <4>1, DepthGrows DEF Reducing
    <3>2. k \in Nat /\ d \in Nat /\ i \in Int /\ i + 1 > k - d
      BY <1>1, <1>3, <2>1
    <3>3. stack[k].depth \in Nat /\ stack[k].depth >= d + 2
      BY <1>1, <1>2, <1>3
    <3> HIDE DEF k, d
    <3> QED
      BY <3>1, <3>2, <3>3
  <2> QED
    BY <2>2, <2>3, LeadsOnFields
<1> QED
  BY <1>3, <1>5, <1>6

\* From a redex that has been built on, and from the node above it, the walk
\* would have gone into the redex: they are in no set without one.
LEMMA RedexApart ==
    ASSUME GInv, Uninterrupted, pc = "store", NEW W, WalkedSound(W)
    PROVE  \A depth \in Nat : <<RedexParent(stack), depth>> \notin W
<1>1. stack # <<>> /\ RedexParent(stack) = stack[Len(stack) - pop_stack_cnt].node
  BY RedexFacts DEF GInv
<1>2. Contractible(stack) /\ pop_stack_cnt = Rule[label[top]].required_depth + 1
  BY DEF WalkedSound, RedexInHand
<1>3. PICK k \in Nat, d \in Nat, r \in Nat :
         /\ k = Len(stack) /\ d = Rule[label[top]].required_depth /\ r = k - d /\ r \in 2..k - 1
         /\ \A i \in r..k - 1 : label[stack[i].node] = App /\ stack[i + 1].node = left[stack[i].node]
  <2> DEFINE D == Rule[label[top]].required_depth
  <2>1. Len(stack) \in Nat
    BY <1>1, StackFacts DEF GInv, Reducing
  <2>2. /\ D \in Nat \ {0} /\ Len(stack) - D \in 2..Len(stack) - 1
        /\ \A i \in Len(stack) - D..Len(stack) - 1 :
              label[stack[i].node] = App /\ stack[i + 1].node = left[stack[i].node]
    BY <1>1, <1>2, SpineIsLeft
  <2> HIDE DEF D
  <2>3. Len(stack) - D \in Nat
    BY <2>1, <2>2
  <2>4. D \in Nat
    BY <2>2
  <2> USE <2>1, <2>3, <2>4
  <2> WITNESS Len(stack) \in Nat, D \in Nat, Len(stack) - D \in Nat
  <2> QED
    BY <2>2 DEF D
<1>4. /\ Kept = k /\ top = stack[k].node /\ TOPNODE(stack) = top
      /\ \A i \in 1..k : stack[i].node \in Address
  BY <1>1, <1>3, StackFacts DEF GInv, Reducing, top, TOPNODE
\* On the way down from the redex to its head.
<1> DEFINE Way == {i \in r..k : \E e \in Nat : e + r >= i /\ <<stack[i].node, e>> \in W}
           T == {stack[i].node : i \in Way}
<1>5. k \notin Way
  <2> SUFFICES ASSUME NEW e \in Nat, e + r >= k, <<stack[k].node, e>> \in W PROVE FALSE
    OBVIOUS
  <2>1. label[top] \in Combinators /\ label[top] # App
    BY <1>2, <1>4, RulesAssumption DEF Contractible
  <2>2. e >= d
    BY <1>3
  <2>3. top \in Address /\ <<top, e>> \in W
    BY <1>3, <1>4
  <2> QED
    BY <1>3, <2>1, <2>2, <2>3 DEF WalkedSound, RedexFree, RedexAt
<1>6. ASSUME NEW i \in r..k - 1, i \in Way PROVE i + 1 \in Way
  <2>1. PICK e \in Nat : e + r >= i /\ <<stack[i].node, e>> \in W
    BY <1>6
  <2>2. i \in 1..k /\ i + 1 \in r..k /\ i \in Nat
    BY <1>3
  <2>3. <<left[stack[i].node], e + 1>> \in W
    BY <1>3, <1>4, <2>1, <2>2 DEF WalkedSound, RedexFree
  <2>4. <<stack[i + 1].node, e + 1>> \in W
    BY <1>3, <2>3
  <2>5. e + 1 \in Nat /\ (e + 1) + r >= i + 1
    BY <2>1, <2>2
  <2> QED
    BY <2>2, <2>4, <2>5
<1>7. r \notin Way
  <2> SUFFICES ASSUME r \in Way PROVE FALSE
    OBVIOUS
  <2>1. PICK level \in [Address -> Nat] :
           \A a, b \in 1..Kept : a < b => level[stack[a].node] < level[stack[b].node]
    BY <1>1 DEF GInv, HeapInv, WalkSound, StackSound, Reducing
  <2>2. \A i \in Way : i \in 1..k
    BY <1>3
  <2>3. T \in SUBSET Address /\ T # {}
    <3> HIDE DEF Way
    <3> QED
      BY <1>4, <2>2
  <2>4. PICK n \in T : \A m \in T : level[m] <= level[n]
    <3> HIDE DEF T
    <3> QED
      BY <2>3, MaximalExists
  <2>5. PICK i \in Way : n = stack[i].node
    BY <2>4
  <2>6. i \in r..k
    BY <2>5
  <2> HIDE DEF Way
  <2>7. i \in r..k - 1 /\ i \in 1..k /\ i + 1 \in 1..k /\ i < i + 1
    BY <1>3, <1>5, <2>5, <2>6
  <2>8. i + 1 \in Way
    BY <1>6, <2>5, <2>7
  <2>9. level[stack[i + 1].node] <= level[n] /\ level[n] < level[stack[i + 1].node]
    BY <1>4, <2>1, <2>4, <2>5, <2>7, <2>8
  <2>10. level[n] \in Nat /\ level[stack[i + 1].node] \in Nat
    BY <1>4, <2>5, <2>7
  <2> QED
    BY <2>9, <2>10
<1>8. ASSUME NEW depth \in Nat, <<RedexParent(stack), depth>> \in W PROVE FALSE
  <2>1. PICK q \in 1..k - 1 : q + 1 = r /\ RedexParent(stack) = stack[q].node
    <3>0. pop_stack_cnt = d + 1 /\ r = k - d /\ r \in 2..k - 1
      BY <1>2, <1>3
    <3>1. r - 1 \in 1..k - 1 /\ (r - 1) + 1 = r /\ k - pop_stack_cnt = r - 1
      BY <3>0
    <3> QED
      BY <1>1, <1>3, <3>1
  <2>2. LeadsOn(stack[q], stack[r])
    BY <1>1, <1>4, <2>1, PathFacts DEF Reducing
  <2> DEFINE m == stack[q].node
  <2>3. label[m] = App /\ stack[r].node \in {left[m], right[m]}
    BY <2>2, LeadsOnFields
  <2>4. <<m, depth>> \in W /\ m \in Address
    BY <1>4, <1>8, <2>1
  <2>5. <<left[m], depth + 1>> \in W /\ <<right[m], 0>> \in W
    BY <2>3, <2>4 DEF WalkedSound, RedexFree
  <2>6. \E e \in Nat : <<stack[r].node, e>> \in W
    <3>1. depth + 1 \in Nat /\ 0 \in Nat
      OBVIOUS
    <3> HIDE DEF m
    <3> QED
      BY <2>3, <2>5, <3>1
  <2>7. PICK e \in Nat : <<stack[r].node, e>> \in W
    BY <2>6
  <2>8. e + r >= r /\ r \in r..k
    <3>1. r \in 2..k - 1
      BY <1>3
    <3> QED
      BY <3>1
  <2> QED
    BY <1>7, <2>7, <2>8
<1> QED
  BY <1>8

\* Linking the contractum changes nothing behind the walk.
LEMMA StoreWalked ==
    ASSUME GInv, GInv', Uninterrupted, NEW W, WalkedSound(W), StoreContractum
    PROVE  WalkedSound(W)'
<1> DEFINE m == RedexParent(stack)
           q == Len(stack) - pop_stack_cnt
<1>1. /\ pc = "store" /\ pc' = "incref"
      /\ UNCHANGED <<label, updateable, allocated, freeList, todo, stack, pop_stack_cnt, root>>
      /\ IF updateable[m] = "left"
         THEN left' = [left EXCEPT ![m] = contractum] /\ UNCHANGED right
         ELSE right' = [right EXCEPT ![m] = contractum] /\ UNCHANGED left
  BY DEF StoreContractum, walk, redex, statement
<1>2. InUse' = InUse
  <2>1. Live' = Live /\ Linking' = Linking
    BY <1>1 DEF Live, Linking
  <2> QED
    BY <2>1 DEF InUse
<1>3. /\ stack # <<>> /\ q \in 1..Len(stack) - 2 /\ Len(stack) \in Nat
      /\ m = stack[q].node
  BY <1>1, RedexFacts DEF GInv
<1>4. \A depth \in Nat : <<m, depth>> \notin W
  BY <1>1, RedexApart
<1>5. RedexFree(W)'
  <2>1. RedexFree(W)
    BY DEF WalkedSound
  <2>2. \A a \in Address : a # m => left'[a] = left[a] /\ right'[a] = right[a]
    <3> HIDE DEF m
    <3> QED
      BY <1>1 DEF GInv, IInv, TypeOK, HeapTypeOK
  <2> HIDE DEF m
  <2> QED
    BY <1>1, <1>2, <1>4, <2>1, <2>2 DEF RedexFree, RedexAt
<1>6. LeftBranchesWalked(W)'
  <2>1. Passed' = q /\ Passed = q
    BY <1>1 DEF Passed
  <2> SUFFICES ASSUME NEW i \in 1..q
               PROVE  /\ label[stack[i].node] = App
                      /\ \/ updateable[stack[i].node] = "left"
                         \/ /\ updateable[stack[i].node] = "right"
                            /\ <<left'[stack[i].node], stack[i].depth - 1>> \in W
    BY <1>1, <2>1 DEF LeftBranchesWalked
  <2>2. /\ label[stack[i].node] = App
        /\ \/ updateable[stack[i].node] = "left"
           \/ /\ updateable[stack[i].node] = "right"
              /\ <<left[stack[i].node], stack[i].depth - 1>> \in W
    BY <1>1, <2>1 DEF WalkedSound, LeftBranchesWalked, Reducing
  <2> SUFFICES ASSUME updateable[stack[i].node] = "right"
               PROVE  left'[stack[i].node] = left[stack[i].node]
    BY <2>2
  <2>3. left'[stack[i].node] = left[stack[i].node]
    <3>1. CASE stack[i].node = m
      BY <1>1, <3>1
    <3>2. CASE stack[i].node # m
      <4>1. stack[i].node \in Address /\ left \in [Address -> Address]
        <5>1. i \in 1..Len(stack)
          BY <1>3
        <5> QED
          BY <1>1, <1>3, <5>1, StackFacts DEF GInv, IInv, TypeOK, HeapTypeOK, Reducing
      <4> HIDE DEF m
      <4> QED
        BY <1>1, <3>2, <4>1
    <3> QED
      BY <3>1, <3>2
  <2> QED
    BY <2>2, <2>3
<1> QED
  BY <1>1, <1>5, <1>6 DEF WalkedSound, TopWalked, AllWalked, RedexInHand

\* Building the contractum: only new nodes are written.
LEMMA BuildWalked ==
    ASSUME GInv, GInv', Uninterrupted, NEW W, WalkedSound(W), BuildContractum
    PROVE  WalkedSound(W)'
<1>1. PICK cells \in Seq(Cell), d \in Nat \ {0} : BuildsTree(cells, d)
  BY BuildFacts DEF GInv
<1>2. /\ pc = "loop" /\ pc' = "store" /\ stack # <<>> /\ Contractible(stack)
      /\ pop_stack_cnt' = Rule[label[top]].required_depth + 1
      /\ UNCHANGED <<stack, root>>
  BY DEF BuildContractum, walk, parser, statement
<1>3. /\ NewNodes(cells) /\ updateable' = Cleared(cells) /\ d + 2 <= Len(stack)
      /\ pop_stack_cnt' = d + 1
  BY <1>1 DEF BuildsTree
<1>4. HeapTypeOK /\ HeapTypeOK' /\ FreeListChained /\ todo = <<>> /\ todo' = <<>> /\ NodeFacts
  <2>1. HeapTypeOK /\ HeapTypeOK'
    BY DEF GInv, IInv, TypeOK
  <2>2. todo = <<>> /\ FreeListChained
    BY <1>2 DEF GInv, Control, HeapInv, ListInv, Uninterrupted
  <2>3. todo' = <<>>
    BY <1>3, <2>2 DEF NewNodes
  <2> QED
    BY <2>1, <2>2, <2>3, NodeFactsHold
<1>5. Live' = Live \cup New(cells) /\ New(cells) \cap Live = {}
  BY <1>3, <1>4, NewNodesLive, NewNodesFields
<1>6. InUse = Live /\ InUse' = Live'
  BY <1>4 DEF InUse, Linking
<1>7. \A n \in InUse : /\ n \in Address /\ n \notin New(cells)
                       /\ label'[n] = label[n] /\ left'[n] = left[n] /\ right'[n] = right[n]
                       /\ updateable'[n] = updateable[n]
  <2>1. \A n \in InUse : n \in Address /\ n \notin New(cells)
    BY <1>4, <1>5, <1>6 DEF NodeFacts
  <2>2. \A n \in Address \ New(cells) : updateable'[n] = updateable[n]
    BY <1>3 DEF Cleared, New
  <2> QED
    BY <1>3, <1>4, <2>1, <2>2, NewNodesFields
<1>8. RedexFree(W)'
  BY <1>5, <1>6, <1>7, RedexFreeKept DEF WalkedSound
<1>9. /\ Kept = Len(stack) /\ Len(stack) \in Nat \ {0}
      /\ \A i \in 1..Len(stack) : stack[i].node \in InUse
  BY <1>2, StackFacts, PathFacts DEF GInv, Reducing
<1>10. LeftBranchesWalked(W)'
  <2>1. Passed = Len(stack) - 1 /\ Passed' = Len(stack) - (d + 1)
    BY <1>2, <1>3 DEF Passed
  <2> SUFFICES ASSUME NEW i \in 1..Len(stack) - (d + 1)
               PROVE  /\ label'[stack[i].node] = App
                      /\ \/ updateable'[stack[i].node] = "left"
                         \/ /\ updateable'[stack[i].node] = "right"
                            /\ <<left'[stack[i].node], stack[i].depth - 1>> \in W
    BY <1>2, <2>1 DEF LeftBranchesWalked
  <2>2. i \in 1..Len(stack) - 1 /\ i \in 1..Len(stack)
    BY <1>9
  <2>3. /\ label[stack[i].node] = App
        /\ \/ updateable[stack[i].node] = "left"
           \/ /\ updateable[stack[i].node] = "right"
              /\ <<left[stack[i].node], stack[i].depth - 1>> \in W
    BY <1>2, <2>1, <2>2 DEF WalkedSound, LeftBranchesWalked, Reducing
  <2> QED
    BY <1>7, <1>9, <2>2, <2>3
<1>11. RedexInHand'
  <2>1. top \in InUse /\ TOPNODE(stack) = top
    BY <1>9 DEF top, TOPNODE
  <2>2. top' = top /\ label'[top] = label[top] /\ TOPNODE(stack') = TOPNODE(stack)
        /\ DEPTH(stack') = DEPTH(stack)
    BY <1>2, <1>7, <2>1 DEF top
  <2>3. Contractible(stack)'
    BY <1>2, <2>1, <2>2 DEF Contractible
  <2> QED
    BY <1>2, <2>2, <2>3 DEF RedexInHand
<1> QED
  BY <1>2, <1>8, <1>10, <1>11 DEF WalkedSound, TopWalked, AllWalked

\* Steps of a contraction that touch neither the graph nor the stack.
LEMMA QuietWalked ==
    ASSUME Control, NEW W, WalkedSound(W),
           \/ CountContractum \/ ContractionDone \/ StopOnCycle \/ StopAtLimit
           \/ ReachNormalForm
           \/ ReadLine /\ ~LongJump /\ pc' # "exited"
    PROVE  WalkedSound(W)'
<1>1. UNCHANGED <<label, left, right, updateable, allocated, freeList, root>>
  BY DEF CountContractum, ContractionDone, StopOnCycle, StopAtLimit, ReachNormalForm,
     ExitReduceGraph, ReadLine, heap, statement
<1>2. Linking' = Linking
  <2>1. CASE CountContractum
    <3>1. todo = <<>> /\ todo' = FreeCall(RedexNode(stack))
      BY <2>1 DEF CountContractum, Control
    <3>2. DOMAIN todo' = {1} /\ todo'[1].op = "free"
      BY <3>1 DEF FreeCall
    <3> QED
      BY <3>1, <3>2 DEF Linking
  <2>2. CASE ~CountContractum
    <3>1. UNCHANGED todo
      BY <2>2 DEF ContractionDone, StopOnCycle, StopAtLimit, ReachNormalForm,
         ExitReduceGraph, ReadLine, heap
    <3> QED
      BY <3>1 DEF Linking
  <2> QED
    BY <2>1, <2>2
<1>3. InUse' = InUse
  BY <1>1, <1>2 DEF InUse, Live
<1>4. RedexFree(W)'
  BY <1>1, <1>3, RedexFreeKept DEF WalkedSound
<1>5. pc' \notin {"loop", "store"}
  BY DEF CountContractum, ContractionDone, StopOnCycle, StopAtLimit, ReachNormalForm,
     ExitReduceGraph, ReadLine
<1>6. LeftBranchesWalked(W)'
  <2>1. CASE pc' = "returned"
    BY <2>1 DEF LeftBranchesWalked, Reducing
  <2>2. CASE pc' # "returned"
    <3>1. /\ UNCHANGED <<stack, pop_stack_cnt>> /\ pc \in Reducing \ {"loop"}
          /\ pc' \in Reducing \ {"loop"}
      BY <2>2 DEF CountContractum, ContractionDone, StopOnCycle, StopAtLimit, ReachNormalForm,
         ExitReduceGraph, ReadLine, walk, redex, Reducing
    <3>2. Passed' = Passed
      BY <3>1 DEF Passed
    <3> QED
      BY <1>1, <3>1, <3>2 DEF WalkedSound, LeftBranchesWalked
  <2> QED
    BY <2>1, <2>2
<1>7. AllWalked(W)'
  <2> SUFFICES ASSUME pc' = "returned", grr' = "NORMAL_FORM" PROVE <<left[root], 0>> \in W
    BY <1>1, <1>5 DEF AllWalked
  <2>1. ReachNormalForm
    BY DEF CountContractum, ContractionDone, StopOnCycle, StopAtLimit, ExitReduceGraph, ReadLine
  <2> QED
    BY <2>1 DEF ReachNormalForm, WalkedSound, AllWalked
<1> QED
  BY <1>4, <1>5, <1>6, <1>7 DEF WalkedSound, TopWalked, RedexInHand

\* Releasing the redex takes nothing that was walked and is still in use.
LEMMA FreeWalked ==
    ASSUME GInv, GInv', Uninterrupted, pc = "freeing",
           NEW W \in SUBSET (Address \X Nat), WalkedSound(W), FreeNode
    PROVE  \E V \in SUBSET (Address \X Nat) : WalkedSound(V)'
<1>1. /\ pc' = pc /\ FreeStep /\ HeapTypeOK /\ HeapTypeOK' /\ Uninterrupted'
      /\ UNCHANGED <<root, values, stack, pop_stack_cnt, contractum>>
  BY DEF FreeNode, parser, walk, redex, statement, GInv, IInv, TypeOK, Uninterrupted
<1>2. PICK level \in [Address -> Nat], graph \in [Address -> Nat] :
         GraphSound(level, graph)
  BY DEF GInv, HeapInv
<1>3. Holders \in [Address -> Nat]
  <2>1. \A n \in Address : Holders[n] \in Nat
    BY DEF Holders, Bit
  <2>2. Holders = [n \in Address |-> Holders[n]]
    BY DEF Holders
  <2> HIDE DEF Holders
  <2> QED
    BY <2>1, <2>2
<1>4. Thinned(Holders) /\ Ordered(level, graph)'
  <2>1. ListInv /\ CountsExact(Holders) /\ Ordered(level, graph) /\ CallsInUse
    BY <1>2 DEF GInv, HeapInv, Control, Uninterrupted, GraphSound
  <2> HIDE DEF Holders
  <2> QED
    BY <1>1, <1>3, <2>1, FreeStepGraph
<1>5. /\ InUse' \subseteq InUse /\ UNCHANGED <<label, left, updateable>>
      /\ \A c \in InUse : right'[c] = right[c]
  BY <1>4 DEF Thinned
<1>6. NodeFacts /\ NodeFacts'
  BY <1>1, NodeFactsHold, NodeFactsLater
<1>7. PICK V \in SUBSET (Address \X Nat) : V = {w \in W : w[1] \in InUse'}
  OBVIOUS
<1>8. \A n, e : <<n, e>> \in V <=> <<n, e>> \in W /\ n \in InUse'
  BY <1>7
<1>9. ASSUME NEW n \in InUse', label[n] = App, NEW c \in {left[n], right[n]}, NEW e \in Nat,
             <<c, e>> \in W
      PROVE  <<c, e>> \in V
  <2>1. n \in Parents' /\ c \in {left[n], right[n]}' /\ n \in InUse
    BY <1>5, <1>9 DEF Parents
  <2>2. c \in InUse /\ c # Null
    <3>1. c \in Address
      BY <1>6, <1>9, <2>1 DEF NodeFacts
    <3> QED
      BY <1>6, <1>9, <3>1 DEF WalkedSound, RedexFree, NodeFacts
  <2>3. c \in InUse'
    BY <1>4, <2>1, <2>2 DEF Ordered
  <2> QED
    BY <1>8, <1>9, <2>3
<1>10. RedexFree(V)'
  <2> SUFFICES ASSUME NEW n \in Address, NEW depth \in Nat, <<n, depth>> \in V
               PROVE  /\ n \in InUse'
                      /\ IF label[n] = App
                         THEN <<left[n], depth + 1>> \in V /\ <<right'[n], 0>> \in V
                         ELSE ~RedexAt(n, depth)
    BY <1>5 DEF RedexFree, RedexAt
  <2>1. n \in InUse' /\ n \in InUse /\ <<n, depth>> \in W
    BY <1>5, <1>8
  <2>2. right'[n] = right[n]
    BY <1>5, <2>1
  <2>3. depth + 1 \in Nat /\ 0 \in Nat
    OBVIOUS
  <2>4. IF label[n] = App
        THEN <<left[n], depth + 1>> \in W /\ <<right[n], 0>> \in W
        ELSE ~RedexAt(n, depth)
    BY <2>1 DEF WalkedSound, RedexFree
  <2> QED
    BY <1>9, <2>1, <2>2, <2>3, <2>4
<1>11. LeftBranchesWalked(V)'
  <2>1. Len(stack) # 0
    BY DEF GInv, IInv, TypeOK, PopBounded
  <2>2. stack # <<>> /\ Kept' = Kept /\ Passed = Kept /\ Passed' = Kept
    BY <1>1, <2>1 DEF Kept, Passed
  <2> SUFFICES ASSUME NEW i \in 1..Kept
               PROVE  /\ label[stack[i].node] = App
                      /\ \/ updateable[stack[i].node] = "left"
                         \/ /\ updateable[stack[i].node] = "right"
                            /\ <<left[stack[i].node], stack[i].depth - 1>> \in V
    BY <1>1, <1>5, <2>2 DEF LeftBranchesWalked
  <2>3. /\ label[stack[i].node] = App
        /\ \/ updateable[stack[i].node] = "left"
           \/ /\ updateable[stack[i].node] = "right"
              /\ <<left[stack[i].node], stack[i].depth - 1>> \in W
    BY <2>2 DEF WalkedSound, LeftBranchesWalked, Reducing
  <2>4. stack[i].node \in InUse'
    <3>1. PICK l, g \in [Address -> Nat] : WalkSound(l, g)'
      BY <1>1 DEF GInv, HeapInv
    <3> QED
      BY <1>1, <2>2, <3>1 DEF WalkSound, StackSound, Reducing
  <2>5. stack[i].depth - 1 \in Nat
    <3>1. stack[i].depth \in Nat /\ stack[i].depth >= 1
      BY <2>2, PathFacts DEF Reducing
    <3> QED
      BY <3>1
  <2> QED
    BY <1>9, <2>3, <2>4, <2>5
<1> QED
  BY <1>1, <1>7, <1>10, <1>11 DEF WalkedSound, TopWalked, AllWalked, RedexInHand

\* After a contraction the walk goes on from the node above the redex.
LEMMA KeepReducingWalked ==
    ASSUME GInv, NEW W, WalkedSound(W), KeepReducing
    PROVE  WalkedSound(W)'
<1>1. /\ pc = "settle" /\ pc' = "loop" /\ UNCHANGED heap /\ UNCHANGED root
      /\ stack' = POP(stack, pop_stack_cnt)
      /\ dir' = IF updateable[TOPNODE(POP(stack, pop_stack_cnt))] = "left" THEN "left" ELSE "right"
  BY DEF KeepReducing, statement
<1>2. Len(stack) # 0
  BY <1>1 DEF GInv, IInv, TypeOK, PopBounded
<1>3. /\ stack # <<>> /\ stack \in Seq(Element) /\ Kept \in 1..Len(stack) /\ Len(stack) \in Nat
      /\ Passed = Kept /\ Kept = Len(stack) - pop_stack_cnt
  <2>1. stack # <<>>
    BY <1>2
  <2>2. /\ stack \in Seq(Element) /\ Kept \in 1..Len(stack) /\ Len(stack) \in Nat
        /\ Kept = Len(stack) - pop_stack_cnt
    BY <1>1, <2>1, StackFacts DEF GInv, Reducing
  <2> QED
    BY <1>1, <2>1, <2>2 DEF Passed
<1>4. PICK m \in Nat : m = Kept /\ m >= 1
  BY <1>3
<1>5. stack' = SubSeq(stack, 1, m)
  BY <1>1, <1>3, <1>4 DEF POP
<1>6. /\ Len(stack') = m /\ \A i \in 1..m : stack'[i] = stack[i]
      /\ stack' # <<>>
  <2>1. Len(stack') = m /\ \A i \in 1..m : stack'[i] = stack[i]
    BY <1>3, <1>4, <1>5, Prefix
  <2> QED
    BY <1>4, <2>1
<1>7. \A i \in 1..m :
         /\ label[stack[i].node] = App
         /\ \/ updateable[stack[i].node] = "left"
            \/ /\ updateable[stack[i].node] = "right"
               /\ <<left[stack[i].node], stack[i].depth - 1>> \in W
  BY <1>1, <1>3, <1>4 DEF WalkedSound, LeftBranchesWalked, Reducing
<1>8. LeftBranchesWalked(W)'
  <2>1. Passed' = m - 1
    BY <1>1, <1>6 DEF Passed
  <2>2. \A i \in 1..m - 1 : i \in 1..m
    BY <1>4
  <2> QED
    BY <1>1, <1>6, <1>7, <2>1, <2>2 DEF LeftBranchesWalked, heap
<1>9. TopWalked(W)'
  <2>1. TOPNODE(stack') = stack[m].node /\ DEPTH(stack') = stack[m].depth /\ m \in 1..m
    BY <1>4, <1>6 DEF TOPNODE, DEPTH
  <2>2. dir' = IF updateable[stack[m].node] = "left" THEN "left" ELSE "right"
    BY <1>1, <2>1
  <2>3. top' = stack[m].node
    BY <2>1 DEF top
  <2>4. dir' = "right" => <<left[stack[m].node], stack[m].depth - 1>> \in W
    BY <1>7, <2>1, <2>2
  <2>5. dir' # "up"
    BY <2>2
  <2> QED
    BY <1>1, <2>1, <2>3, <2>4, <2>5 DEF TopWalked, heap
<1>10. RedexFree(W)'
  <2>1. InUse \subseteq InUse'
    BY <1>1, HeapKept DEF heap
  <2> QED
    BY <1>1, <2>1, RedexFreeKept DEF heap, WalkedSound
<1> QED
  BY <1>1, <1>6, <1>8, <1>9, <1>10 DEF WalkedSound, AllWalked, RedexInHand

\* Where no reduction is under way, and where one begins, nothing was walked.
LEMMA NothingWalked ==
    ASSUME \/ pc' \notin Reducing \cup {"returned"}
           \/ pc' = "loop" /\ Len(stack') = 1 /\ dir' = "left"
    PROVE  WalkedSound({})'
<1>1. RedexFree({})'
  BY DEF RedexFree
<1>2. LeftBranchesWalked({})'
  <2>1. CASE pc' = "loop" /\ Len(stack') = 1
    <3>1. Passed' = 0
      BY <2>1 DEF Passed
    <3> QED
      BY <3>1 DEF LeftBranchesWalked
  <2>2. CASE pc' \notin Reducing
    BY <2>2 DEF LeftBranchesWalked
  <2> QED
    BY <2>1, <2>2
<1>3. TopWalked({})'
  BY DEF TopWalked, Reducing
<1>4. AllWalked({})'
  <2>1. Len(stack') = 1 => stack' # <<>>
    OBVIOUS
  <2> QED
    BY <2>1 DEF AllWalked, Reducing
<1>5. RedexInHand'
  BY DEF RedexInHand, Reducing
<1> QED
  BY <1>1, <1>2, <1>3, <1>4, <1>5 DEF WalkedSound

\* Stuttering.
LEMMA WalkedStutters ==
    ASSUME NEW W, WalkedSound(W), UNCHANGED vars
    PROVE  WalkedSound(W)'
<1>1. /\ UNCHANGED <<label, left, right, updateable, allocated, freeList, todo>>
      /\ UNCHANGED <<pc, root, stack, dir, pop_stack_cnt, grr>>
  BY DEF vars, heap, walk, redex, statement
<1>2. InUse' = InUse /\ Passed' = Passed /\ top' = top
  BY <1>1, HeapKept DEF Passed, top, TOPNODE
<1>3. RedexFree(W)'
  BY <1>1, <1>2, RedexFreeKept DEF WalkedSound
<1>4. LeftBranchesWalked(W)' /\ TopWalked(W)' /\ AllWalked(W)'
  BY <1>1, <1>2 DEF WalkedSound, LeftBranchesWalked, TopWalked, DEPTH, AllWalked
<1>5. RedexInHand'
  BY <1>1, <1>2 DEF WalkedSound, RedexInHand, Contractible, TOPNODE, DEPTH
<1> QED
  BY <1>3, <1>4, <1>5 DEF WalkedSound

\* Every step keeps what was walked without a redex.
LEMMA NextNormal == GInv /\ GInv' /\ NormalInv /\ [Next]_vars => NormalInv'
<1> SUFFICES ASSUME GInv, GInv', NormalInv, [Next]_vars, Uninterrupted'
             PROVE  \E V \in SUBSET (Address \X Nat) : WalkedSound(V)'
  BY DEF NormalInv
<1>1. CASE pc' \notin Reducing \cup {"returned"}
  <2>1. WalkedSound({})'
    BY <1>1, NothingWalked
  <2>2. {} \in SUBSET (Address \X Nat)
    OBVIOUS
  <2> QED
    BY <2>1, <2>2
<1>2. CASE StartReduction
  <2>1. pc' = "loop" /\ Len(stack') = 1 /\ dir' = "left"
    <3>1. stack' = <<[node |-> Fresh(2), depth |-> 1]>>
      BY <1>2 DEF StartReduction
    <3> QED
      BY <1>2, <3>1 DEF StartReduction
  <2>2. WalkedSound({})'
    BY <2>1, NothingWalked
  <2>3. {} \in SUBSET (Address \X Nat)
    OBVIOUS
  <2> QED
    BY <2>2, <2>3
<1>3. CASE pc' \in Reducing \cup {"returned"} /\ ~StartReduction
  <2>1. ~LongJump
    BY DEF LongJump, Uninterrupted
  <2>2. \/ UNCHANGED vars
        \/ PushLeft \/ PushRight \/ PopUp
        \/ BuildContractum \/ StoreContractum \/ CountContractum
        \/ FreeNode /\ pc = "freeing"
        \/ ContractionDone \/ StopOnCycle \/ StopAtLimit \/ KeepReducing \/ ReachNormalForm
        \/ ReadLine /\ pc' # "exited"
    BY <1>3, <2>1 DEF Next, Work, Configure, StartStatement, Interrupt, Exited, Reducing,
       ParseTerm, ParseApplication, ParseNode, Parsing, TakeResult, ReleaseGraph, Cleanup,
       FreeNode
  <2>3. Uninterrupted
    <3>1. UNCHANGED reduction_interrupted
      BY <2>1, <2>2 DEF vars, statement, PushLeft, PushRight, PopUp, BuildContractum,
         StoreContractum, CountContractum, FreeNode, ContractionDone, StopOnCycle,
         StopAtLimit, KeepReducing, ReachNormalForm, ExitReduceGraph, ReadLine
    <3>2. UNCHANGED pc \/ pc \in Reducing
      BY <2>1, <2>2 DEF vars, PushLeft, PushRight, AtApplication, PopUp, BuildContractum,
         StoreContractum, CountContractum, ContractionDone, StopOnCycle,
         StopAtLimit, KeepReducing, ReachNormalForm, ReadLine, Reducing
    <3> QED
      BY <3>1, <3>2 DEF Uninterrupted, Reducing
  <2>4. PICK W \in SUBSET (Address \X Nat) : WalkedSound(W)
    BY <2>3 DEF NormalInv
  <2>5. Control
    BY DEF GInv
  <2>6. CASE PopUp \/ (FreeNode /\ pc = "freeing")
    BY <2>3, <2>4, <2>6, PopUpWalked, FreeWalked
  <2>7. CASE ~PopUp /\ ~(FreeNode /\ pc = "freeing")
    <3>1. WalkedSound(W)'
      BY <2>1, <2>2, <2>3, <2>4, <2>5, <2>7, PushWalked, BuildWalked, StoreWalked, QuietWalked,
         KeepReducingWalked, WalkedStutters
    <3> QED
      BY <3>1
  <2> QED
    BY <2>6, <2>7
<1> QED
  BY <1>1, <1>2, <1>3

-----------------------------------------------------------------------------
\* The graphs without their order: reduction_count's recursion has one value
\* for each node, and one only.
LEMMA ReductionCountIsDefined ==
    ASSUME HeapTypeOK, NEW level \in [Address -> Nat], NEW graph, Ordered(level, graph), todo = <<>>
    PROVE  \A n \in InUse \cup {Null}, depth \in Nat :
              ReductionCount[n][depth] =
                 IF n = Null THEN 0
                 ELSE IF label[n] = App
                      THEN ReductionCount[left[n]][depth + 1] + ReductionCount[right[n]][0]
                      ELSE IF RedexAt(n, depth) THEN 1 ELSE 0
<1> DEFINE D == Live \cup {Null}
           Step(f, n) == [depth \in Nat |->
                            IF n = Null THEN 0
                            ELSE IF label[n] = App
                                 THEN f[left[n]][depth + 1] + f[right[n]][0]
                                 ELSE IF RedexAt(n, depth) THEN 1 ELSE 0]
           ClosedIn(C) == \A n \in C : n # Null /\ label[n] = App => left[n] \in C /\ right[n] \in C
           Solves(g, C) == g = [n \in C |-> Step(g, n)]
           Rest == {U \in SUBSET Live : ClosedIn(D \ U) /\ \E g : Solves(g, D \ U)}
           R == StrictSubsetOrdering(Live)
<1>1. NodeFacts /\ InUse = Live
  <2>1. InUse = Live
    BY DEF InUse, Linking
  <2> QED
    BY <2>1, NodeFactsHold
<1>2. Live \in SUBSET Address /\ IsFiniteSet(Live) /\ Null \notin Live
  <2>1. Live \in SUBSET Address /\ Null \notin Live
    BY <1>1 DEF NodeFacts
  <2> QED
    BY <2>1, FiniteNodes, FS_Subset
<1>3. \A n \in Live : label[n] = App =>
         /\ left[n] \in D /\ right[n] \in D
         /\ \A c \in {left[n], right[n]} \ {Null} : level[n] < level[c]
  BY <1>1 DEF Ordered, Parents
\* Null alone is solved,
<1>4. Live \in Rest
  <2>1. D \ Live = {Null}
    BY <1>2
  <2>2. ClosedIn({Null})
    OBVIOUS
  <2>3. \E g : Solves(g, {Null})
    <3> DEFINE e == [n \in {Null} |-> [depth \in Nat |-> 0]]
    <3>1. Step(e, Null) = [depth \in Nat |-> 0]
      OBVIOUS
    <3>2. e = [n \in {Null} |-> Step(e, n)]
      <4> HIDE DEF Step
      <4> QED
        BY <3>1
    <3> HIDE DEF e, Step
    <3> QED
      BY <3>2
  <2> HIDE DEF D, ClosedIn, Solves
  <2> QED
    BY <2>1, <2>2, <2>3
\* and there is a solution for as many nodes as possible.
<1>5. PICK U \in Rest : \A V \in Rest : ~(<<V, U>> \in R)
  <2>1. IsWellFoundedOn(R, FiniteSubsetsOf(Live)) /\ FiniteSubsetsOf(Live) = SUBSET Live
    BY <1>2, FS_StrictSubsetOrderingWellFounded, FS_FiniteSubsetsOfFinite
  <2>2. Rest \subseteq SUBSET Live /\ Rest # {}
    BY <1>4
  <2> HIDE DEF R, Rest
  <2> QED
    BY <2>1, <2>2, WFMin
<1>6. U \in SUBSET Live /\ ClosedIn(D \ U)
  OBVIOUS
<1>7. PICK g : Solves(g, D \ U)
  OBVIOUS
<1> HIDE DEF Rest, R
<1>8. U = {}
  <2> SUFFICES ASSUME U # {} PROVE FALSE
    OBVIOUS
  <2>1. PICK n \in U : \A m \in U : level[m] <= level[n]
    <3> U \in SUBSET Address
      BY <1>2, <1>6
    <3> QED
      BY MaximalExists
  <2>2. n \in Live /\ n \in Address /\ n # Null
    BY <1>2, <1>6
  <2>3. ASSUME label[n] = App, NEW c \in {left[n], right[n]} PROVE c \in D \ U
    <3>1. c \in D
      BY <1>3, <2>2, <2>3
    <3>2. c \notin U
      <4> SUFFICES ASSUME c \in U PROVE FALSE
        OBVIOUS
      <4>1. c \in Address /\ c # Null
        BY <1>2, <1>6
      <4>2. level[n] < level[c] /\ level[n] \in Nat /\ level[c] \in Nat
        BY <1>3, <2>2, <2>3, <4>1
      <4> QED
        BY <2>1, <4>2
    <3> QED
      BY <3>1, <3>2
  <2> DEFINE W == U \ {n}
             f == [m \in D \ W |-> IF m = n THEN Step(g, n) ELSE g[m]]
  <2>4. D \ W = (D \ U) \cup {n}
    BY <1>6, <2>2
  <2>5. ClosedIn(D \ W)
    <3> HIDE DEF W, D
    <3> QED
      BY <1>6, <2>3, <2>4
  <2>6. ASSUME NEW m \in D \ W PROVE f[m] = Step(f, m)
    <3>1. m \in D \ U \/ m = n
      BY <2>4
    <3>2. m # Null /\ label[m] = App => left[m] \in D \ U /\ right[m] \in D \ U
      BY <1>6, <2>3, <3>1
    <3>3. \A c \in D \ U : f[c] = g[c]
      <4> HIDE DEF Step
      <4> QED
        BY <2>1, <2>4
    <3>4. Step(f, m) = Step(g, m)
      <4> HIDE DEF f, D
      <4> QED
        BY <3>2, <3>3
    <3>5. f[m] = IF m = n THEN Step(g, n) ELSE g[m]
      <4> HIDE DEF Step, D
      <4> QED
        BY <2>6
    <3>6. m # n => g[m] = Step(g, m)
      <4> HIDE DEF Step, D
      <4> QED
        BY <1>7, <3>1
    <3> HIDE DEF f, Step
    <3> QED
      BY <3>4, <3>5, <3>6
  <2>7. Solves(f, D \ W)
    <3>1. f = [m \in D \ W |-> f[m]]
      OBVIOUS
    <3> HIDE DEF f, Step, D, W
    <3> QED
      BY <2>6, <3>1
  <2>8. W \in Rest
    <3>1. W \in SUBSET Live
      BY <1>6
    <3>2. \E h : Solves(h, D \ W)
      <4> HIDE DEF Solves, f, W, D
      <4> QED
        BY <2>7
    <3> HIDE DEF W, D, ClosedIn, Solves
    <3> QED
      BY <2>5, <3>1, <3>2 DEF Rest
  <2>9. <<W, U>> \in R
    BY <1>6 DEF R, StrictSubsetOrdering
  <2> HIDE DEF W
  <2> QED
    BY <1>5, <2>8, <2>9
\* So reduction_count is one, and its equation holds.
<1>9. Solves(g, D)
  <2>1. D \ U = D
    BY <1>8
  <2> HIDE DEF D, Step
  <2> QED
    BY <1>7, <2>1
<1>10. Solves(ReductionCount, D)
  <2>1. ReductionCount = CHOOSE f : Solves(f, D)
    BY DEF ReductionCount
  <2> HIDE DEF Solves, D
  <2> QED
    BY <1>9, <2>1
<1> QED
  <2> SUFFICES ASSUME NEW n \in D, NEW depth \in Nat
               PROVE  ReductionCount[n][depth] = Step(ReductionCount, n)[depth]
    BY <1>1
  <2> HIDE DEF D, Step
  <2> QED
    BY <1>10

\* reduction_count finds nothing where there is no redex.
LEMMA NothingCounted ==
    ASSUME HeapTypeOK, NEW level \in [Address -> Nat], NEW graph, Ordered(level, graph), todo = <<>>,
           NEW W, RedexFree(W)
    PROVE  \A n \in InUse, depth \in Nat : <<n, depth>> \in W => ReductionCount[n][depth] = 0
<1> DEFINE T == {n \in InUse : \E depth \in Nat : <<n, depth>> \in W /\ ReductionCount[n][depth] # 0}
<1> HIDE DEF ReductionCount
<1>1. NodeFacts
  BY NodeFactsHold
<1>2. T \in SUBSET Address
  BY <1>1 DEF NodeFacts
<1> SUFFICES ASSUME T # {} PROVE FALSE
  OBVIOUS
<1>3. PICK n \in T : \A m \in T : level[m] <= level[n]
  <2> HIDE DEF T
  <2> QED
    BY <1>2, MaximalExists
<1>4. PICK depth \in Nat : <<n, depth>> \in W /\ ReductionCount[n][depth] # 0
  OBVIOUS
<1>5. n \in InUse /\ n \in Address /\ n # Null
  BY <1>1, <1>3 DEF NodeFacts
<1>6. IF label[n] = App THEN <<left[n], depth + 1>> \in W /\ <<right[n], 0>> \in W
                        ELSE ~RedexAt(n, depth)
  BY <1>4, <1>5 DEF RedexFree
<1>7. ReductionCount[n][depth] =
         IF label[n] = App
         THEN ReductionCount[left[n]][depth + 1] + ReductionCount[right[n]][0]
         ELSE IF RedexAt(n, depth) THEN 1 ELSE 0
  BY <1>5, ReductionCountIsDefined
<1>8. label[n] = App
  BY <1>4, <1>6, <1>7
<1>9. ASSUME NEW c \in {left[n], right[n]}, NEW e \in Nat, <<c, e>> \in W
      PROVE  ReductionCount[c][e] = 0
  <2>1. c \in Address /\ c \in InUse /\ c # Null
    BY <1>1, <1>5, <1>9 DEF RedexFree, NodeFacts
  <2>2. n \in Parents
    BY <1>5, <1>8 DEF Parents
  <2>3. level[n] < level[c] /\ level[n] \in Nat /\ level[c] \in Nat
    BY <1>5, <2>1, <2>2 DEF Ordered
  <2>4. c \notin T
    <3> HIDE DEF T
    <3> QED
      BY <1>3, <2>3
  <2> QED
    BY <1>9, <2>1, <2>4
<1>10. ReductionCount[left[n]][depth + 1] = 0 /\ ReductionCount[right[n]][0] = 0
  <2>1. depth + 1 \in Nat /\ 0 \in Nat
    OBVIOUS
  <2> QED
    BY <1>6, <1>8, <1>9, <2>1
<1> QED
  BY <1>4, <1>7, <1>8, <1>10

\* A walk that ends has passed every position of the graph and left no redex.
THEOREM NormalFormsHaveNoRedex == Spec => []NormalFormHasNoRedex
<1>1. Init => NormalInv
  BY DEF Init, NormalInv, Uninterrupted
<1>2. GInv /\ NormalInv => NormalFormHasNoRedex
  <2> SUFFICES ASSUME GInv, NormalInv, pc = "returned", grr = "NORMAL_FORM", ~reduction_interrupted
               PROVE  ReductionCount[left[root]][0] = 0
    BY DEF NormalFormHasNoRedex
  <2>1. Uninterrupted
    BY DEF Uninterrupted
  <2>2. PICK W \in SUBSET (Address \X Nat) : WalkedSound(W)
    BY <2>1 DEF NormalInv
  <2>3. PICK level \in [Address -> Nat], graph \in [Address -> Nat] : GraphSound(level, graph)
    BY <2>1 DEF GInv, HeapInv
  <2>4. HeapTypeOK /\ todo = <<>>
    BY DEF GInv, IInv, TypeOK, Control
  <2>5. left[root] \in InUse
    BY <2>3 DEF GraphSound, DummiesApart, Underway
  <2>6. <<left[root], 0>> \in W
    BY <2>2 DEF WalkedSound, AllWalked
  <2> HIDE DEF ReductionCount
  <2> QED
    BY <2>2, <2>3, <2>4, <2>5, <2>6, NothingCounted DEF WalkedSound, GraphSound
<1>3. GInv /\ NormalInv /\ [Next]_vars => GInv' /\ NormalInv'
  BY NextGraph, NextNormal
<1> QED
  BY <1>1, <1>2, <1>3, InitGraph, PTL DEF Spec

=============================================================================
