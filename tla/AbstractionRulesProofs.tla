----------------------- MODULE AbstractionRulesProofs -----------------------
(* Proofs about set_abstraction_rule, for every pattern, every set of        *)
(* characters and every initial size of the buffer.                          *)
(*                                                                           *)
(*   - TerminatorAlwaysFits: what calculate_strings writes without asking    *)
(*     for room, the terminator of a path, stays inside the growing buffer.  *)
(*   - AutomatonIsRight: the automaton that construct_goto, construct_failure*)
(*     and construct_delta make of the paths recognises them.                *)
(*                                                                           *)
(* The second is proved from the inside out: what one call of enter, one     *)
(* turn of construct_failure's loop and one turn of construct_delta's loop   *)
(* keep (EnterKeywordEntered, FailureTurnKeeps, DeltaTurnKeeps), what the    *)
(* calls of calculate_strings write (StringsAs), and then one lemma for each *)
(* action.                                                                   *)
EXTENDS AbstractionRules, FiniteSetTheorems, WellFoundedInduction, TLAPS

(* ------------------------------------------------------------------------ *)
(* the growing buffer                                                         *)

\* A buffer: any text, and a size.
IsBuffer(b) ==
    \E S : b \in [size : Nat, text : Seq(S)]

\* The offsets that the pending calls go back to lie inside the buffer, which
\* never becomes smaller.
OffsetsInside ==
    \E S : /\ walk \in Seq(S)
           /\ \A t \in S : t.op # "visit" => t.at \in Nat /\ t.at < buffer.size

IInv == IsBuffer(buffer) /\ TerminatorFits /\ OffsetsInside

\* buffer_append leaves room for one more byte.
LEMMA AppendLeavesRoom ==
    ASSUME NEW b, IsBuffer(b), Len(b.text) < b.size, NEW c
    PROVE  LET appended == buffer_append(b, <<c>>)
           IN  /\ IsBuffer(appended)
               /\ Len(appended.text) \in Nat
               /\ Len(appended.text) < appended.size
               /\ b.size <= appended.size
               /\ appended.size \in Nat
<1>1. PICK S : b \in [size : Nat, text : Seq(S)]
    BY DEF IsBuffer
<1> DEFINE T == S \cup {c}
           appended == buffer_append(b, <<c>>)
<1>2. b.size \in Nat /\ b.text \in Seq(T) /\ <<c>> \in Seq(T) /\ Len(<<c>>) = 1
    BY <1>1
<1>3. b.text \o <<c>> \in Seq(T) /\ Len(b.text \o <<c>>) = Len(b.text) + 1
    BY <1>2
<1>4. appended.text = b.text \o <<c>>
      /\ appended.size = IF 1 >= b.size - Len(b.text) THEN b.size + 1 ELSE b.size
    BY <1>2 DEF buffer_append
<1>5. Len(b.text) \in Nat
    BY <1>2
<1>6. appended.size \in Nat /\ Len(appended.text) < appended.size /\ b.size <= appended.size
    BY <1>2, <1>3, <1>4, <1>5
<1>7. appended \in [size : Nat, text : Seq(T)]
    BY <1>3, <1>4, <1>6 DEF buffer_append
<1>8. Len(appended.text) \in Nat
    BY <1>3, <1>4, <1>5
<1> HIDE DEF appended, T
<1>9. IsBuffer(appended)
    BY <1>7 DEF IsBuffer
<1> QED BY <1>6, <1>8, <1>9 DEF appended

\* So does going back to an offset inside the buffer.
LEMMA RewindLeavesRoom ==
    ASSUME NEW b, IsBuffer(b), NEW at \in Nat, at < b.size
    PROVE  /\ IsBuffer(Rewind(b, at))
           /\ Len(Rewind(b, at).text) = at
           /\ Rewind(b, at).size = b.size
<1>1. PICK S : b \in [size : Nat, text : Seq(S)]
    BY DEF IsBuffer
<1> DEFINE T == {b.text[i] : i \in 1..at}
           text == SubSeq(b.text, 1, at)
<1>2. text = [i \in 1..at |-> b.text[i]]
    BY <1>1
<1>3. text \in Seq(T) /\ Len(text) = at
    BY <1>2
<1>4. Rewind(b, at).size = b.size /\ Rewind(b, at).text = text
    BY <1>1 DEF Rewind
<1>5. Rewind(b, at) \in [size : Nat, text : Seq(T)]
    BY <1>1, <1>3 DEF Rewind
<1> HIDE DEF text, T
<1>6. IsBuffer(Rewind(b, at))
    BY <1>5 DEF IsBuffer
<1> QED BY <1>3, <1>4, <1>6

(* ------------------------------------------------------------------------ *)
(* the steps of calculate_strings                                             *)

\* The invariant after a step that leaves walk and buffer alone.
LEMMA OtherSteps ==
    ASSUME IInv, UNCHANGED <<walk, buffer>>
    PROVE  IInv'
BY DEF IInv, OffsetsInside, TerminatorFits, IsBuffer

LEMMA InitIInv == RulesInit => IInv
<1> SUFFICES ASSUME RulesInit PROVE IInv
    OBVIOUS
<1>1. buffer = [size |-> BufferSize, text |-> <<>>] /\ walk = <<>>
    BY DEF RulesInit
<1>2. buffer \in [size : Nat, text : Seq({})]
    BY <1>1, BufferAssumption
<1>3. IsBuffer(buffer)
    BY <1>2 DEF IsBuffer
<1>4. TerminatorFits
    BY <1>1, BufferAssumption DEF TerminatorFits
<1>5. walk \in Seq({})
    BY <1>1
<1>6. OffsetsInside
    BY <1>5 DEF OffsetsInside
<1> QED BY <1>3, <1>4, <1>6 DEF IInv

\* A new buffer is empty, and has room for a byte.
LEMMA BeginIInv ==
    ASSUME IInv, Begin
    PROVE  IInv'
<1> DEFINE task == Visit(AbstractionRule[Head(script)].pattern)
<1>1. buffer' = [size |-> BufferSize, text |-> <<>>] /\ walk' = <<task>>
    BY DEF Begin
<1>2. buffer' \in [size : Nat, text : Seq({})]
    BY <1>1, BufferAssumption
<1>3. IsBuffer(buffer')
    BY <1>2 DEF IsBuffer
<1>4. TerminatorFits'
    BY <1>1, BufferAssumption DEF TerminatorFits
<1>5. task.op = "visit"
    BY DEF Visit
<1> HIDE DEF task
<1>6. walk' \in Seq({task})
    BY <1>1
<1>7. OffsetsInside'
    BY <1>5, <1>6 DEF OffsetsInside
<1> QED BY <1>3, <1>4, <1>7 DEF IInv

\* Going down: two bytes are appended, and two offsets remembered that lie
\* before the new end of the text.
LEMMA CalculateApplicationIInv ==
    ASSUME IInv, CalculateApplication
    PROVE  IInv'
<1> DEFINE node == Head(walk).tree
           labelled == buffer_append(buffer, <<node.label>>)
           full == buffer_append(labelled, <<"1">>)
           down == Visit(node.left)
           right == [op |-> "right", at |-> Len(labelled.text), tree |-> node.right]
           leave == [op |-> "leave", at |-> Len(buffer.text)]
<1>1. /\ buffer' = full
      /\ walk' = <<down, right, leave>> \o Tail(walk)
      /\ walk # <<>>
    BY DEF CalculateApplication
<1>2. IsBuffer(buffer) /\ Len(buffer.text) < buffer.size
    BY DEF IInv, TerminatorFits
<1>3. Len(buffer.text) \in Nat /\ buffer.size \in Nat
    BY <1>2 DEF IsBuffer
<1>4. /\ IsBuffer(labelled)
      /\ Len(labelled.text) \in Nat
      /\ Len(labelled.text) < labelled.size
      /\ buffer.size <= labelled.size
      /\ labelled.size \in Nat
    BY <1>2, AppendLeavesRoom
<1> HIDE DEF labelled
<1>5. /\ IsBuffer(full)
      /\ Len(full.text) < full.size
      /\ labelled.size <= full.size
      /\ full.size \in Nat
    BY <1>4, AppendLeavesRoom
<1>6. down.op = "visit"
    BY DEF Visit
<1>7. right.at = Len(labelled.text) /\ leave.at = Len(buffer.text)
    OBVIOUS
<1> HIDE DEF full, down, right, leave
<1>8. OffsetsInside'
    <2>1. PICK S : /\ walk \in Seq(S)
                   /\ \A t \in S : t.op # "visit" => t.at \in Nat /\ t.at < buffer.size
        BY DEF IInv, OffsetsInside
    <2> DEFINE T == S \cup {down, right, leave}
    <2>2. <<down, right, leave>> \in Seq(T)
        OBVIOUS
    <2>3. Tail(walk) \in Seq(T)
        BY <1>1, <2>1
    <2>4. walk' \in Seq(T)
        BY <1>1, <2>2, <2>3
    <2>5. ASSUME NEW t \in T, t.op # "visit"
          PROVE  t.at \in Nat /\ t.at < full.size
        <3>1. CASE t \in S
            <4>1. t.at \in Nat /\ t.at < buffer.size
                BY <2>1, <2>5, <3>1
            <4> QED BY <1>3, <1>4, <1>5, <4>1
        <3>2. CASE t = right
            BY <1>4, <1>5, <1>7, <3>2
        <3>3. CASE t = leave
            BY <1>2, <1>3, <1>4, <1>5, <1>7, <3>3
        <3> QED BY <1>6, <2>5, <3>1, <3>2, <3>3
    <2> HIDE DEF T
    <2>6. \A t \in T : t.op # "visit" => t.at \in Nat /\ t.at < buffer'.size
        BY <1>1, <2>5
    <2> QED BY <2>4, <2>6 DEF OffsetsInside
<1> QED BY <1>1, <1>5, <1>8 DEF IInv, TerminatorFits

\* What a pending call knows, and the calls behind it.
LEMMA Pending ==
    ASSUME OffsetsInside, walk # <<>>
    PROVE  /\ Head(walk).op # "visit"
                => Head(walk).at \in Nat /\ Head(walk).at < buffer.size
           /\ \E S : /\ Tail(walk) \in Seq(S)
                     /\ \A t \in S : t.op # "visit"
                                      => t.at \in Nat /\ t.at < buffer.size
<1>1. PICK S : /\ walk \in Seq(S)
               /\ \A t \in S : t.op # "visit" => t.at \in Nat /\ t.at < buffer.size
    BY DEF OffsetsInside
<1>2. Head(walk) \in S /\ Tail(walk) \in Seq(S)
    BY <1>1
<1> QED BY <1>1, <1>2

\* A leaf's path is copied; the buffer stays.
LEMMA CalculateLeafIInv ==
    ASSUME IInv, CalculateLeaf
    PROVE  IInv'
<1>1. walk # <<>> /\ walk' = Tail(walk) /\ UNCHANGED buffer
    BY DEF CalculateLeaf
<1>2. OffsetsInside'
    BY <1>1, Pending DEF IInv, OffsetsInside
<1> QED BY <1>1, <1>2 DEF IInv, TerminatorFits, IsBuffer

\* Turning right: back to a remembered offset, and one byte.
LEMMA TurnRightIInv ==
    ASSUME IInv, TurnRight
    PROVE  IInv'
<1> DEFINE at == Head(walk).at
           back == Rewind(buffer, at)
           full == buffer_append(back, <<"2">>)
           down == Visit(Head(walk).tree)
<1>1. /\ walk # <<>>
      /\ Head(walk).op = "right"
      /\ buffer' = full
      /\ walk' = <<down>> \o Tail(walk)
    BY DEF TurnRight
<1>2. IsBuffer(buffer) /\ buffer.size \in Nat
    BY DEF IInv, IsBuffer
<1>3. at \in Nat /\ at < buffer.size
    BY <1>1, Pending DEF IInv
<1> HIDE DEF at
<1>4. IsBuffer(back) /\ Len(back.text) = at /\ back.size = buffer.size
    BY <1>2, <1>3, RewindLeavesRoom
<1> HIDE DEF back
<1>5. /\ IsBuffer(full)
      /\ Len(full.text) < full.size
      /\ buffer.size <= full.size
      /\ full.size \in Nat
    BY <1>3, <1>4, AppendLeavesRoom
<1>6. down.op = "visit"
    BY DEF Visit
<1> HIDE DEF full, down
<1>7. OffsetsInside'
    <2>1. PICK S : /\ Tail(walk) \in Seq(S)
                   /\ \A t \in S : t.op # "visit" => t.at \in Nat /\ t.at < buffer.size
        BY <1>1, Pending DEF IInv
    <2> DEFINE T == S \cup {down}
    <2>2. <<down>> \in Seq(T) /\ Tail(walk) \in Seq(T)
        BY <2>1
    <2>3. walk' \in Seq(T)
        BY <1>1, <2>2
    <2>4. \A t \in T : t.op # "visit" => t.at \in Nat /\ t.at < full.size
        BY <1>2, <1>5, <1>6, <2>1
    <2> HIDE DEF T
    <2> QED BY <1>1, <2>3, <2>4 DEF OffsetsInside
<1> QED BY <1>1, <1>5, <1>7 DEF IInv, TerminatorFits

\* Going up: back to the offset at which the call began.
LEMMA LeaveApplicationIInv ==
    ASSUME IInv, LeaveApplication
    PROVE  IInv'
<1> DEFINE at == Head(walk).at
<1>1. /\ walk # <<>>
      /\ Head(walk).op = "leave"
      /\ buffer' = Rewind(buffer, at)
      /\ walk' = Tail(walk)
    BY DEF LeaveApplication
<1>2. IsBuffer(buffer) /\ buffer.size \in Nat
    BY DEF IInv, IsBuffer
<1>3. at \in Nat /\ at < buffer.size
    BY <1>1, Pending DEF IInv
<1> HIDE DEF at
<1>4. IsBuffer(buffer') /\ Len(buffer'.text) = at /\ buffer'.size = buffer.size
    BY <1>1, <1>2, <1>3, RewindLeavesRoom
<1>5. OffsetsInside'
    BY <1>1, <1>4, Pending DEF IInv, OffsetsInside
<1>6. TerminatorFits'
    BY <1>3, <1>4 DEF TerminatorFits
<1> QED BY <1>4, <1>5, <1>6 DEF IInv

\* The terminator that ends a path fits (brack.c:447), whatever the patterns
\* and the initial size of the buffer.
THEOREM TerminatorAlwaysFits == RulesSpec => []TerminatorFits
<1>1. IInv /\ [SetAbstractionRule \/ delete_abstraction_rules]_ruleVars => IInv'
    <2> SUFFICES ASSUME IInv, [SetAbstractionRule \/ delete_abstraction_rules]_ruleVars
                 PROVE  IInv'
        OBVIOUS
    <2>1. CASE Begin
        BY <2>1, BeginIInv
    <2>2. CASE CalculateApplication
        BY <2>2, CalculateApplicationIInv
    <2>3. CASE CalculateLeaf
        BY <2>3, CalculateLeafIInv
    <2>4. CASE TurnRight
        BY <2>4, TurnRightIInv
    <2>5. CASE LeaveApplication
        BY <2>5, LeaveApplicationIInv
    <2>6. CASE PathsComplete \/ EnterKeyword \/ KeywordsEntered
        BY <2>6, OtherSteps DEF PathsComplete, EnterKeyword, KeywordsEntered
    <2>7. CASE FailureTurn \/ FailureDone \/ DeltaTurn \/ RuleAdded
        BY <2>7, OtherSteps DEF FailureTurn, FailureDone, DeltaTurn, RuleAdded
    <2>8. CASE delete_abstraction_rules \/ UNCHANGED ruleVars
        BY <2>8, OtherSteps DEF delete_abstraction_rules, ruleVars
    <2> QED BY <2>1, <2>2, <2>3, <2>4, <2>5, <2>6, <2>7, <2>8 DEF SetAbstractionRule
<1>2. IInv => TerminatorFits
    BY DEF IInv
<1> QED BY InitIInv, <1>1, <1>2, PTL DEF RulesSpec

(* ------------------------------------------------------------------------ *)
(* numbers                                                                    *)

\* Among some numbers one is the least.
LEMMA LeastNumber ==
    ASSUME NEW S \in SUBSET Nat, S # {}
    PROVE  \E m \in S : \A k \in S : m <= k
<1> DEFINE R == OpToRel(<, Nat)
<1>1. PICK m \in S : \A k \in S : ~(<<k, m>> \in R)
  BY NatLessThanWellFounded, WFMin
<1>2. ASSUME NEW k \in S PROVE m <= k
  <2>1. k \in Nat /\ m \in Nat /\ <<k, m>> \in Nat \X Nat
    OBVIOUS
  <2>2. k < m => <<k, m>> \in R
    BY <2>1 DEF OpToRel
  <2> HIDE DEF R
  <2>3. ~(k < m)
    BY <1>1, <2>2
  <2> QED
    BY <2>1, <2>3
<1> QED
  BY <1>2

\* Among some numbers below a bound one is the greatest.
LEMMA GreatestNumber ==
    ASSUME NEW n \in Nat, NEW S \in SUBSET (0..n), S # {}
    PROVE  \E m \in S : \A k \in S : k <= m
<1> DEFINE T == {n - k : k \in S}
<1>1. T \in SUBSET Nat /\ T # {}
  <2>1. \A k \in S : k \in 0..n
    OBVIOUS
  <2>2. \A k \in 0..n : n - k \in Nat
    OBVIOUS
  <2> QED
    BY <2>1, <2>2
<1>2. PICK l \in T : \A k \in T : l <= k
  <2> HIDE DEF T
  <2> QED
    BY <1>1, LeastNumber
<1>3. PICK m \in S : l = n - m
  BY <1>2
<1>4. ASSUME NEW k \in S PROVE k <= m
  <2>1. n - k \in T /\ k \in Nat /\ m \in Nat
    OBVIOUS
  <2>2. l <= n - k
    BY <1>2, <2>1
  <2> QED
    BY <1>3, <2>1, <2>2
<1> QED
  BY <1>4

(* ------------------------------------------------------------------------ *)
(* texts                                                                      *)

Text == Seq(Char)

\* The text u is the end of the text t.
Ends(u, t) ==
    /\ Len(u) <= Len(t)
    /\ \A i \in 1..Len(u) : u[i] = t[i + (Len(t) - Len(u))]

LEMMA SameText ==
    ASSUME NEW u \in Text, NEW t \in Text, Len(u) = Len(t),
           \A i \in 1..Len(u) : u[i] = t[i]
    PROVE  u = t
BY DEF Text

LEMMA EndsBasic ==
    ASSUME NEW t \in Text
    PROVE  Ends(t, t) /\ Ends(<<>>, t) /\ <<>> \in Text
BY DEF Ends, Text

LEMMA EndsNothing ==
    ASSUME NEW u \in Text, Ends(u, <<>>)
    PROVE  u = <<>>
BY DEF Ends, Text

LEMMA EndsShorter ==
    ASSUME NEW u \in Text, NEW t \in Text, Ends(u, t)
    PROVE  Len(u) <= Len(t) /\ (u # t => Len(u) < Len(t))
<1>1. Len(u) \in Nat /\ Len(t) \in Nat /\ Len(u) <= Len(t)
  BY DEF Ends, Text
<1>2. Len(u) = Len(t) => u = t
  <2> SUFFICES ASSUME Len(u) = Len(t) PROVE u = t
    OBVIOUS
  <2>1. \A i \in 1..Len(u) : u[i] = t[i]
    BY <1>1 DEF Ends
  <2> QED
    BY <2>1, SameText
<1> QED
  BY <1>1, <1>2

LEMMA EndsTransitive ==
    ASSUME NEW u \in Text, NEW v \in Text, NEW t \in Text, Ends(u, v), Ends(v, t)
    PROVE  Ends(u, t)
<1>1. Len(u) \in Nat /\ Len(v) \in Nat /\ Len(t) \in Nat
  BY DEF Text
<1>2. Len(u) <= Len(v) /\ Len(v) <= Len(t)
  BY DEF Ends
<1>3. ASSUME NEW i \in 1..Len(u) PROVE u[i] = t[i + (Len(t) - Len(u))]
  <2> DEFINE j == i + (Len(v) - Len(u))
  <2>1. j \in 1..Len(v) /\ j + (Len(t) - Len(v)) = i + (Len(t) - Len(u))
    BY <1>1, <1>2
  <2>2. u[i] = v[j]
    BY DEF Ends
  <2> HIDE DEF j
  <2>3. v[j] = t[j + (Len(t) - Len(v))]
    BY <2>1 DEF Ends
  <2> QED
    BY <2>1, <2>2, <2>3
<1> QED
  BY <1>1, <1>2, <1>3 DEF Ends

\* Of two ends of a text the shorter is an end of the longer.
LEMMA EndsNested ==
    ASSUME NEW u \in Text, NEW v \in Text, NEW t \in Text, Ends(u, t), Ends(v, t),
           Len(u) <= Len(v)
    PROVE  Ends(u, v)
<1>1. Len(u) \in Nat /\ Len(v) \in Nat /\ Len(t) \in Nat /\ Len(v) <= Len(t)
  BY DEF Text, Ends
<1>2. ASSUME NEW i \in 1..Len(u) PROVE u[i] = v[i + (Len(v) - Len(u))]
  <2> DEFINE j == i + (Len(v) - Len(u))
  <2>1. j \in 1..Len(v) /\ j + (Len(t) - Len(v)) = i + (Len(t) - Len(u))
    BY <1>1
  <2>2. u[i] = t[i + (Len(t) - Len(u))]
    BY DEF Ends
  <2> HIDE DEF j
  <2>3. v[j] = t[j + (Len(t) - Len(v))]
    BY <2>1 DEF Ends
  <2> QED
    BY <2>1, <2>2, <2>3 DEF j
<1> QED
  BY <1>2 DEF Ends

\* The ends of a text with one more character.
LEMMA EndsAppend ==
    ASSUME NEW u \in Text, NEW t \in Text, NEW c \in Char, NEW d \in Char
    PROVE  /\ Append(t, c) \in Text
           /\ Len(Append(t, c)) = Len(t) + 1
           /\ Ends(Append(u, d), Append(t, c)) <=> d = c /\ Ends(u, t)
<1>1. Len(u) \in Nat /\ Len(t) \in Nat
  BY DEF Text
<1> DEFINE a == Append(u, d)
           b == Append(t, c)
<1>2. /\ Len(a) = Len(u) + 1 /\ Len(b) = Len(t) + 1
      /\ a[Len(u) + 1] = d /\ b[Len(t) + 1] = c
      /\ \A i \in 1..Len(u) : a[i] = u[i]
      /\ \A i \in 1..Len(t) : b[i] = t[i]
      /\ b \in Text
  BY DEF Text
<1> HIDE DEF a, b
<1>3. ASSUME Ends(a, b) PROVE d = c /\ Ends(u, t)
  <2>1. Len(u) + 1 \in 1..Len(a) /\ Len(u) + 1 + (Len(b) - Len(a)) = Len(t) + 1
    BY <1>1, <1>2
  <2>2. a[Len(u) + 1] = b[Len(t) + 1]
    BY <1>3, <2>1 DEF Ends
  <2>3. Len(u) <= Len(t)
    BY <1>1, <1>2, <1>3 DEF Ends
  <2>4. ASSUME NEW i \in 1..Len(u) PROVE u[i] = t[i + (Len(t) - Len(u))]
    <3>1. i \in 1..Len(a) /\ i + (Len(b) - Len(a)) = i + (Len(t) - Len(u))
          /\ i + (Len(t) - Len(u)) \in 1..Len(t)
      BY <1>1, <1>2, <2>3
    <3>2. a[i] = b[i + (Len(b) - Len(a))]
      BY <1>3, <3>1 DEF Ends
    <3> QED
      BY <1>2, <3>1, <3>2
  <2> QED
    BY <1>2, <2>2, <2>3, <2>4 DEF Ends
<1>4. ASSUME d = c, Ends(u, t) PROVE Ends(a, b)
  <2>1. Len(u) <= Len(t)
    BY <1>4 DEF Ends
  <2>2. ASSUME NEW i \in 1..Len(a) PROVE a[i] = b[i + (Len(b) - Len(a))]
    <3>1. CASE i = Len(u) + 1
      BY <1>1, <1>2, <1>4, <3>1
    <3>2. CASE i # Len(u) + 1
      <4>1. i \in 1..Len(u) /\ i + (Len(b) - Len(a)) = i + (Len(t) - Len(u))
            /\ i + (Len(t) - Len(u)) \in 1..Len(t)
        BY <1>1, <1>2, <2>1, <3>2
      <4>2. u[i] = t[i + (Len(t) - Len(u))]
        BY <1>4, <4>1 DEF Ends
      <4> QED
        BY <1>2, <4>1, <4>2
    <3> QED
      BY <3>1, <3>2
  <2> QED
    BY <1>1, <1>2, <2>1, <2>2 DEF Ends
<1> QED
  BY <1>2, <1>3, <1>4 DEF a, b

LEMMA AppendSame ==
    ASSUME NEW u \in Text, NEW t \in Text, NEW c \in Char, NEW d \in Char,
           Append(u, d) = Append(t, c)
    PROVE  u = t /\ d = c
<1>1. Len(u) \in Nat /\ Len(t) \in Nat /\ Len(Append(u, d)) = Len(u) + 1
      /\ Len(Append(t, c)) = Len(t) + 1
  BY DEF Text
<1>2. Len(u) = Len(t)
  BY <1>1
<1>3. /\ \A i \in 1..Len(u) : Append(u, d)[i] = u[i]
      /\ \A i \in 1..Len(t) : Append(t, c)[i] = t[i]
      /\ Append(u, d)[Len(u) + 1] = d /\ Append(t, c)[Len(t) + 1] = c
  BY DEF Text
<1>4. \A i \in 1..Len(u) : u[i] = t[i]
  BY <1>2, <1>3
<1> QED
  BY <1>2, <1>3, <1>4, SameText

\* What Suffixes of SequencesExt lists.
LEMMA EndsAreSuffixes ==
    ASSUME NEW u \in Text, NEW t \in Text
    PROVE  u \in Suffixes(t) <=> Ends(u, t)
<1>1. Len(u) \in Nat /\ Len(t) \in Nat
  BY DEF Text
<1>2. ASSUME NEW l \in 1..Len(t)
      PROVE  LET s == SubSeq(t, l, Len(t))
             IN  /\ s \in Text /\ Len(s) = Len(t) - l + 1
                 /\ \A i \in 1..Len(s) : s[i] = t[l + i - 1]
  BY <1>1 DEF Text
<1>3. ASSUME u \in Suffixes(t) PROVE Ends(u, t)
  <2>1. CASE u = <<>>
    BY <2>1, EndsBasic
  <2>2. CASE u # <<>>
    <3>1. PICK l \in 1..Len(t) : u = SubSeq(t, l, Len(t))
      BY <1>3, <2>2 DEF Suffixes
    <3>2. Len(u) = Len(t) - l + 1 /\ \A i \in 1..Len(u) : u[i] = t[l + i - 1]
      BY <1>2, <3>1
    <3>3. \A i \in 1..Len(u) : i + (Len(t) - Len(u)) = l + i - 1
      BY <1>1, <3>2
    <3>4. Len(u) <= Len(t)
      BY <1>1, <3>2
    <3> QED
      BY <3>2, <3>3, <3>4 DEF Ends
  <2> QED
    BY <2>1, <2>2
<1>4. ASSUME Ends(u, t) PROVE u \in Suffixes(t)
  <2>1. CASE Len(u) = 0
    <3>1. u = <<>>
      BY <2>1 DEF Text
    <3> QED
      BY <3>1 DEF Suffixes
  <2>2. CASE Len(u) # 0
    <3> DEFINE l == Len(t) - Len(u) + 1
               s == SubSeq(t, l, Len(t))
    <3>1. l \in 1..Len(t)
      BY <1>1, <1>4, <2>2 DEF Ends
    <3>2. s \in Text /\ Len(s) = Len(t) - l + 1 /\ \A i \in 1..Len(s) : s[i] = t[l + i - 1]
      BY <1>2, <3>1
    <3>3. Len(s) = Len(u)
      BY <1>1, <3>2
    <3>4. ASSUME NEW i \in 1..Len(u) PROVE u[i] = s[i]
      <4>1. l + i - 1 = i + (Len(t) - Len(u))
        BY <1>1
      <4> HIDE DEF l, s
      <4> QED
        BY <1>4, <3>2, <3>3, <4>1 DEF Ends
    <3>5. u = s
      <4> HIDE DEF s
      <4> QED
        BY <3>2, <3>3, <3>4, SameText
    <3> QED
      BY <3>1, <3>5 DEF Suffixes
  <2> QED
    BY <2>1, <2>2
<1> QED
  BY <1>3, <1>4

(* ------------------------------------------------------------------------ *)
(* the states, and the texts that lead to them                                *)

\* The rows of ary form a tree, and name is the text on the way to a state.
TreeOver(D, ary, name) ==
    /\ \E n \in Nat : D = 0..n
    /\ ary \in [D -> [Char -> D \cup {FAIL}]]
    /\ name \in [D -> Text]
    /\ name[0] = <<>>
    /\ \A s, t \in D : name[s] = name[t] => s = t
    /\ \A s \in D, c \in Char, t \in D \ {0} : ary[s][c] = t <=> name[t] = Append(name[s], c)
    /\ \A t \in D \ {0} : \E s \in D, c \in Char : name[t] = Append(name[s], c)

Tree(ary, name) == TreeOver(DOMAIN ary, ary, name)

\* While keywords are entered: a transition leads to a later state.
Growing(ary) == \A s \in DOMAIN ary, c \in Char : ary[s][c] # FAIL => ary[s][c] > s

\* Afterwards: the root, and no other state, absorbs what starts no keyword.
Closed(ary) == \A s \in DOMAIN ary, c \in Char :
                  /\ ary[s][c] = 0 => s = 0
                  /\ s = 0 => ary[s][c] # FAIL

\* An automaton is a struct gto.
IsAutomaton(g) ==
    g = [ary |-> g.ary, output |-> g.output, max_node_count |-> g.max_node_count,
         failure |-> g.failure, delta |-> g.delta]

LEMMA StatesCounted ==
    ASSUME NEW n \in Nat
    PROVE  IsFiniteSet(0..n) /\ Cardinality(0..n) = n + 1
BY FS_Interval

LEMMA SetAry ==
    ASSUME NEW g, IsAutomaton(g), NEW row
    PROVE  LET h == [g EXCEPT !.ary = row]
           IN  /\ IsAutomaton(h) /\ h.ary = row
               /\ h.output = g.output /\ h.max_node_count = g.max_node_count
               /\ h.failure = g.failure /\ h.delta = g.delta
<1>1. [g EXCEPT !.ary = row]
        = [ary |-> row, output |-> g.output, max_node_count |-> g.max_node_count,
           failure |-> g.failure, delta |-> g.delta]
  BY DEF IsAutomaton
<1> QED
  BY <1>1 DEF IsAutomaton

LEMMA AddState ==
    ASSUME NEW g, NEW name, IsAutomaton(g), Tree(g.ary, name), Growing(g.ary),
           NEW s \in DOMAIN g.ary, NEW c \in Char, g.ary[s][c] = FAIL
    PROVE  LET h == add_state(g, s, c)
               new == Cardinality(DOMAIN g.ary)
           IN  \E named :
                  /\ IsAutomaton(h) /\ Tree(h.ary, named) /\ Growing(h.ary)
                  /\ h.output = g.output
                  /\ new \notin DOMAIN g.ary
                  /\ DOMAIN h.ary = DOMAIN g.ary \cup {new}
                  /\ DOMAIN h.ary = 0..new
                  /\ named[new] = Append(name[s], c)
                  /\ \A t \in DOMAIN g.ary : named[t] = name[t]
<1> DEFINE ary == g.ary
           D == DOMAIN ary
           new == Cardinality(D)
           h == add_state(g, s, c)
           row == h.ary
           named == [t \in D \cup {new} |-> IF t = new THEN Append(name[s], c) ELSE name[t]]
<1>1. PICK n \in Nat : D = 0..n
  BY DEF Tree, TreeOver
<1>2. new = n + 1 /\ new \notin D /\ D \cup {new} = 0..new /\ new \in Nat /\ 0 \in D
  <2>1. new = n + 1
    BY <1>1, StatesCounted
  <2>2. \A m \in Nat : 0..m \cup {m + 1} = 0..(m + 1)
    OBVIOUS
  <2> HIDE DEF new, D
  <2> QED
    BY <1>1, <2>1, <2>2
<1>3. \A t \in D : t < new /\ t \in Nat
  BY <1>1, <1>2
<1>4. /\ ary \in [D -> [Char -> D \cup {FAIL}]]
      /\ name \in [D -> Text]
      /\ name[0] = <<>>
      /\ \A r, t \in D : name[r] = name[t] => r = t
      /\ \A r \in D, d \in Char, t \in D \ {0} : ary[r][d] = t <=> name[t] = Append(name[r], d)
      /\ \A t \in D \ {0} : \E r \in D, d \in Char : name[t] = Append(name[r], d)
  BY DEF Tree, TreeOver
<1>5. /\ IsAutomaton(h)
      /\ h.output = g.output
      /\ row = [t \in 0..new |-> IF t = new THEN BlankRow
                                 ELSE IF t = s THEN [ary[s] EXCEPT ![c] = new] ELSE ary[t]]
  <2> DEFINE rows == [t \in 0..new |-> IF t = new THEN BlankRow
                                 ELSE IF t = s THEN [ary[s] EXCEPT ![c] = new] ELSE ary[t]]
  <2>1. h = [g EXCEPT !.ary = rows]
    BY DEF add_state
  <2>2. row = h.ary
    OBVIOUS
  <2> HIDE DEF rows, h
  <2>3. IsAutomaton(h) /\ h.ary = rows /\ h.output = g.output
    BY <2>1, SetAry
  <2> QED
    BY <2>3, <2>2 DEF rows
<1>6. FAIL = -1 /\ FAIL \notin Nat /\ \A d \in Char : BlankRow[d] = FAIL
  BY DEF BlankRow, FAIL
<1>7. BlankRow \in [Char -> {FAIL}]
  BY DEF BlankRow
<1>8. /\ DOMAIN row = D \cup {new}
      /\ \A d \in Char : row[new][d] = FAIL
      /\ \A t \in D, d \in Char : row[t][d] = IF t = s /\ d = c THEN new ELSE ary[t][d]
  <2>1. DOMAIN row = D \cup {new} /\ row[new] = BlankRow
    BY <1>2, <1>5
  <2>2. ASSUME NEW t \in D, NEW d \in Char
        PROVE  row[t][d] = IF t = s /\ d = c THEN new ELSE ary[t][d]
    <3>1. row[t] = IF t = s THEN [ary[s] EXCEPT ![c] = new] ELSE ary[t]
      BY <1>2, <1>3, <1>5
    <3>2. ary[t] \in [Char -> D \cup {FAIL}]
      BY <1>4
    <3> QED
      BY <3>1, <3>2
  <2> QED
    BY <1>6, <2>1, <2>2
<1>9. row \in [D \cup {new} -> [Char -> D \cup {new} \cup {FAIL}]]
  <2>1. ASSUME NEW t \in D PROVE row[t] \in [Char -> D \cup {new} \cup {FAIL}]
    <3>1. row[t] = IF t = s THEN [ary[s] EXCEPT ![c] = new] ELSE ary[t]
      BY <1>2, <1>3, <1>5
    <3>2. ary[t] \in [Char -> D \cup {FAIL}]
      BY <1>4
    <3> QED
      BY <3>1, <3>2
  <2>2. row[new] = BlankRow
    BY <1>2, <1>5
  <2>3. row[new] \in [Char -> D \cup {new} \cup {FAIL}]
    BY <1>7, <2>2
  <2>4. row = [t \in D \cup {new} |-> row[t]]
    BY <1>2, <1>5
  <2> HIDE DEF row, D, new
  <2> QED
    BY <2>1, <2>3, <2>4
<1>10. /\ named[new] = Append(name[s], c)
       /\ \A t \in D : named[t] = name[t]
       /\ DOMAIN named = D \cup {new}
  BY <1>2
<1>11. /\ Append(name[s], c) \in Text
       /\ \A t \in D : name[t] \in Text
       /\ Len(Append(name[s], c)) > 0
  <2>1. name[s] \in Text /\ \A t \in D : name[t] \in Text
    BY <1>4
  <2>2. Len(name[s]) \in Nat
    BY <2>1 DEF Text
  <2> QED
    BY <2>1, <2>2, EndsAppend
<1>12. named \in [D \cup {new} -> Text]
  BY <1>10, <1>11
<1>13. ASSUME NEW t \in D PROVE name[t] # Append(name[s], c)
  <2>1. CASE t = 0
    BY <1>4, <1>11, <2>1
  <2>2. CASE t # 0
    <3> HIDE DEF D, ary
    <3>1. ary[s][c] = FAIL /\ t # FAIL /\ s \in D
      BY <1>3, <1>6 DEF D, ary
    <3> QED
      BY <1>4, <2>2, <3>1
  <2> QED
    BY <2>1, <2>2
<1> HIDE DEF h, row, named, new, D, ary
<1>14. ASSUME NEW r \in D \cup {new}, NEW t \in D \cup {new}, named[r] = named[t]
       PROVE  r = t
  <2>1. r \in D \/ r = new
    BY <1>14
  <2>2. t \in D \/ t = new
    BY <1>14
  <2>3. CASE r \in D /\ t \in D
    BY <1>4, <1>10, <1>14, <2>3
  <2>4. CASE r = new /\ t \in D
    BY <1>10, <1>13, <1>14, <2>4
  <2>5. CASE r \in D /\ t = new
    BY <1>10, <1>13, <1>14, <2>5
  <2> QED
    BY <2>1, <2>2, <2>3, <2>4, <2>5
<1>15. ASSUME NEW r \in D \cup {new}, NEW d \in Char, NEW t \in (D \cup {new}) \ {0}
       PROVE  row[r][d] = t <=> named[t] = Append(named[r], d)
  <2>1. CASE r \in D /\ t \in D
    <3>1. ary[r][d] = t <=> name[t] = Append(name[r], d)
      BY <1>4, <1>15, <2>1
    <3>2. CASE r = s /\ d = c
      <4>1. row[r][d] = new /\ new # t
        BY <1>2, <1>8, <2>1, <3>2
      <4>2. named[t] # Append(named[r], d)
        BY <1>10, <1>13, <2>1, <3>2
      <4> QED
        BY <4>1, <4>2
    <3>3. CASE ~(r = s /\ d = c)
      BY <1>8, <1>10, <2>1, <3>1, <3>3
    <3> QED
      BY <3>2, <3>3
  <2>2. CASE r \in D /\ t = new
    <3>1. ary[r][d] # new
      <4>1. ary[r][d] \in D \cup {FAIL}
        BY <1>4, <2>2
      <4> QED
        BY <1>2, <1>6, <4>1
    <3>2. row[r][d] = new <=> r = s /\ d = c
      BY <1>8, <2>2, <3>1
    <3>3. Append(name[s], c) = Append(name[r], d) <=> r = s /\ d = c
      <4>1. name[s] \in Text /\ name[r] \in Text /\ s \in D
        BY <1>11, <2>2 DEF D, ary
      <4>2. Append(name[s], c) = Append(name[r], d) => name[s] = name[r] /\ c = d
        BY <4>1, AppendSame
      <4> QED
        BY <1>4, <2>2, <4>1, <4>2
    <3> QED
      BY <1>10, <2>2, <3>2, <3>3
  <2>3. CASE r = new
    <3>1. row[r][d] = FAIL /\ FAIL # t
      BY <1>2, <1>3, <1>6, <1>8, <2>3
    <3>2. named[t] # Append(named[new], d)
      <4> DEFINE u == Append(name[s], c)
                 v == Append(u, d)
      <4>1. u \in Text /\ v \in Text /\ Len(u) \in Nat /\ Len(v) = Len(u) + 1
            /\ Len(u) = Len(name[s]) + 1
        <5>1. name[s] \in Text /\ u \in Text
          BY <1>11 DEF D, ary
        <5>2. Len(u) \in Nat
          BY <5>1 DEF Text
        <5> QED
          BY <5>1, <5>2, EndsAppend
      <4>2. CASE t = new
        BY <1>10, <4>1, <4>2
      <4>3. CASE t \in D
        <5> SUFFICES ASSUME name[t] = v PROVE FALSE
          BY <1>10, <4>3
        <5>1. PICK p \in D, e \in Char : name[t] = Append(name[p], e)
          BY <1>4, <1>15, <4>3
        <5>2. name[p] = u
          <6>1. name[p] \in Text /\ Append(name[p], e) = Append(u, d)
            BY <1>11, <5>1
          <6>2. u \in Text
            BY <4>1
          <6> HIDE DEF u, v
          <6> QED
            BY <6>1, <6>2, AppendSame
        <5> QED
          BY <1>13, <5>2
      <4> QED
        BY <4>2, <4>3
    <3> QED
      BY <2>3, <3>1, <3>2
  <2> QED
    BY <2>1, <2>2, <2>3
<1>16. ASSUME NEW t \in (D \cup {new}) \ {0}
       PROVE  \E r \in D \cup {new}, d \in Char : named[t] = Append(named[r], d)
  <2>1. CASE t = new
    <3>1. s \in D
      BY DEF D, ary
    <3> QED
      BY <1>10, <2>1, <3>1
  <2>2. CASE t \in D
    <3>1. PICK r \in D, d \in Char : name[t] = Append(name[r], d)
      BY <1>4, <1>16, <2>2
    <3> QED
      BY <1>10, <2>2, <3>1
  <2> QED
    BY <2>1, <2>2
<1>17. Tree(row, named)
  <2>1. \E m \in Nat : DOMAIN row = 0..m
    BY <1>2, <1>8
  <2>2. named[0] = <<>>
    BY <1>2, <1>4, <1>10
  <2> DEFINE E == D \cup {new}
  <2>3. DOMAIN row = E
    BY <1>8
  <2>4. row \in [E -> [Char -> E \cup {FAIL}]] /\ named \in [E -> Text]
    BY <1>9, <1>12
  <2>5. \A r, t \in E : named[r] = named[t] => r = t
    BY <1>14
  <2>6. \A r \in E, d \in Char, t \in E \ {0} : row[r][d] = t <=> named[t] = Append(named[r], d)
    BY <1>15
  <2>7. \A t \in E \ {0} : \E r \in E, d \in Char : named[t] = Append(named[r], d)
    BY <1>16
  <2>8. \E m \in Nat : E = 0..m
    BY <2>1, <2>3
  <2> HIDE DEF E
  <2>9. TreeOver(E, row, named)
    BY <2>2, <2>4, <2>5, <2>6, <2>7, <2>8 DEF TreeOver
  <2> QED
    BY <2>3, <2>9 DEF Tree
<1>18. Growing(row)
  <2> SUFFICES ASSUME NEW r \in D \cup {new}, NEW d \in Char, row[r][d] # FAIL
               PROVE  row[r][d] > r
    BY <1>8 DEF Growing
  <2>1. r \in D
    BY <1>8
  <2>2. CASE r = s /\ d = c
    BY <1>2, <1>3, <1>8, <2>1, <2>2
  <2>3. CASE ~(r = s /\ d = c)
    BY <1>8, <2>1, <2>3 DEF Growing, D, ary
  <2> QED
    BY <2>2, <2>3
<1>19. /\ IsAutomaton(h) /\ Tree(h.ary, named) /\ Growing(h.ary)
       /\ h.output = g.output
       /\ new \notin DOMAIN g.ary
       /\ DOMAIN h.ary = DOMAIN g.ary \cup {new}
       /\ DOMAIN h.ary = 0..new
       /\ named[new] = Append(name[s], c)
       /\ \A t \in DOMAIN g.ary : named[t] = name[t]
  BY <1>2, <1>3, <1>5, <1>8, <1>10, <1>17, <1>18 DEF row, D, ary
<1> QED
  BY <1>19 DEF h, new, D, ary

(* ------------------------------------------------------------------------ *)
(* procedure enter()                                                          *)

LEMMA PrefixesAppend ==
    ASSUME NEW u \in Text, NEW c \in Char
    PROVE  Prefixes(Append(u, c)) = Prefixes(u) \cup {Append(u, c)}
<1> DEFINE v == Append(u, c)
<1>1. Len(u) \in Nat /\ v \in Text /\ Len(v) = Len(u) + 1
  BY EndsAppend DEF Text
<1>2. ASSUME NEW l \in 0..Len(u) PROVE SubSeq(v, 1, l) = SubSeq(u, 1, l)
  BY <1>1 DEF Text
<1>3. SubSeq(v, 1, Len(v)) = v
  BY <1>1 DEF Text
<1>4. 0..Len(v) = 0..Len(u) \cup {Len(v)}
  BY <1>1
<1> HIDE DEF v
<1>5. Prefixes(v) = {SubSeq(v, 1, l) : l \in 0..Len(u)} \cup {SubSeq(v, 1, Len(v))}
  BY <1>4 DEF Prefixes
<1>6. {SubSeq(v, 1, l) : l \in 0..Len(u)} = Prefixes(u)
  BY <1>2 DEF Prefixes
<1> QED
  BY <1>3, <1>5, <1>6 DEF v

LEMMA PrefixesOfNothing == Prefixes(<<>>) = {<<>>}
<1>1. Len(<<>>) = 0 /\ 0..0 = {0} /\ SubSeq(<<>>, 1, 0) = <<>>
  OBVIOUS
<1>2. Prefixes(<<>>) = {SubSeq(<<>>, 1, l) : l \in {0}}
  BY <1>1 DEF Prefixes
<1> QED
  BY <1>1, <1>2

\* The texts of all states.
Named(ary, name) == {name[t] : t \in DOMAIN ary}

\* Where the text has led from automaton g: the states that were there keep
\* their texts, the others are the last ones, made for the text's prefixes.
Reached(at, g, name, text) ==
    \E named :
        /\ IsAutomaton(at.g) /\ Tree(at.g.ary, named) /\ Growing(at.g.ary)
        /\ at.g.output = g.output
        /\ at.state \in DOMAIN at.g.ary /\ named[at.state] = text
        /\ \A t \in DOMAIN g.ary : t \in DOMAIN at.g.ary /\ named[t] = name[t]
        /\ Named(at.g.ary, named) = Named(g.ary, name) \cup Prefixes(text)
        /\ \/ DOMAIN at.g.ary = DOMAIN g.ary
           \/ DOMAIN at.g.ary = 0..at.state /\ at.state \notin DOMAIN g.ary

LEMMA TreeFacts ==
    ASSUME NEW ary, NEW name, Tree(ary, name)
    PROVE  /\ \E n \in Nat : DOMAIN ary = 0..n
           /\ 0 \in DOMAIN ary /\ name[0] = <<>>
           /\ \A s \in DOMAIN ary : s \in Nat /\ s # FAIL /\ name[s] \in Text /\ Len(name[s]) \in Nat
           /\ \A s \in DOMAIN ary, c \in Char : ary[s][c] \in DOMAIN ary \cup {FAIL}
           /\ \A s, t \in DOMAIN ary : name[s] = name[t] => s = t
           /\ \A s \in DOMAIN ary, c \in Char, t \in DOMAIN ary \ {0} :
                 ary[s][c] = t <=> name[t] = Append(name[s], c)
           /\ \A t \in DOMAIN ary \ {0} :
                 \E s \in DOMAIN ary, c \in Char : name[t] = Append(name[s], c)
<1> DEFINE D == DOMAIN ary
<1>1. PICK n \in Nat : D = 0..n
  BY DEF Tree, TreeOver
<1>2. 0 \in D /\ \A s \in D : s \in Nat /\ s # FAIL
  BY <1>1 DEF FAIL
<1>3. \A s \in D : name[s] \in Text /\ Len(name[s]) \in Nat
  BY DEF Tree, TreeOver, Text
<1>4. \A s \in D, c \in Char : ary[s][c] \in D \cup {FAIL}
  BY DEF Tree, TreeOver
<1> QED
  BY <1>1, <1>2, <1>3, <1>4 DEF Tree, TreeOver

LEMMA TreeEdge ==
    ASSUME NEW ary, NEW name, Tree(ary, name), NEW s \in DOMAIN ary, NEW c \in Char,
           NEW t \in DOMAIN ary, t # 0
    PROVE  ary[s][c] = t <=> name[t] = Append(name[s], c)
<1>1. \A r \in DOMAIN ary, d \in Char, q \in DOMAIN ary \ {0} :
         ary[r][d] = q <=> name[q] = Append(name[r], d)
  BY DEF Tree, TreeOver
<1>2. t \in DOMAIN ary \ {0}
  OBVIOUS
<1> QED
  BY <1>1, <1>2, Zenon

LEMMA FollowReached ==
    ASSUME NEW at, NEW g, NEW name, NEW u \in Text, NEW c \in Char, Reached(at, g, name, u)
    PROVE  Reached(Follow(at, c), g, name, Append(u, c))
<1>1. PICK named :
        /\ IsAutomaton(at.g) /\ Tree(at.g.ary, named) /\ Growing(at.g.ary)
        /\ at.g.output = g.output
        /\ at.state \in DOMAIN at.g.ary /\ named[at.state] = u
        /\ \A t \in DOMAIN g.ary : t \in DOMAIN at.g.ary /\ named[t] = name[t]
        /\ Named(at.g.ary, named) = Named(g.ary, name) \cup Prefixes(u)
        /\ \/ DOMAIN at.g.ary = DOMAIN g.ary
           \/ DOMAIN at.g.ary = 0..at.state /\ at.state \notin DOMAIN g.ary
  BY DEF Reached
<1> DEFINE v == Append(u, c)
           to == Follow(at, c)
           D == DOMAIN at.g.ary
<1>2. Prefixes(v) = Prefixes(u) \cup {v}
  BY PrefixesAppend
<1>3. CASE at.g.ary[at.state][c] # FAIL
  <2> DEFINE t == at.g.ary[at.state][c]
  <2>1. to.g = at.g /\ to.state = t
    <3>1. to = [at EXCEPT !.state = at.g.ary[at.state][c]]
      BY <1>3 DEF Follow
    <3> QED
      BY <3>1
  <2>2. t \in D /\ t > at.state /\ t # 0
    BY <1>1, <1>3, TreeFacts DEF Growing
  <2>3. named[t] = v
    <3>1. t \in D \ {0} /\ at.state \in D
      BY <1>1, <2>2
    <3>2. named[at.state] = u /\ Tree(at.g.ary, named)
      BY <1>1
    <3>3. t = at.g.ary[at.state][c]
      OBVIOUS
    <3> HIDE DEF t
    <3>4. named[t] = Append(named[at.state], c)
      BY <3>1, <3>2, <3>3, TreeEdge
    <3> QED
      BY <3>2, <3>4
  <2>4. DOMAIN at.g.ary = DOMAIN g.ary
    BY <1>1, <2>2, TreeFacts
  <2>5. Named(at.g.ary, named) = Named(g.ary, name) \cup Prefixes(v)
    <3>1. v \in Named(at.g.ary, named)
      BY <2>2, <2>3 DEF Named
    <3> QED
      BY <1>1, <1>2, <3>1
  <2> HIDE DEF to, v, t
  <2> QED
    BY <1>1, <2>1, <2>2, <2>3, <2>4, <2>5 DEF Reached, to, v
<1>4. CASE at.g.ary[at.state][c] = FAIL
  <2> DEFINE new == Cardinality(D)
             h == add_state(at.g, at.state, c)
  <2>1. to.g = h /\ to.state = new
    BY <1>4 DEF Follow
  <2>2. PICK longer :
        /\ IsAutomaton(h) /\ Tree(h.ary, longer) /\ Growing(h.ary)
        /\ h.output = at.g.output
        /\ new \notin D
        /\ DOMAIN h.ary = D \cup {new}
        /\ DOMAIN h.ary = 0..new
        /\ longer[new] = Append(named[at.state], c)
        /\ \A t \in D : longer[t] = named[t]
    BY <1>1, <1>4, AddState
  <2>3. longer[new] = v /\ \A t \in D : longer[t] = named[t]
    BY <1>1, <2>2
  <2> HIDE DEF h, new, to, D, v
  <2>4. Named(h.ary, longer) = Named(at.g.ary, named) \cup {v}
    BY <2>2, <2>3 DEF Named, D
  <2>5. Named(h.ary, longer) = Named(g.ary, name) \cup Prefixes(v)
    BY <1>1, <1>2, <2>4
  <2>6. \A t \in DOMAIN g.ary : t \in DOMAIN h.ary /\ longer[t] = name[t]
    BY <1>1, <2>2, <2>3 DEF D
  <2>7. new \in DOMAIN h.ary /\ new \notin DOMAIN g.ary
    BY <1>1, <2>2 DEF D
  <2>8. Reached(to, g, name, v)
    <3>1. /\ IsAutomaton(to.g) /\ Tree(to.g.ary, longer) /\ Growing(to.g.ary)
          /\ to.g.output = g.output
          /\ to.state \in DOMAIN to.g.ary /\ longer[to.state] = v
          /\ \A t \in DOMAIN g.ary : t \in DOMAIN to.g.ary /\ longer[t] = name[t]
      BY <1>1, <2>1, <2>2, <2>3, <2>6, <2>7
    <3>2. DOMAIN to.g.ary = 0..to.state /\ to.state \notin DOMAIN g.ary
      BY <2>1, <2>2, <2>7
    <3>3. Named(to.g.ary, longer) = Named(g.ary, name) \cup Prefixes(v)
      BY <2>1, <2>5
    <3> QED
      BY <3>1, <3>2, <3>3 DEF Reached
  <2> QED
    BY <2>8 DEF to, v
<1> QED
  BY <1>3, <1>4

LEMMA NothingReached ==
    ASSUME NEW g, NEW name, IsAutomaton(g), Tree(g.ary, name), Growing(g.ary)
    PROVE  Reached([g |-> g, state |-> 0], g, name, <<>>)
<1> DEFINE at == [g |-> g, state |-> 0]
<1>1. at.g = g /\ at.state = 0
  OBVIOUS
<1>2. 0 \in DOMAIN g.ary /\ name[0] = <<>>
  BY TreeFacts
<1>3. <<>> \in Named(g.ary, name)
  BY <1>2 DEF Named
<1>4. Named(g.ary, name) = Named(g.ary, name) \cup Prefixes(<<>>)
  BY <1>3, PrefixesOfNothing
<1> HIDE DEF at
<1> QED
  BY <1>1, <1>2, <1>4 DEF Reached, at

\* What the definition of enter computes: at[i] is where i characters lead.
LEMMA EnterSteps ==
    ASSUME NEW g, NEW keyword \in Text
    PROVE  \E at : /\ at = [i \in 0..Len(keyword) |->
                               IF i = 0 THEN [g |-> g, state |-> 0]
                               ELSE Follow(at[i - 1], keyword[i])]
                   /\ enter(g, keyword)
                        = set_output_length(at[Len(keyword)].g, at[Len(keyword)].state,
                                            NodesOnPath(keyword))
<1> DEFINE n == Len(keyword)
           Step(f, i) == IF i = 0 THEN [g |-> g, state |-> 0] ELSE Follow(f[i - 1], keyword[i])
           Solved(m) == \E f : f = [i \in 0..m |-> Step(f, i)]
           at == CHOOSE f : f = [i \in 0..Len(keyword) |->
                                   IF i = 0 THEN [g |-> g, state |-> 0]
                                   ELSE Follow(f[i - 1], keyword[i])]
<1>1. n \in Nat
  BY DEF Text
<1>2. enter(g, keyword) = set_output_length(at[n].g, at[n].state, NodesOnPath(keyword))
  BY DEF enter
<1>3. \A m \in Nat : Solved(m)
  <2> DEFINE Unsolved == {m \in Nat : ~Solved(m)}
  <2> SUFFICES ASSUME Unsolved # {} PROVE FALSE
    OBVIOUS
  <2>1. PICK m \in Unsolved : \A k \in Unsolved : m <= k
    <3>1. Unsolved \in SUBSET Nat
      OBVIOUS
    <3> HIDE DEF Unsolved
    <3> QED
      BY <3>1, LeastNumber
  <2>2. m \in Nat /\ ~Solved(m)
    OBVIOUS
  <2>3. CASE m = 0
    <3> DEFINE f == [i \in 0..0 |-> [g |-> g, state |-> 0]]
    <3>1. f = [i \in 0..0 |-> Step(f, i)]
      OBVIOUS
    <3> HIDE DEF f, Step
    <3> QED
      BY <2>2, <2>3, <3>1
  <2>4. CASE m # 0
    <3>1. m - 1 \in Nat /\ m - 1 \notin Unsolved
      <4> HIDE DEF Unsolved
      <4> QED
        BY <2>1, <2>2, <2>4
    <3>2. PICK h : h = [i \in 0..(m - 1) |-> Step(h, i)]
      BY <3>1
    <3> DEFINE f == [i \in 0..m |-> IF i = m THEN Step(h, i) ELSE h[i]]
    <3>3. ASSUME NEW i \in 0..m PROVE f[i] = Step(f, i)
      <4>1. i # 0 => i - 1 \in 0..m /\ i - 1 # m /\ i - 1 \in 0..(m - 1)
        BY <2>2
      <4>2. i # 0 => f[i - 1] = h[i - 1]
        BY <4>1
      <4>3. Step(f, i) = Step(h, i)
        BY <4>2
      <4>4. CASE i = m
        BY <4>3, <4>4
      <4>5. CASE i # m
        <5>1. i \in 0..(m - 1)
          BY <2>2, <4>5
        <5>2. h[i] = Step(h, i)
          <6> HIDE DEF Step
          <6> QED
            BY <3>2, <5>1
        <5> QED
          BY <4>3, <4>5, <5>2
      <4> QED
        BY <4>4, <4>5
    <3>4. f = [i \in 0..m |-> f[i]]
      OBVIOUS
    <3> HIDE DEF f, Step
    <3>5. f = [i \in 0..m |-> Step(f, i)]
      BY <3>3, <3>4
    <3> QED
      BY <2>2, <3>5
  <2> QED
    BY <2>3, <2>4
<1>4. PICK f : f = [i \in 0..n |-> Step(f, i)]
  BY <1>1, <1>3
<1>5. at = [i \in 0..n |-> Step(at, i)]
  BY <1>4
<1> HIDE DEF at
<1> QED
  BY <1>2, <1>5

LEMMA EnterReached ==
    ASSUME NEW g, NEW name, IsAutomaton(g), Tree(g.ary, name), Growing(g.ary),
           NEW keyword \in Text
    PROVE  \E to : /\ Reached(to, g, name, keyword)
                   /\ enter(g, keyword) = set_output_length(to.g, to.state, NodesOnPath(keyword))
<1> DEFINE n == Len(keyword)
           Upto(i) == SubSeq(keyword, 1, i)
<1>1. PICK at : /\ at = [i \in 0..n |-> IF i = 0 THEN [g |-> g, state |-> 0]
                                        ELSE Follow(at[i - 1], keyword[i])]
                /\ enter(g, keyword)
                     = set_output_length(at[n].g, at[n].state, NodesOnPath(keyword))
  BY EnterSteps
<1>2. n \in Nat
  BY DEF Text
<1>3. /\ at[0] = [g |-> g, state |-> 0]
      /\ \A i \in 1..n : at[i] = Follow(at[i - 1], keyword[i])
  BY <1>1, <1>2
<1>4. /\ Upto(0) = <<>> /\ Upto(n) = keyword
      /\ \A i \in 1..n : /\ Upto(i - 1) \in Text /\ keyword[i] \in Char
                         /\ Upto(i) = Append(Upto(i - 1), keyword[i])
  BY <1>2 DEF Text
<1> HIDE DEF n, Upto
<1> DEFINE Missed == {i \in 0..n : ~Reached(at[i], g, name, Upto(i))}
<1>5. Missed = {}
  <2> SUFFICES ASSUME Missed # {} PROVE FALSE
    OBVIOUS
  <2>1. PICK m \in Missed : \A k \in Missed : m <= k
    <3>1. Missed \in SUBSET Nat
      BY <1>2
    <3> HIDE DEF Missed
    <3> QED
      BY <3>1, LeastNumber
  <2>2. m \in 0..n /\ ~Reached(at[m], g, name, Upto(m))
    OBVIOUS
  <2>3. m # 0
    BY <1>3, <1>4, <2>2, NothingReached
  <2>4. m \in 1..n /\ m - 1 \in 0..n /\ m - 1 < m
    BY <1>2, <2>2, <2>3
  <2>5. m - 1 \notin Missed
    <3> HIDE DEF Missed
    <3> QED
      BY <2>1, <2>4
  <2>6. Reached(at[m - 1], g, name, Upto(m - 1))
    BY <2>4, <2>5
  <2>7. Reached(at[m], g, name, Upto(m))
    BY <1>3, <1>4, <2>4, <2>6, FollowReached
  <2> QED
    BY <2>2, <2>7
<1>6. Reached(at[n], g, name, keyword)
  <2>1. n \in 0..n
    BY <1>2
  <2> QED
    BY <1>4, <1>5, <2>1
<1> QED
  BY <1>1, <1>6 DEF n

(* ------------------------------------------------------------------------ *)
(* the matches that a state counts                                            *)

\* How often x is in the list q.
Count(q, x) == Cardinality({i \in DOMAIN q : q[i] = x})

LEMMA SameSize ==
    ASSUME NEW S, NEW T, IsFiniteSet(S), NEW f \in [S -> T],
           \A a, b \in S : f[a] = f[b] => a = b, \A t \in T : \E a \in S : f[a] = t
    PROVE  IsFiniteSet(T) /\ Cardinality(T) = Cardinality(S)
<1>1. f \in Injection(S, T) /\ f \in Surjection(S, T)
  BY DEF Injection, Surjection, IsInjective
<1>2. ExistsBijection(S, T)
  BY <1>1 DEF ExistsBijection, Bijection
<1> QED
  BY <1>2, FS_Bijection

LEMMA CountedPlaces ==
    ASSUME NEW q \in Seq(Nat), NEW x
    PROVE  /\ IsFiniteSet({i \in DOMAIN q : q[i] = x})
           /\ Count(q, x) \in Nat
<1>1. IsFiniteSet(1..Len(q)) /\ DOMAIN q = 1..Len(q)
  BY FS_Interval
<1>2. {i \in DOMAIN q : q[i] = x} \in SUBSET (1..Len(q))
  BY <1>1
<1> QED
  BY <1>1, <1>2, FS_Subset, FS_CardinalityType DEF Count

LEMMA CountConcat ==
    ASSUME NEW q \in Seq(Nat), NEW r \in Seq(Nat), NEW x
    PROVE  Count(q \o r, x) = Count(q, x) + Count(r, x)
<1> DEFINE p == q \o r
           A == {i \in DOMAIN q : q[i] = x}
           B == {i \in DOMAIN r : r[i] = x}
           C == {i \in DOMAIN p : p[i] = x /\ i > Len(q)}
           P == {i \in DOMAIN p : p[i] = x}
<1>1. /\ Len(q) \in Nat /\ Len(r) \in Nat
      /\ DOMAIN q = 1..Len(q) /\ DOMAIN r = 1..Len(r)
      /\ p \in Seq(Nat) /\ DOMAIN p = 1..(Len(q) + Len(r))
      /\ \A i \in 1..Len(q) : p[i] = q[i]
      /\ \A i \in 1..Len(r) : p[Len(q) + i] = r[i]
  OBVIOUS
<1>2. IsFiniteSet(A) /\ IsFiniteSet(B) /\ Count(q, x) = Cardinality(A)
      /\ Count(r, x) = Cardinality(B) /\ Cardinality(A) \in Nat /\ Cardinality(B) \in Nat
  BY CountedPlaces DEF Count
<1>3. IsFiniteSet(C) /\ Cardinality(C) = Cardinality(B)
  <2> DEFINE f == [i \in B |-> Len(q) + i]
  <2>1. f \in [B -> C]
    <3> SUFFICES ASSUME NEW i \in B PROVE Len(q) + i \in C
      OBVIOUS
    <3>1. i \in 1..Len(r) /\ r[i] = x
      BY <1>1
    <3>2. Len(q) + i \in 1..(Len(q) + Len(r)) /\ Len(q) + i > Len(q)
      BY <1>1, <3>1
    <3> QED
      BY <1>1, <3>1, <3>2
  <2>2. \A a, b \in B : f[a] = f[b] => a = b
    <3> SUFFICES ASSUME NEW a \in B, NEW b \in B, Len(q) + a = Len(q) + b PROVE a = b
      OBVIOUS
    <3>1. a \in Nat /\ b \in Nat
      BY <1>1
    <3> QED
      BY <1>1, <3>1
  <2>3. \A t \in C : \E a \in B : f[a] = t
    <3> SUFFICES ASSUME NEW t \in C PROVE \E a \in B : Len(q) + a = t
      OBVIOUS
    <3>1. t \in 1..(Len(q) + Len(r)) /\ t > Len(q) /\ p[t] = x
      BY <1>1
    <3>2. t - Len(q) \in 1..Len(r) /\ Len(q) + (t - Len(q)) = t
      BY <1>1, <3>1
    <3>3. r[t - Len(q)] = x
      BY <1>1, <3>1, <3>2
    <3>4. t - Len(q) \in B
      BY <1>1, <3>2, <3>3
    <3> QED
      BY <3>2, <3>4
  <2> HIDE DEF f, B, C
  <2> QED
    BY <1>2, <2>1, <2>2, <2>3, SameSize
<1>4. P = A \cup C /\ A \cap C = {}
  <2>1. \A i \in DOMAIN p : i \in 1..Len(q) \/ i > Len(q)
    BY <1>1
  <2>2. \A i \in 1..Len(q) : i \in DOMAIN p /\ ~(i > Len(q)) /\ p[i] = q[i]
    BY <1>1
  <2> HIDE DEF p
  <2> QED
    BY <1>1, <2>1, <2>2
<1>5. Count(p, x) = Cardinality(P)
  BY DEF Count
<1> HIDE DEF A, B, C, P, p
<1>6. Cardinality(P) = Cardinality(A) + Cardinality(C) - Cardinality({})
  BY <1>2, <1>3, <1>4, FS_Union
<1> QED
  BY <1>2, <1>3, <1>5, <1>6, FS_EmptySet DEF p

LEMMA CountFew ==
    ASSUME NEW n \in Nat, NEW x
    PROVE  Count(<<>>, x) = 0 /\ Count(<<n>>, x) = IF n = x THEN 1 ELSE 0
<1>1. {i \in DOMAIN <<>> : <<>>[i] = x} = {}
  OBVIOUS
<1>2. {i \in DOMAIN <<n>> : <<n>>[i] = x} = IF n = x THEN {1} ELSE {}
  OBVIOUS
<1> QED
  BY <1>1, <1>2, FS_EmptySet, FS_Singleton DEF Count

LEMMA NodesOnPathType ==
    ASSUME NEW keyword \in Text
    PROVE  NodesOnPath(keyword) \in Nat
<1> DEFINE S == {i \in DOMAIN keyword :
                    /\ keyword[i] \notin {"1", "2"}
                    /\ \A j \in 1..i-1 : keyword[j] \in {"@", "1", "2"}}
<1>1. Len(keyword) \in Nat /\ DOMAIN keyword = 1..Len(keyword)
  BY DEF Text
<1>2. IsFiniteSet(1..Len(keyword)) /\ S \in SUBSET (1..Len(keyword))
  BY <1>1, FS_Interval
<1>3. NodesOnPath(keyword) = Cardinality(S)
  BY DEF NodesOnPath
<1> HIDE DEF S
<1> QED
  BY <1>2, <1>3, FS_Subset, FS_CardinalityType

\* Which of the first m keywords are this text, or end it, and visit x nodes.
Same(K, m, text, x) == {i \in 1..m : K[i] = text /\ NodesOnPath(K[i]) = x}
Ending(K, m, text, x) == {i \in 1..m : Ends(K[i], text) /\ NodesOnPath(K[i]) = x}

LEMMA SameIsFinite ==
    ASSUME NEW K, NEW m \in Nat, NEW text, NEW x
    PROVE  /\ IsFiniteSet(Same(K, m, text, x)) /\ Cardinality(Same(K, m, text, x)) \in Nat
           /\ IsFiniteSet(Ending(K, m, text, x)) /\ Cardinality(Ending(K, m, text, x)) \in Nat
<1>1. IsFiniteSet(1..m)
  BY FS_Interval
<1>2. Same(K, m, text, x) \in SUBSET (1..m) /\ Ending(K, m, text, x) \in SUBSET (1..m)
  BY DEF Same, Ending
<1> QED
  BY <1>1, <1>2, FS_Subset, FS_CardinalityType

\* One keyword more.
LEMMA SameNext ==
    ASSUME NEW K, NEW m \in Nat, NEW text, NEW x
    PROVE  Cardinality(Same(K, m + 1, text, x))
             = Cardinality(Same(K, m, text, x))
                 + IF K[m + 1] = text /\ NodesOnPath(K[m + 1]) = x THEN 1 ELSE 0
<1> DEFINE S == Same(K, m, text, x)
           T == Same(K, m + 1, text, x)
<1>1. 1..(m + 1) = 1..m \cup {m + 1} /\ m + 1 \notin 1..m
  OBVIOUS
<1>2. m + 1 \notin S
  BY <1>1 DEF Same
<1>3. T = IF K[m + 1] = text /\ NodesOnPath(K[m + 1]) = x THEN S \cup {m + 1} ELSE S
  BY <1>1 DEF Same
<1>4. IsFiniteSet(S) /\ Cardinality(S) \in Nat
  BY SameIsFinite
<1> HIDE DEF S, T
<1>5. Cardinality(T) = Cardinality(S)
                 + IF K[m + 1] = text /\ NodesOnPath(K[m + 1]) = x THEN 1 ELSE 0
  BY <1>2, <1>3, <1>4, FS_AddElement, SMTT(30)
<1> QED
  BY <1>5 DEF S, T

(* ------------------------------------------------------------------------ *)
(* construct_goto                                                             *)

\* The texts that start one of the first m keywords.
Known(K, m) == (UNION {Prefixes(K[i]) : i \in 1..m}) \cup {<<>>}

\* g is the tree of the first m keywords, and its states count them.
EnteredAs(g, name, K, m) ==
    /\ IsAutomaton(g) /\ Tree(g.ary, name) /\ Growing(g.ary)
    /\ g.output \in [DOMAIN g.ary -> Seq(Nat)]
    /\ Named(g.ary, name) = Known(K, m)
    /\ \A s \in DOMAIN g.ary : \A x :
          Count(g.output[s], x) = Cardinality(Same(K, m, name[s], x))

Entered(g, K, m) == \E name : EnteredAs(g, name, K, m)

LEMMA NothingEntered ==
    ASSUME NEW K
    PROVE  Entered(init_goto, K, 0)
<1> DEFINE g == init_goto
           name == [s \in {0} |-> <<>>]
<1>1. /\ g.ary = [s \in {0} |-> BlankRow] /\ g.output = [s \in {0} |-> <<>>]
      /\ IsAutomaton(g)
  BY DEF init_goto, IsAutomaton
<1> HIDE DEF g
<1>2. DOMAIN g.ary = {0} /\ g.ary[0] = BlankRow /\ g.output[0] = <<>> /\ {0} = 0..0
  BY <1>1
<1>3. \A c \in Char : g.ary[0][c] = FAIL
  BY <1>2 DEF BlankRow
<1>4. Tree(g.ary, name)
  <2>1. g.ary \in [{0} -> [Char -> {0} \cup {FAIL}]]
    BY <1>1 DEF BlankRow
  <2>2. name \in [{0} -> Text] /\ name[0] = <<>>
    BY EndsBasic DEF Text
  <2>3. TreeOver({0}, g.ary, name)
    BY <1>2, <2>1, <2>2 DEF TreeOver
  <2> QED
    BY <1>2, <2>3 DEF Tree
<1>5. Growing(g.ary)
  BY <1>2, <1>3 DEF Growing
<1>6. g.output \in [DOMAIN g.ary -> Seq(Nat)]
  BY <1>1
<1>7. Named(g.ary, name) = Known(K, 0)
  <2>1. Named(g.ary, name) = {<<>>}
    BY <1>2 DEF Named
  <2>2. 1..0 = {}
    OBVIOUS
  <2> QED
    BY <2>1, <2>2 DEF Known
<1>8. ASSUME NEW s \in DOMAIN g.ary, NEW x
      PROVE  Count(g.output[s], x) = Cardinality(Same(K, 0, name[s], x))
  <2>1. Same(K, 0, name[s], x) = {}
    BY DEF Same
  <2> QED
    BY <1>2, <2>1, CountFew, FS_EmptySet
<1> HIDE DEF name
<1>9. EnteredAs(g, name, K, 0)
  BY <1>1, <1>4, <1>5, <1>6, <1>7, <1>8 DEF EnteredAs
<1> QED
  BY <1>9 DEF Entered, g

LEMMA MaxIs ==
    ASSUME NEW S \in SUBSET Nat, NEW m \in S, \A k \in S : k <= m
    PROVE  Max(S) = m
<1>1. \A y \in S : m >= y
  OBVIOUS
<1>2. \A x \in S : (\A y \in S : x >= y) => x = m
  OBVIOUS
<1> QED
  BY <1>1, <1>2 DEF Max

\* The outputs so far of a state, which may not have any yet; and one match
\* more.  (The provers prefer names to the expressions.)
Prior(g, t) == IF t \in DOMAIN g.output THEN g.output[t] ELSE <<>>
OneMatch(t, s, n) == IF t = s THEN <<n>> ELSE <<>>
Both(q, r) == q \o r

IsFunction(f) == f = [t \in DOMAIN f |-> f[t]]

\* One match more at state s, which may be new.
LEMMA SetOutputLength ==
    ASSUME NEW g, IsAutomaton(g), NEW s, NEW n
    PROVE  /\ IsAutomaton(set_output_length(g, s, n))
           /\ set_output_length(g, s, n).ary = g.ary
           /\ DOMAIN set_output_length(g, s, n).output = 0..Max({s} \cup DOMAIN g.output)
           /\ IsFunction(set_output_length(g, s, n).output)
<1> DEFINE h == set_output_length(g, s, n)
           S == {s} \cup DOMAIN g.output
           outputs == [t \in 0..Max(S) |-> (IF t \in DOMAIN g.output THEN g.output[t] ELSE <<>>)
                                             \o (IF t = s THEN <<n>> ELSE <<>>)]
           most == Max({g.max_node_count, n})
<1>1. h = [g EXCEPT !.output = outputs, !.max_node_count = most]
  BY DEF set_output_length
<1>2. /\ DOMAIN outputs = 0..Max(S)
      /\ IsFunction(outputs)
  BY DEF IsFunction
<1> HIDE DEF h, outputs, most
<1>3. h = [ary |-> g.ary, output |-> outputs, max_node_count |-> most,
           failure |-> g.failure, delta |-> g.delta]
  BY <1>1 DEF IsAutomaton
<1>4. IsAutomaton(h) /\ h.ary = g.ary /\ h.output = outputs
  BY <1>3 DEF IsAutomaton
<1>5. /\ DOMAIN h.output = 0..Max(S)
      /\ IsFunction(h.output)
  BY <1>2, <1>4
<1> QED
  BY <1>4, <1>5 DEF h

LEMMA SetOutputAt ==
    ASSUME NEW g, IsAutomaton(g), NEW s, NEW n, NEW t \in DOMAIN set_output_length(g, s, n).output
    PROVE  set_output_length(g, s, n).output[t] = Both(Prior(g, t), OneMatch(t, s, n))
<1> DEFINE h == set_output_length(g, s, n)
           S == {s} \cup DOMAIN g.output
           outputs == [r \in 0..Max(S) |-> (IF r \in DOMAIN g.output THEN g.output[r] ELSE <<>>)
                                             \o (IF r = s THEN <<n>> ELSE <<>>)]
           most == Max({g.max_node_count, n})
<1>1. h = [g EXCEPT !.output = outputs, !.max_node_count = most]
  BY DEF set_output_length
<1>2. /\ DOMAIN outputs = 0..Max(S)
      /\ \A r \in DOMAIN outputs : outputs[r] = Both(Prior(g, r), OneMatch(r, s, n))
  BY DEF Prior, OneMatch, Both
<1> HIDE DEF h, outputs, most
<1>3. h = [ary |-> g.ary, output |-> outputs, max_node_count |-> most,
           failure |-> g.failure, delta |-> g.delta]
  BY <1>1 DEF IsAutomaton
<1>4. IsAutomaton(h) /\ h.ary = g.ary /\ h.output = outputs
  BY <1>3 DEF IsAutomaton
<1>5. \A r \in DOMAIN h.output : h.output[r] = Both(Prior(g, r), OneMatch(r, s, n))
  BY <1>2, <1>4
<1> QED
  BY <1>5 DEF h

LEMMA EnterKeywordEntered ==
    ASSUME NEW K \in Seq(Text), NEW m \in Nat, m < Len(K), NEW g, Entered(g, K, m)
    PROVE  Entered(enter(g, K[m + 1]), K, m + 1)
<1> DEFINE keyword == K[m + 1]
           D == DOMAIN g.ary
<1>1. Len(K) \in Nat /\ keyword \in Text /\ \A i \in 1..(m + 1) : K[i] \in Text
  OBVIOUS
<1>2. PICK name : EnteredAs(g, name, K, m)
  BY DEF Entered
<1>3. /\ IsAutomaton(g) /\ Tree(g.ary, name) /\ Growing(g.ary)
      /\ g.output \in [D -> Seq(Nat)]
      /\ Named(g.ary, name) = Known(K, m)
      /\ \A s \in D : \A x : Count(g.output[s], x) = Cardinality(Same(K, m, name[s], x))
  BY <1>2 DEF EnteredAs
<1> HIDE DEF D, keyword
<1>4. PICK to : /\ Reached(to, g, name, keyword)
                /\ enter(g, keyword) = set_output_length(to.g, to.state, NodesOnPath(keyword))
  BY <1>1, <1>3, EnterReached
<1>5. PICK named :
        /\ IsAutomaton(to.g) /\ Tree(to.g.ary, named) /\ Growing(to.g.ary)
        /\ to.g.output = g.output
        /\ to.state \in DOMAIN to.g.ary /\ named[to.state] = keyword
        /\ \A t \in DOMAIN g.ary : t \in DOMAIN to.g.ary /\ named[t] = name[t]
        /\ Named(to.g.ary, named) = Named(g.ary, name) \cup Prefixes(keyword)
        /\ \/ DOMAIN to.g.ary = DOMAIN g.ary
           \/ DOMAIN to.g.ary = 0..to.state /\ to.state \notin DOMAIN g.ary
  BY <1>4 DEF Reached
<1> DEFINE s == to.state
           E == DOMAIN to.g.ary
           n == NodesOnPath(keyword)
           h == set_output_length(to.g, s, n)
           Old(t) == Prior(g, t)
           New(t) == OneMatch(t, s, n)
<1>6. s \in Nat /\ s \in E
  BY <1>5, TreeFacts
<1>7. PICK k \in Nat : D = 0..k
  BY <1>3, TreeFacts DEF D
<1>8. PICK l \in Nat : E = 0..l /\ ((s <= k /\ l = k) \/ (s > k /\ l = s))
  <2>1. CASE E = D
    <3>1. s <= k
      BY <1>6, <1>7, <2>1
    <3> QED
      BY <1>7, <2>1, <3>1
  <2>2. CASE E = 0..s /\ s \notin D
    <3>1. s > k
      BY <1>6, <1>7, <2>2
    <3> QED
      BY <1>6, <2>2, <3>1
  <2> QED
    BY <1>5, <2>1, <2>2 DEF D
<1>9. /\ IsAutomaton(h) /\ h.ary = to.g.ary
      /\ IsFunction(h.output)
      /\ DOMAIN h.output = E
      /\ \A t \in E : h.output[t] = Both(Old(t), New(t))
  <2>1. DOMAIN to.g.output = 0..k /\ DOMAIN to.g.output = D /\ to.g.output = g.output
    BY <1>3, <1>5, <1>7
  <2>2. IsAutomaton(to.g) /\ s \in Nat /\ E = 0..l
        /\ ((s <= k /\ l = k) \/ (s > k /\ l = s))
    BY <1>5, <1>6, <1>8
  <2> HIDE DEF s, E, n
  <2>3. Max({s} \cup D) = l
    <3> DEFINE S == {s} \cup D
    <3>1. S \in SUBSET Nat /\ l \in S /\ \A j \in S : j <= l
      BY <1>7, <2>2
    <3> HIDE DEF S
    <3>2. Max(S) = l
      BY <3>1, MaxIs
    <3> QED
      BY <3>2 DEF S
  <2>4. /\ IsAutomaton(h) /\ h.ary = to.g.ary
        /\ DOMAIN h.output = 0..Max({s} \cup DOMAIN to.g.output)
        /\ IsFunction(h.output)
    BY <2>2, SetOutputLength
  <2>7. \A t \in DOMAIN h.output : h.output[t] = Both(Prior(to.g, t), OneMatch(t, s, n))
    BY <2>2, SetOutputAt
  <2> HIDE DEF h
  <2>5. DOMAIN h.output = E
    BY <2>1, <2>2, <2>3, <2>4
  <2>6. \A t : Prior(to.g, t) = Prior(g, t)
    BY <2>1 DEF Prior
  <2> QED
    BY <2>4, <2>5, <2>6, <2>7
<1>10. n \in Nat
  BY <1>1, NodesOnPathType
<1> HIDE DEF s, E, n, h
<1>11. \A t \in E : Old(t) \in Seq(Nat) /\ New(t) \in Seq(Nat) /\ Both(Old(t), New(t)) \in Seq(Nat)
  <2> TAKE t \in E
  <2>1. Old(t) \in Seq(Nat)
    BY <1>3 DEF Prior
  <2>2. New(t) \in Seq(Nat)
    BY <1>10 DEF OneMatch
  <2> HIDE DEF Old, New
  <2> QED
    BY <2>1, <2>2 DEF Both
<1>12. h.output \in [DOMAIN h.ary -> Seq(Nat)]
  <2> HIDE DEF Old, New
  <2> QED
    BY <1>9, <1>11 DEF E, IsFunction
<1>13. Named(h.ary, named) = Known(K, m + 1)
  <2>1. 1..(m + 1) = 1..m \cup {m + 1}
    OBVIOUS
  <2>2. Known(K, m + 1) = Known(K, m) \cup Prefixes(keyword)
    BY <2>1 DEF Known, keyword
  <2> QED
    BY <1>3, <1>5, <1>9, <2>2
<1>14. ASSUME NEW t \in E, NEW x
       PROVE  Count(h.output[t], x) = Cardinality(Same(K, m + 1, named[t], x))
  <2>1. Count(h.output[t], x) = Count(Old(t), x) + Count(New(t), x)
    <3> HIDE DEF Old, New
    <3>1. h.output[t] = Both(Old(t), New(t))
      BY <1>9
    <3> QED
      BY <1>11, <3>1, CountConcat DEF Both
  <2>2. Count(Old(t), x) = Cardinality(Same(K, m, named[t], x))
    <3>1. CASE t \in D
      <4>1. Old(t) = g.output[t] /\ named[t] = name[t]
        BY <1>3, <1>5, <3>1 DEF D, Prior
      <4> QED
        BY <1>3, <3>1, <4>1
    <3>2. CASE t \notin D
      <4>1. ASSUME NEW i \in 1..m PROVE K[i] # named[t]
        <5> SUFFICES ASSUME K[i] = named[t] PROVE FALSE
          OBVIOUS
        <5>1. K[i] \in Text
          BY <1>1
        <5>2. SubSeq(K[i], 1, Len(K[i])) = K[i] /\ Len(K[i]) \in 0..Len(K[i])
          BY <5>1 DEF Text
        <5>3. K[i] \in Prefixes(K[i])
          BY <5>2 DEF Prefixes
        <5>4. K[i] \in Named(g.ary, name)
          BY <1>3, <5>3 DEF Known
        <5>5. PICK r \in D : K[i] = name[r]
          BY <5>4 DEF Named, D
        <5>6. r \in E /\ named[r] = named[t]
          BY <1>5, <5>5 DEF D, E
        <5>7. r = t
          BY <1>5, <5>6, TreeFacts DEF E
        <5> QED
          BY <3>2, <5>5, <5>7
      <4>2. Same(K, m, named[t], x) = {}
        BY <4>1 DEF Same
      <4>3. Old(t) = <<>>
        BY <1>3, <3>2 DEF Prior
      <4> QED
        BY <4>2, <4>3, CountFew, FS_EmptySet
    <3> QED
      BY <3>1, <3>2
  <2>3. Count(New(t), x) = IF K[m + 1] = named[t] /\ NodesOnPath(K[m + 1]) = x THEN 1 ELSE 0
    <3>1. K[m + 1] = named[t] <=> t = s
      BY <1>5, <1>6, TreeFacts DEF keyword, E, s
    <3> QED
      BY <1>10, <3>1, CountFew DEF n, keyword, OneMatch
  <2> HIDE DEF Old, New
  <2> QED
    BY <2>1, <2>2, <2>3, SameNext
<1>15. EnteredAs(h, named, K, m + 1)
  BY <1>5, <1>9, <1>12, <1>13, <1>14 DEF EnteredAs, E
<1> QED
  BY <1>4, <1>15 DEF Entered, h, keyword, s, n

LEMMA TreeChild ==
    ASSUME NEW ary, NEW name, Tree(ary, name), NEW s \in DOMAIN ary, NEW c \in Char,
           ary[s][c] \notin {0, FAIL}
    PROVE  /\ ary[s][c] \in DOMAIN ary /\ ary[s][c] # 0
           /\ name[ary[s][c]] = Append(name[s], c)
           /\ Len(name[ary[s][c]]) = Len(name[s]) + 1
<1> DEFINE t == ary[s][c]
<1>1. t \in DOMAIN ary /\ t # 0
  BY TreeFacts
<1>2. name[t] = Append(name[s], c)
  <2>1. t = ary[s][c]
    OBVIOUS
  <2> HIDE DEF t
  <2> QED
    BY <1>1, <2>1, TreeEdge
<1>3. name[s] \in Text
  BY TreeFacts
<1> HIDE DEF t
<1> QED
  BY <1>1, <1>2, <1>3, EndsAppend DEF t

LEMMA TreeParent ==
    ASSUME NEW ary, NEW name, Tree(ary, name), NEW t \in DOMAIN ary, t # 0
    PROVE  \E s \in DOMAIN ary, c \in Char :
              /\ ary[s][c] = t
              /\ name[t] = Append(name[s], c)
              /\ Len(name[t]) = Len(name[s]) + 1
<1>1. PICK s \in DOMAIN ary, c \in Char : name[t] = Append(name[s], c)
  BY DEF Tree, TreeOver
<1>2. ary[s][c] = t
  BY <1>1, TreeEdge
<1>3. name[s] \in Text
  BY TreeFacts
<1> QED
  BY <1>1, <1>2, <1>3, EndsAppend

\* Only one state, on one character, leads to another.
LEMMA OneParent ==
    ASSUME NEW ary, NEW name, Tree(ary, name),
           NEW r \in DOMAIN ary, NEW s \in DOMAIN ary, NEW c \in Char, NEW d \in Char,
           ary[r][c] = ary[s][d], ary[s][d] \notin {0, FAIL}
    PROVE  r = s /\ c = d
<1>1. Append(name[r], c) = Append(name[s], d)
  BY TreeChild, SMTT(30)
<1>2. name[r] \in Text /\ name[s] \in Text
  BY TreeFacts
<1>3. name[r] = name[s] /\ c = d
  BY <1>1, <1>2, AppendSame
<1> QED
  BY <1>3, TreeFacts

(* ------------------------------------------------------------------------ *)
(* the states that a walk enqueues                                            *)

Children(ary, r) == {ary[r][c] : c \in Char} \ {0, FAIL}

NoRepetition(q) == \A i, j \in 1..Len(q) : q[i] = q[j] => i = j

LEMMA CharsFacts ==
    /\ Len(Chars) \in Nat
    /\ Char = {Chars[i] : i \in 1..Len(Chars)}
    /\ \A i \in 1..Len(Chars) : Chars[i] \in Char
    /\ \A i, j \in 1..Len(Chars) : Chars[i] = Chars[j] => i = j
<1>1. Chars \in Seq(Char) /\ IsInjective(Chars)
  BY CharsAssumption
<1>2. Len(Chars) \in Nat /\ DOMAIN Chars = 1..Len(Chars)
  BY <1>1
<1>3. Char = {Chars[i] : i \in 1..Len(Chars)}
  BY <1>2 DEF Char, ToSet
<1>4. \A i, j \in 1..Len(Chars) : Chars[i] = Chars[j] => i = j
  BY <1>1, <1>2 DEF IsInjective
<1> QED
  BY <1>2, <1>3, <1>4

\* The queue after one state more.
AmongNext(g, r, q, c) ==
    LET s == g.ary[r][c] IN IF s \in {0, FAIL} THEN q ELSE Append(q, s)

\* What the definition of Successors computes.
LEMMA SuccessorsSteps ==
    ASSUME NEW g, NEW r
    PROVE  \E among : /\ among[0] = <<>>
                      /\ \A i \in 1..Len(Chars) : among[i] = AmongNext(g, r, among[i - 1], Chars[i])
                      /\ Successors(g, r) = among[Len(Chars)]
<1> DEFINE n == Len(Chars)
           Step(f, i) == IF i = 0 THEN <<>>
                         ELSE LET s == g.ary[r][Chars[i]]
                              IN  IF s \in {0, FAIL} THEN f[i - 1] ELSE Append(f[i - 1], s)
           Solved(m) == \E f : f = [i \in 0..m |-> Step(f, i)]
           among == CHOOSE f : f = [i \in 0..Len(Chars) |->
                       IF i = 0 THEN <<>>
                       ELSE LET s == g.ary[r][Chars[i]]
                            IN  IF s \in {0, FAIL} THEN f[i - 1] ELSE Append(f[i - 1], s)]
<1>1. n \in Nat
  BY CharsFacts
<1>2. Successors(g, r) = among[n]
  BY DEF Successors
<1>3. \A m \in Nat : Solved(m)
  <2> DEFINE Unsolved == {m \in Nat : ~Solved(m)}
  <2> SUFFICES ASSUME Unsolved # {} PROVE FALSE
    OBVIOUS
  <2>1. PICK m \in Unsolved : \A k \in Unsolved : m <= k
    <3>1. Unsolved \in SUBSET Nat
      OBVIOUS
    <3> HIDE DEF Unsolved
    <3> QED
      BY <3>1, LeastNumber
  <2>2. m \in Nat /\ ~Solved(m)
    OBVIOUS
  <2>3. CASE m = 0
    <3> DEFINE f == [i \in 0..0 |-> <<>>]
    <3>1. f = [i \in 0..0 |-> Step(f, i)]
      OBVIOUS
    <3> HIDE DEF f, Step
    <3> QED
      BY <2>2, <2>3, <3>1
  <2>4. CASE m # 0
    <3>1. m - 1 \in Nat /\ m - 1 \notin Unsolved
      <4> HIDE DEF Unsolved
      <4> QED
        BY <2>1, <2>2, <2>4
    <3>2. PICK h : h = [i \in 0..(m - 1) |-> Step(h, i)]
      BY <3>1
    <3> DEFINE f == [i \in 0..m |-> IF i = m THEN Step(h, i) ELSE h[i]]
    <3>3. ASSUME NEW i \in 0..m PROVE f[i] = Step(f, i)
      <4>1. i # 0 => i - 1 \in 0..m /\ i - 1 # m /\ i - 1 \in 0..(m - 1)
        BY <2>2
      <4>2. i # 0 => f[i - 1] = h[i - 1]
        BY <4>1
      <4>3. Step(f, i) = Step(h, i)
        BY <4>2
      <4>4. CASE i = m
        BY <4>3, <4>4
      <4>5. CASE i # m
        <5>1. i \in 0..(m - 1)
          BY <2>2, <4>5
        <5>2. h[i] = Step(h, i)
          <6> HIDE DEF Step
          <6> QED
            BY <3>2, <5>1
        <5> QED
          BY <4>3, <4>5, <5>2
      <4> QED
        BY <4>4, <4>5
    <3>4. f = [i \in 0..m |-> f[i]]
      OBVIOUS
    <3> HIDE DEF f, Step
    <3>5. f = [i \in 0..m |-> Step(f, i)]
      BY <3>3, <3>4
    <3> QED
      BY <2>2, <3>5
  <2> QED
    BY <2>3, <2>4
<1>4. PICK f : f = [i \in 0..n |-> Step(f, i)]
  BY <1>1, <1>3
<1>5. among = [i \in 0..n |-> Step(among, i)]
  BY <1>4
<1> HIDE DEF among
<1>6. among[0] = <<>>
  BY <1>1, <1>5
<1>7. \A i \in 1..n : among[i] = AmongNext(g, r, among[i - 1], Chars[i])
  <2> TAKE i \in 1..n
  <2>1. i \in 0..n /\ i # 0
    BY <1>1
  <2>2. among[i] = Step(among, i)
    <3> HIDE DEF Step
    <3> QED
      BY <1>5, <2>1
  <2> QED
    BY <2>1, <2>2 DEF AmongNext
<1> QED
  BY <1>2, <1>6, <1>7

LEMMA SuccessorsAreChildren ==
    ASSUME NEW g, NEW name, Tree(g.ary, name), NEW r \in DOMAIN g.ary
    PROVE  /\ Successors(g, r) \in Seq(DOMAIN g.ary \ {0})
           /\ NoRepetition(Successors(g, r))
           /\ ToSet(Successors(g, r)) = Children(g.ary, r)
<1> DEFINE n == Len(Chars)
           ary == g.ary
           D == DOMAIN ary
           Upto(i) == {ary[r][Chars[j]] : j \in 1..i} \ {0, FAIL}
           Good(q, i) == /\ q \in Seq(D \ {0})
                         /\ NoRepetition(q)
                         /\ ToSet(q) = Upto(i)
<1>1. PICK among : /\ among[0] = <<>>
                   /\ \A i \in 1..n : among[i] = AmongNext(g, r, among[i - 1], Chars[i])
                   /\ Successors(g, r) = among[n]
  BY SuccessorsSteps
<1>2. n \in Nat
  BY CharsFacts
<1> DEFINE Bad == {i \in 0..n : ~Good(among[i], i)}
<1>3. Bad = {}
  <2> SUFFICES ASSUME Bad # {} PROVE FALSE
    OBVIOUS
  <2>1. PICK m \in Bad : \A k \in Bad : m <= k
    <3>1. Bad \in SUBSET Nat
      BY <1>2
    <3> HIDE DEF Bad
    <3> QED
      BY <3>1, LeastNumber
  <2>2. m \in 0..n /\ ~Good(among[m], m)
    OBVIOUS
  <2>3. m # 0
    <3>1. Good(<<>>, 0)
      <4>1. <<>> \in Seq(D \ {0}) /\ NoRepetition(<<>>) /\ ToSet(<<>>) = {}
        BY DEF NoRepetition, ToSet
      <4>2. Upto(0) = {}
        OBVIOUS
      <4> QED
        BY <4>1, <4>2
    <3> HIDE DEF Good
    <3> QED
      BY <1>1, <2>2, <3>1
  <2>4. m \in 1..n /\ m - 1 \in 0..n /\ m - 1 < m
    BY <1>2, <2>2, <2>3
  <2>5. m - 1 \notin Bad
    <3> HIDE DEF Bad
    <3> QED
      BY <2>1, <2>4
  <2> DEFINE q == among[m - 1]
             s == ary[r][Chars[m]]
  <2>6. Good(q, m - 1)
    BY <2>4, <2>5
  <2>7. among[m] = IF s \in {0, FAIL} THEN q ELSE Append(q, s)
    BY <1>1, <2>4 DEF AmongNext
  <2>8. 1..m = 1..(m - 1) \cup {m}
    BY <2>4
  <2>9. Upto(m) = Upto(m - 1) \cup ({s} \ {0, FAIL})
    BY <2>8
  <2>10. CASE s \in {0, FAIL}
    <3>1. Upto(m) = Upto(m - 1)
      BY <2>9, <2>10
    <3> QED
      BY <2>2, <2>6, <2>7, <2>10, <3>1
  <2>11. CASE s \notin {0, FAIL}
    <3>1. s \in D \ {0}
      <4>1. Chars[m] \in Char
        BY <2>4, CharsFacts
      <4> QED
        BY <2>11, <4>1, TreeChild
    <3>2. s \notin ToSet(q)
      <4> SUFFICES ASSUME s \in ToSet(q) PROVE FALSE
        OBVIOUS
      <4>1. PICK j \in 1..(m - 1) : ary[r][Chars[j]] = s
        BY <2>6
      <4>2. j \in 1..n /\ j # m
        BY <1>2, <2>4
      <4>3. Chars[m] \in Char /\ Chars[j] \in Char /\ Chars[m] # Chars[j]
        BY <2>4, <4>2, CharsFacts
      <4> QED
        BY <2>11, <4>1, <4>3, OneParent
    <3> HIDE DEF s, q, Upto
    <3>3. q \in Seq(D \ {0}) /\ NoRepetition(q) /\ ToSet(q) = Upto(m - 1)
      BY <2>6
    <3> DEFINE p == Append(q, s)
    <3>4. /\ p \in Seq(D \ {0}) /\ Len(p) = Len(q) + 1 /\ Len(q) \in Nat
          /\ p[Len(q) + 1] = s /\ \A i \in 1..Len(q) : p[i] = q[i]
      BY <3>1, <3>3
    <3>5. DOMAIN p = 1..Len(q) \cup {Len(q) + 1} /\ DOMAIN q = 1..Len(q)
      BY <3>3, <3>4
    <3> HIDE DEF p
    <3>6. ToSet(p) = ToSet(q) \cup {s}
      BY <3>4, <3>5 DEF ToSet
    <3>7. NoRepetition(p)
      <4> SUFFICES ASSUME NEW i \in 1..Len(p), NEW j \in 1..Len(p), p[i] = p[j]
                   PROVE  i = j
        BY DEF NoRepetition
      <4>1. \A k \in 1..Len(q) : q[k] # s
        BY <3>2, <3>5 DEF ToSet
      <4>2. \A k \in 1..Len(p) : k \in 1..Len(q) \/ k = Len(q) + 1
        BY <3>4
      <4>3. CASE i \in 1..Len(q) /\ j \in 1..Len(q)
        BY <3>3, <3>4, <4>3 DEF NoRepetition
      <4>4. CASE ~(i \in 1..Len(q) /\ j \in 1..Len(q))
        BY <3>4, <4>1, <4>2, <4>4
      <4> QED
        BY <4>3, <4>4
    <3>8. ToSet(p) = Upto(m)
      BY <2>9, <2>11, <3>3, <3>6
    <3>9. Good(p, m)
      BY <3>4, <3>7, <3>8
    <3>10. among[m] = p
      BY <2>7, <2>11 DEF p
    <3> HIDE DEF Good
    <3> QED
      BY <2>2, <3>9, <3>10
  <2> QED
    BY <2>10, <2>11
<1>4. Good(among[n], n)
  <2>1. n \in 0..n
    BY <1>2
  <2> HIDE DEF Good
  <2> QED
    BY <1>3, <2>1
<1>5. Upto(n) = Children(ary, r)
  BY CharsFacts DEF Children
<1> QED
  BY <1>1, <1>4, <1>5

(* ------------------------------------------------------------------------ *)
(* breadth-first walks                                                        *)

\* A walk that has been at the states P, besides the root, and has queue left:
\* every state is enqueued with its siblings when the walk is at their
\* parent, and no deep one before a shallower one.
Walking(ary, name, P, pending) ==
    /\ pending \in Seq(DOMAIN ary \ {0})
    /\ NoRepetition(pending)
    /\ P \subseteq DOMAIN ary \ {0}
    /\ \A s \in ToSet(pending) : s \notin P
    /\ \A s \in DOMAIN ary, t \in DOMAIN ary :
          t \in Children(ary, s) => (t \in P \cup ToSet(pending) <=> s \in P \cup {0})
    /\ \A i, j \in 1..Len(pending) : i <= j => Len(name[pending[i]]) <= Len(name[pending[j]])
    /\ \A i, j \in 1..Len(pending) : Len(name[pending[i]]) <= Len(name[pending[j]]) + 1
    /\ \A s \in P, i \in 1..Len(pending) : Len(name[s]) <= Len(name[pending[i]])

\* The root is shallower than any other state.
LEMMA ChildrenFacts ==
    ASSUME NEW ary, NEW name, Tree(ary, name), NEW s \in DOMAIN ary, NEW t \in Children(ary, s)
    PROVE  /\ t \in DOMAIN ary /\ t # 0
           /\ Len(name[t]) = Len(name[s]) + 1
           /\ \A r \in DOMAIN ary : t \in Children(ary, r) => r = s
<1>1. PICK c \in Char : t = ary[s][c] /\ ary[s][c] \notin {0, FAIL}
  BY DEF Children
<1>2. t \in DOMAIN ary /\ t # 0 /\ Len(name[t]) = Len(name[s]) + 1
  BY <1>1, TreeChild
<1>3. ASSUME NEW r \in DOMAIN ary, t \in Children(ary, r) PROVE r = s
  <2>1. PICK d \in Char : t = ary[r][d]
    BY <1>3 DEF Children
  <2>2. ary[r][d] = ary[s][c] /\ ary[s][c] \notin {0, FAIL}
    BY <1>1, <2>1
  <2> QED
    BY <2>2, OneParent
<1> QED
  BY <1>2, <1>3

LEMMA HasParent ==
    ASSUME NEW ary, NEW name, Tree(ary, name), NEW t \in DOMAIN ary, t # 0
    PROVE  \E s \in DOMAIN ary : t \in Children(ary, s) /\ Len(name[t]) = Len(name[s]) + 1
<1>1. PICK s \in DOMAIN ary, c \in Char : ary[s][c] = t /\ Len(name[t]) = Len(name[s]) + 1
  BY TreeParent
<1>2. t \notin {0, FAIL}
  BY TreeFacts
<1> QED
  BY <1>1, <1>2 DEF Children

LEMMA WalkBegins ==
    ASSUME NEW g, NEW name, Tree(g.ary, name)
    PROVE  Walking(g.ary, name, {}, Successors(g, 0))
<1> DEFINE q == Successors(g, 0)
           D == DOMAIN g.ary
<1>1. 0 \in D
  BY TreeFacts
<1>2. q \in Seq(D \ {0}) /\ NoRepetition(q) /\ ToSet(q) = Children(g.ary, 0)
  BY <1>1, SuccessorsAreChildren
<1> HIDE DEF q
<1>3. \A i \in 1..Len(q) : q[i] \in Children(g.ary, 0)
  BY <1>2 DEF ToSet
<1>4. \A i \in 1..Len(q) : Len(name[q[i]]) = Len(name[0]) + 1
  BY <1>1, <1>3, ChildrenFacts
<1>5. Len(name[0]) \in Nat
  BY <1>1, TreeFacts
<1>6. ASSUME NEW s \in D, NEW t \in D, t \in Children(g.ary, s)
      PROVE  t \in {} \cup ToSet(q) <=> s \in {} \cup {0}
  BY <1>1, <1>2, <1>6, ChildrenFacts
<1> QED
  BY <1>2, <1>4, <1>5, <1>6 DEF Walking, q

\* What a turn makes of the queue.
LEMMA NextQueue ==
    ASSUME NEW S, NEW q \in Seq(S), q # <<>>, NEW z \in Seq(S)
    PROVE  LET p == Tail(q) \o z
           IN  /\ p \in Seq(S)
               /\ Head(q) = q[1] /\ Len(q) \in Nat /\ 1 \in 1..Len(q)
               /\ Len(p) = Len(q) - 1 + Len(z) /\ Len(z) \in Nat
               /\ \A i \in 1..Len(p) :
                     \/ i < Len(q) /\ i + 1 \in 1..Len(q) /\ p[i] = q[i + 1]
                     \/ i >= Len(q) /\ i - (Len(q) - 1) \in 1..Len(z) /\ p[i] = z[i - (Len(q) - 1)]
               /\ \A i \in 2..Len(q) : i - 1 \in 1..Len(p) /\ p[i - 1] = q[i]
               /\ \A i \in 1..Len(z) : i + (Len(q) - 1) \in 1..Len(p) /\ p[i + (Len(q) - 1)] = z[i]
<1> DEFINE p == Tail(q) \o z
<1>1. /\ Tail(q) \in Seq(S) /\ Len(Tail(q)) = Len(q) - 1 /\ Len(q) \in Nat /\ Len(q) >= 1
      /\ Len(z) \in Nat /\ Head(q) = q[1]
      /\ \A i \in 1..(Len(q) - 1) : Tail(q)[i] = q[i + 1]
  OBVIOUS
<1> DEFINE r == Tail(q)
<1> HIDE DEF r
<1>2. r \in Seq(S) /\ Len(r) = Len(q) - 1 /\ \A i \in 1..(Len(q) - 1) : r[i] = q[i + 1]
  BY <1>1 DEF r
<1>3. /\ r \o z \in Seq(S) /\ Len(r \o z) = Len(r) + Len(z)
      /\ \A i \in 1..Len(r) : (r \o z)[i] = r[i]
      /\ \A i \in (Len(r) + 1)..(Len(r) + Len(z)) : (r \o z)[i] = z[i - Len(r)]
  <2>1. r \in Seq(S) /\ z \in Seq(S)
    BY <1>2
  <2> QED
    BY <2>1
<1>4. p = r \o z
  BY DEF r
<1> HIDE DEF p
<1>5. /\ p \in Seq(S) /\ Len(p) = Len(q) - 1 + Len(z)
      /\ \A i \in 1..(Len(q) - 1) : p[i] = q[i + 1]
      /\ \A i \in Len(q)..(Len(q) - 1 + Len(z)) : p[i] = z[i - (Len(q) - 1)]
  BY <1>1, <1>2, <1>3, <1>4
<1>6. ASSUME NEW i \in 1..Len(p)
      PROVE  \/ i < Len(q) /\ i + 1 \in 1..Len(q) /\ p[i] = q[i + 1]
             \/ i >= Len(q) /\ i - (Len(q) - 1) \in 1..Len(z) /\ p[i] = z[i - (Len(q) - 1)]
  <2>1. CASE i < Len(q)
    BY <1>1, <1>5, <2>1
  <2>2. CASE i >= Len(q)
    BY <1>1, <1>5, <2>2
  <2> QED
    BY <1>1, <1>5, <2>1, <2>2
<1>7. ASSUME NEW i \in 2..Len(q) PROVE i - 1 \in 1..Len(p) /\ p[i - 1] = q[i]
  <2>1. i - 1 \in 1..(Len(q) - 1) /\ (i - 1) + 1 = i /\ i - 1 \in 1..Len(p)
    BY <1>1, <1>5
  <2> QED
    BY <1>5, <2>1
<1>8. ASSUME NEW i \in 1..Len(z)
      PROVE  i + (Len(q) - 1) \in 1..Len(p) /\ p[i + (Len(q) - 1)] = z[i]
  <2>1. /\ i + (Len(q) - 1) \in Len(q)..(Len(q) - 1 + Len(z))
        /\ (i + (Len(q) - 1)) - (Len(q) - 1) = i
        /\ i + (Len(q) - 1) \in 1..Len(p)
    BY <1>1, <1>5
  <2> QED
    BY <1>5, <2>1
<1> QED
  BY <1>1, <1>5, <1>6, <1>7, <1>8 DEF p

LEMMA WalkContinues ==
    ASSUME NEW g, NEW name, Tree(g.ary, name), NEW P, NEW q,
           Walking(g.ary, name, P, q), q # <<>>
    PROVE  Walking(g.ary, name, P \cup {Head(q)}, Tail(q) \o Successors(g, Head(q)))
<1> DEFINE D == DOMAIN g.ary
           r == Head(q)
           z == Successors(g, r)
           p == Tail(q) \o z
           depth(s) == Len(name[s])
<1>1. /\ q \in Seq(D \ {0}) /\ NoRepetition(q) /\ P \subseteq D \ {0}
      /\ \A s \in ToSet(q) : s \notin P
      /\ \A s \in D, t \in D : t \in Children(g.ary, s)
                                 => (t \in P \cup ToSet(q) <=> s \in P \cup {0})
      /\ \A i, j \in 1..Len(q) : i <= j => depth(q[i]) <= depth(q[j])
      /\ \A i, j \in 1..Len(q) : depth(q[i]) <= depth(q[j]) + 1
      /\ \A s \in P, i \in 1..Len(q) : depth(s) <= depth(q[i])
  BY DEF Walking
<1>2. r = q[1] /\ r \in D /\ r # 0 /\ r \in ToSet(q) /\ 1 \in 1..Len(q) /\ Len(q) \in Nat
  BY <1>1 DEF ToSet
<1>3. z \in Seq(D \ {0}) /\ NoRepetition(z) /\ ToSet(z) = Children(g.ary, r)
  BY <1>2, SuccessorsAreChildren
<1> HIDE DEF r, z
<1>4. /\ p \in Seq(D \ {0})
      /\ Len(p) = Len(q) - 1 + Len(z) /\ Len(z) \in Nat /\ Len(p) \in Nat
      /\ \A i \in 1..Len(p) :
            \/ i < Len(q) /\ i + 1 \in 1..Len(q) /\ p[i] = q[i + 1]
            \/ i >= Len(q) /\ i - (Len(q) - 1) \in 1..Len(z) /\ p[i] = z[i - (Len(q) - 1)]
      /\ \A i \in 2..Len(q) : i - 1 \in 1..Len(p) /\ p[i - 1] = q[i]
      /\ \A i \in 1..Len(z) : i + (Len(q) - 1) \in 1..Len(p) /\ p[i + (Len(q) - 1)] = z[i]
  BY <1>1, <1>2, <1>3, NextQueue
<1> HIDE DEF p
<1>5. /\ \A i \in 1..Len(z) : z[i] \in Children(g.ary, r)
      /\ \A i \in 1..Len(q) : q[i] \in ToSet(q) /\ q[i] \in D
      /\ DOMAIN p = 1..Len(p) /\ DOMAIN q = 1..Len(q) /\ DOMAIN z = 1..Len(z)
  BY <1>1, <1>3, <1>4 DEF ToSet
<1>6. \A t \in Children(g.ary, r) : /\ t \notin P \cup ToSet(q)
                                    /\ t \in D /\ t # 0 /\ depth(t) = depth(r) + 1
  <2> TAKE t \in Children(g.ary, r)
  <2>1. t \in D /\ t # 0 /\ depth(t) = depth(r) + 1
    BY <1>2, ChildrenFacts
  <2>2. r \notin P \cup {0}
    BY <1>1, <1>2
  <2> QED
    BY <1>1, <1>2, <2>1, <2>2
<1>7. \A s \in D : depth(s) \in Nat
  BY TreeFacts
<1>8. ToSet(p) = (ToSet(q) \ {r}) \cup Children(g.ary, r)
  <2>1. ASSUME NEW t \in ToSet(p) PROVE t \in (ToSet(q) \ {r}) \cup Children(g.ary, r)
    <3>1. PICK i \in 1..Len(p) : t = p[i]
      BY <1>5 DEF ToSet
    <3>2. CASE i < Len(q) /\ i + 1 \in 1..Len(q) /\ p[i] = q[i + 1]
      <4>1. q[i + 1] # q[1]
        BY <1>1, <1>2, <3>2 DEF NoRepetition
      <4> QED
        BY <1>2, <1>5, <3>1, <3>2, <4>1
    <3>3. CASE i - (Len(q) - 1) \in 1..Len(z) /\ p[i] = z[i - (Len(q) - 1)]
      BY <1>5, <3>1, <3>3
    <3> QED
      BY <1>4, <3>2, <3>3
  <2>2. ASSUME NEW t \in ToSet(q), t # r PROVE t \in ToSet(p)
    <3>1. PICK i \in 1..Len(q) : t = q[i]
      BY <1>5 DEF ToSet
    <3>2. i \in 2..Len(q)
      BY <1>2, <2>2, <3>1
    <3>3. i - 1 \in 1..Len(p) /\ p[i - 1] = t
      BY <1>4, <3>1, <3>2
    <3> QED
      BY <1>5, <3>3 DEF ToSet
  <2>3. ASSUME NEW t \in Children(g.ary, r) PROVE t \in ToSet(p)
    <3>1. PICK i \in 1..Len(z) : t = z[i]
      BY <1>3, <1>5 DEF ToSet
    <3>2. i + (Len(q) - 1) \in 1..Len(p) /\ p[i + (Len(q) - 1)] = t
      BY <1>4, <3>1
    <3> QED
      BY <1>5, <3>2 DEF ToSet
  <2> QED
    BY <2>1, <2>2, <2>3
<1> HIDE DEF depth
<1>9. ASSUME NEW i \in 1..Len(p)
       PROVE  /\ i < Len(q) => p[i] \in ToSet(q)
              /\ i >= Len(q) => p[i] \in Children(g.ary, r)
  <2>1. CASE i < Len(q) /\ i + 1 \in 1..Len(q) /\ p[i] = q[i + 1]
    BY <1>2, <1>5, <2>1
  <2>2. CASE i >= Len(q) /\ i - (Len(q) - 1) \in 1..Len(z) /\ p[i] = z[i - (Len(q) - 1)]
    BY <1>2, <1>5, <2>2
  <2> QED
    BY <1>4, <2>1, <2>2
<1>10. NoRepetition(p)
  <2> SUFFICES ASSUME NEW i \in 1..Len(p), NEW j \in 1..Len(p), p[i] = p[j] PROVE i = j
    BY DEF NoRepetition
  <2>1. CASE i < Len(q) /\ j < Len(q)
    <3>1. q[i + 1] = q[j + 1] /\ i + 1 \in 1..Len(q) /\ j + 1 \in 1..Len(q)
      BY <1>4, <2>1
    <3>2. i + 1 = j + 1
      BY <1>1, <3>1 DEF NoRepetition
    <3> QED
      BY <3>2
  <2>2. CASE i >= Len(q) /\ j >= Len(q)
    <3> DEFINE k == i - (Len(q) - 1)
               l == j - (Len(q) - 1)
    <3>3. k \in 1..Len(z) /\ p[i] = z[k]
      BY <1>2, <1>4, <2>2
    <3>4. l \in 1..Len(z) /\ p[j] = z[l]
      BY <1>2, <1>4, <2>2
    <3>1. z[k] = z[l] /\ k \in 1..Len(z) /\ l \in 1..Len(z)
      BY <3>3, <3>4
    <3>2. k = l
      <4> HIDE DEF k, l
      <4> QED
        BY <1>3, <3>1 DEF NoRepetition
    <3> QED
      BY <1>2, <3>2
  <2>3. CASE i < Len(q) /\ j >= Len(q)
    <3>1. p[i] \in ToSet(q) /\ p[j] \in Children(g.ary, r)
      BY <1>9, <2>3
    <3> QED
      BY <1>6, <3>1
  <2>4. CASE i >= Len(q) /\ j < Len(q)
    <3>1. p[j] \in ToSet(q) /\ p[i] \in Children(g.ary, r)
      BY <1>9, <2>4
    <3> QED
      BY <1>6, <3>1
  <2> QED
    BY <1>2, <2>1, <2>2, <2>3, <2>4
<1>11. P \cup {r} \subseteq D \ {0} /\ \A s \in ToSet(p) : s \notin P \cup {r}
  <2>1. \A s \in Children(g.ary, r) : s \notin P \cup {r}
    BY <1>2, <1>6
  <2> QED
    BY <1>1, <1>2, <1>8, <2>1
<1>12. ASSUME NEW s \in D, NEW t \in D, t \in Children(g.ary, s)
       PROVE  t \in (P \cup {r}) \cup ToSet(p) <=> s \in (P \cup {r}) \cup {0}
  <2>1. (P \cup {r}) \cup ToSet(p) = (P \cup ToSet(q)) \cup Children(g.ary, r)
    BY <1>2, <1>8
  <2>2. t \in P \cup ToSet(q) <=> s \in P \cup {0}
    BY <1>1, <1>12
  <2>3. t \in Children(g.ary, r) => s = r
    BY <1>2, <1>12, ChildrenFacts
  <2> QED
    BY <1>12, <2>1, <2>2, <2>3
\* every state left or new is at least as deep as r, and at most one deeper
<1>13. ASSUME NEW i \in 1..Len(p)
       PROVE  /\ p[i] \in D /\ depth(r) <= depth(p[i]) /\ depth(p[i]) <= depth(r) + 1
              /\ i >= Len(q) => depth(p[i]) = depth(r) + 1
  <2>1. CASE i < Len(q) /\ i + 1 \in 1..Len(q) /\ p[i] = q[i + 1]
    <3>1. 1 <= i + 1
      BY <1>2
    <3>2. depth(q[1]) <= depth(q[i + 1]) /\ depth(q[i + 1]) <= depth(q[1]) + 1
      BY <1>1, <1>2, <2>1, <3>1 DEF depth
    <3> QED
      BY <1>2, <1>5, <2>1, <3>2
  <2>2. CASE i >= Len(q) /\ i - (Len(q) - 1) \in 1..Len(z) /\ p[i] = z[i - (Len(q) - 1)]
    <3>1. p[i] \in D /\ depth(p[i]) = depth(r) + 1
      BY <1>5, <1>6, <2>2 DEF depth
    <3>2. depth(r) \in Nat
      BY <1>2, <1>7 DEF depth
    <3> QED
      BY <3>1, <3>2
  <2> QED
    BY <1>4, <2>1, <2>2
<1>14. ASSUME NEW i \in 1..Len(p), NEW j \in 1..Len(p), i <= j
       PROVE  depth(p[i]) <= depth(p[j])
  <2>1. CASE j >= Len(q)
    BY <1>13, <2>1
  <2>2. CASE j < Len(q)
    <3>1. i < Len(q) /\ i + 1 <= j + 1
      BY <1>2, <1>14, <2>2
    <3>2. p[i] = q[i + 1] /\ p[j] = q[j + 1] /\ i + 1 \in 1..Len(q) /\ j + 1 \in 1..Len(q)
      BY <1>4, <2>2, <3>1
    <3> QED
      BY <1>1, <3>1, <3>2 DEF depth
  <2> QED
    BY <1>2, <2>1, <2>2
<1>15. ASSUME NEW i \in 1..Len(p), NEW j \in 1..Len(p) PROVE depth(p[i]) <= depth(p[j]) + 1
  <2>1. depth(p[i]) \in Nat /\ depth(p[j]) \in Nat /\ depth(r) \in Nat
    BY <1>2, <1>7, <1>13 DEF depth
  <2>2. depth(p[i]) <= depth(r) + 1 /\ depth(r) <= depth(p[j])
    BY <1>13
  <2> QED
    BY <2>1, <2>2
<1>16. ASSUME NEW s \in P \cup {r}, NEW i \in 1..Len(p) PROVE depth(s) <= depth(p[i])
  <2>1. depth(s) <= depth(r) /\ s \in D
    <3>1. CASE s \in P
      BY <1>1, <1>2, <3>1 DEF depth
    <3>2. CASE s = r
      BY <1>2, <1>7, <3>2 DEF depth
    <3> QED
      BY <3>1, <3>2
  <2>2. depth(p[i]) \in Nat /\ depth(s) \in Nat /\ depth(r) \in Nat
    BY <1>2, <1>7, <1>13, <2>1 DEF depth
  <2>3. depth(r) <= depth(p[i])
    BY <1>13
  <2> QED
    BY <2>1, <2>2, <2>3
<1>17. Walking(g.ary, name, P \cup {r}, p)
  BY <1>4, <1>10, <1>11, <1>12, <1>14, <1>15, <1>16 DEF Walking, depth
<1> QED
  BY <1>17 DEF r, z, p

\* A walk has been at every state that is shallower than the next one.
LEMMA ShallowerWalked ==
    ASSUME NEW ary, NEW name, Tree(ary, name), NEW P, NEW q, Walking(ary, name, P, q),
           NEW s \in DOMAIN ary, q # <<>> => Len(name[s]) < Len(name[Head(q)])
    PROVE  s \in P \cup {0}
<1> DEFINE D == DOMAIN ary
           depth(t) == Len(name[t])
           Bad == {t \in D : t \notin P \cup {0} /\ (q # <<>> => depth(t) < depth(Head(q)))}
           Depths == {depth(t) : t \in Bad}
<1> SUFFICES ASSUME s \notin P \cup {0} PROVE FALSE
  OBVIOUS
<1>1. \A t \in D : depth(t) \in Nat
  BY TreeFacts
<1>2. s \in Bad
  OBVIOUS
<1>3. PICK n \in Depths : \A k \in Depths : n <= k
  <2>1. Depths \in SUBSET Nat /\ Depths # {}
    BY <1>1, <1>2
  <2> HIDE DEF Depths
  <2> QED
    BY <2>1, LeastNumber
<1>4. PICK t \in Bad : n = depth(t)
  OBVIOUS
<1>5. t \in D /\ t \notin P \cup {0} /\ (q # <<>> => depth(t) < depth(Head(q)))
  OBVIOUS
<1>6. PICK p \in D : t \in Children(ary, p) /\ depth(t) = depth(p) + 1
  BY <1>5, HasParent
<1>7. depth(p) \in Nat /\ depth(t) \in Nat
  BY <1>1, <1>5
<1>8. p \notin Bad
  <2> SUFFICES ASSUME p \in Bad PROVE FALSE
    OBVIOUS
  <2>1. depth(p) \in Depths
    OBVIOUS
  <2>2. n <= depth(p)
    <3> HIDE DEF Depths
    <3> QED
      BY <1>3, <2>1
  <2> QED
    BY <1>4, <1>6, <1>7, <2>2
<1>9. /\ q \in Seq(D \ {0})
      /\ \A a \in D, b \in D : b \in Children(ary, a) => (b \in P \cup ToSet(q) <=> a \in P \cup {0})
      /\ \A i, j \in 1..Len(q) : i <= j => depth(q[i]) <= depth(q[j])
  BY DEF Walking
<1>10. q # <<>> => /\ Head(q) = q[1] /\ 1 \in 1..Len(q) /\ Head(q) \in D
                   /\ Len(q) \in Nat
  BY <1>9
<1>11. q # <<>> => depth(p) < depth(Head(q))
  <2> SUFFICES ASSUME q # <<>> PROVE depth(p) < depth(Head(q))
    OBVIOUS
  <2>1. depth(Head(q)) \in Nat
    BY <1>1, <1>10
  <2> QED
    BY <1>5, <1>6, <1>7, <2>1
<1>12. p \in P \cup {0}
  BY <1>6, <1>8, <1>11
<1>13. t \in P \cup ToSet(q)
  BY <1>5, <1>6, <1>9, <1>12
<1>14. PICK i \in 1..Len(q) : t = q[i]
  BY <1>5, <1>9, <1>13 DEF ToSet
<1>15. q # <<>> /\ 1 <= i
  BY <1>9, <1>14
<1>16. depth(q[1]) <= depth(t)
  BY <1>9, <1>10, <1>14, <1>15
<1>17. depth(Head(q)) \in Nat
  BY <1>1, <1>10, <1>15
<1> QED
  BY <1>5, <1>7, <1>10, <1>15, <1>16, <1>17

\* And it has enqueued every state that is no deeper.
LEMMA AsShallowEnqueued ==
    ASSUME NEW ary, NEW name, Tree(ary, name), NEW P, NEW q, Walking(ary, name, P, q),
           q # <<>>, NEW s \in DOMAIN ary, Len(name[s]) <= Len(name[Head(q)])
    PROVE  s \in P \cup ToSet(q) \cup {0}
<1> SUFFICES ASSUME s # 0 PROVE s \in P \cup ToSet(q)
  OBVIOUS
<1>1. PICK p \in DOMAIN ary : s \in Children(ary, p) /\ Len(name[s]) = Len(name[p]) + 1
  BY HasParent
<1>2. Head(q) \in DOMAIN ary
  <2>1. q \in Seq(DOMAIN ary \ {0})
    BY DEF Walking
  <2> QED
    BY <2>1
<1>3. Len(name[s]) \in Nat /\ Len(name[p]) \in Nat /\ Len(name[Head(q)]) \in Nat
  BY <1>2, TreeFacts
<1>4. p \in P \cup {0}
  BY <1>1, <1>3, ShallowerWalked
<1> QED
  BY <1>1, <1>4 DEF Walking

(* ------------------------------------------------------------------------ *)
(* failure transitions                                                        *)

\* f is the state of the longest text, short of that of s, that ends it.
LongestEnd(ary, name, f, s) ==
    /\ f \in DOMAIN ary /\ f # s
    /\ Ends(name[f], name[s])
    /\ \A t \in DOMAIN ary \ {s} : Ends(name[t], name[s]) => Ends(name[t], name[f])

LEMMA LongestEndIsShallower ==
    ASSUME NEW ary, NEW name, Tree(ary, name), NEW s \in DOMAIN ary, NEW f,
           LongestEnd(ary, name, f, s)
    PROVE  f \in DOMAIN ary /\ Len(name[f]) < Len(name[s])
<1>1. f \in DOMAIN ary /\ f # s /\ Ends(name[f], name[s])
  BY DEF LongestEnd
<1>2. name[f] \in Text /\ name[s] \in Text /\ name[f] # name[s]
  BY <1>1, TreeFacts
<1> QED
  BY <1>1, <1>2, EndsShorter

\* h is the state of the longest text that ends that of s and has a
\* transition on c.
Landing(ary, name, c, s, h) ==
    /\ h \in DOMAIN ary /\ ary[h][c] # FAIL
    /\ Ends(name[h], name[s])
    /\ \A t \in DOMAIN ary : ary[t][c] # FAIL /\ Ends(name[t], name[s]) => Ends(name[t], name[h])

LEMMA LandingUnique ==
    ASSUME NEW ary, NEW name, Tree(ary, name), NEW s \in DOMAIN ary, NEW c \in Char,
           NEW h, NEW k, Landing(ary, name, c, s, h), Landing(ary, name, c, s, k)
    PROVE  h = k
<1>1. h \in DOMAIN ary /\ k \in DOMAIN ary /\ Ends(name[h], name[k]) /\ Ends(name[k], name[h])
  BY DEF Landing
<1>2. name[h] \in Text /\ name[k] \in Text /\ Len(name[h]) \in Nat /\ Len(name[k]) \in Nat
  BY <1>1, TreeFacts
<1>3. name[h] = name[k]
  BY <1>1, <1>2, EndsShorter
<1> QED
  BY <1>1, <1>3, TreeFacts

LEMMA LandingHere ==
    ASSUME NEW ary, NEW name, Tree(ary, name), NEW s \in DOMAIN ary, NEW c \in Char,
           ary[s][c] # FAIL
    PROVE  Landing(ary, name, c, s, s)
<1>1. name[s] \in Text
  BY TreeFacts
<1>2. Ends(name[s], name[s])
  BY <1>1, EndsBasic
<1> QED
  BY <1>2 DEF Landing

LEMMA LandingBack ==
    ASSUME NEW ary, NEW name, Tree(ary, name), NEW s \in DOMAIN ary, NEW c \in Char,
           ary[s][c] = FAIL, NEW f, LongestEnd(ary, name, f, s), NEW h
    PROVE  Landing(ary, name, c, f, h) => Landing(ary, name, c, s, h)
<1> SUFFICES ASSUME Landing(ary, name, c, f, h) PROVE Landing(ary, name, c, s, h)
  OBVIOUS
<1>1. f \in DOMAIN ary /\ h \in DOMAIN ary /\ Ends(name[f], name[s]) /\ Ends(name[h], name[f])
  BY DEF LongestEnd, Landing
<1>2. name[f] \in Text /\ name[h] \in Text /\ name[s] \in Text
  BY <1>1, TreeFacts
<1>3. Ends(name[h], name[s])
  BY <1>1, <1>2, EndsTransitive
<1>4. ASSUME NEW t \in DOMAIN ary, ary[t][c] # FAIL, Ends(name[t], name[s])
      PROVE  Ends(name[t], name[h])
  <2>1. t \in DOMAIN ary \ {s}
    BY <1>4
  <2>2. Ends(name[t], name[f])
    BY <1>4, <2>1 DEF LongestEnd
  <2> QED
    BY <1>4, <2>2 DEF Landing
<1>5. ary[h][c] # FAIL
  BY DEF Landing
<1> QED
  BY <1>1, <1>3, <1>4, <1>5 DEF Landing

LEMMA LandingExists ==
    ASSUME NEW ary, NEW name, Tree(ary, name), Closed(ary), NEW s \in DOMAIN ary, NEW c \in Char
    PROVE  \E h : Landing(ary, name, c, s, h)
<1> DEFINE D == DOMAIN ary
           Found == {t \in D : ary[t][c] # FAIL /\ Ends(name[t], name[s])}
           Lengths == {Len(name[t]) : t \in Found}
<1>1. \A t \in D : name[t] \in Text /\ Len(name[t]) \in Nat
  BY TreeFacts
<1>2. 0 \in Found
  <2>1. 0 \in D /\ name[0] = <<>>
    BY TreeFacts
  <2>2. ary[0][c] # FAIL
    BY <2>1 DEF Closed
  <2> QED
    BY <1>1, <2>1, <2>2, EndsBasic
<1>3. Lengths \in SUBSET (0..Len(name[s])) /\ Lengths # {}
  <2>1. ASSUME NEW t \in Found PROVE Len(name[t]) \in 0..Len(name[s])
    BY <1>1, EndsShorter
  <2> QED
    BY <1>2, <2>1
<1>4. PICK n \in Lengths : \A k \in Lengths : k <= n
  <2> HIDE DEF Lengths
  <2> QED
    BY <1>1, <1>3, GreatestNumber
<1>5. PICK h \in Found : n = Len(name[h])
  OBVIOUS
<1>6. ASSUME NEW t \in Found PROVE Ends(name[t], name[h])
  <2>1. Len(name[t]) \in Lengths
    OBVIOUS
  <2>2. Len(name[t]) <= Len(name[h])
    <3> HIDE DEF Lengths
    <3> QED
      BY <1>4, <1>5, <2>1
  <2> QED
    BY <1>1, <1>5, <2>2, EndsNested
<1> QED
  BY <1>5, <1>6 DEF Landing

\* The failure transitions of the states S are right, the others not yet set.
FailureRight(g, name, S) ==
    /\ g.failure \in [DOMAIN g.ary -> DOMAIN g.ary]
    /\ \A s \in S : LongestEnd(g.ary, name, g.failure[s], s)
    /\ \A s \in DOMAIN g.ary \ S : g.failure[s] = 0

\* Falling back from a state whose failure transitions are right.
LEMMA FallbackLands ==
    ASSUME NEW g, NEW name, Tree(g.ary, name), Closed(g.ary), NEW S, FailureRight(g, name, S),
           S \subseteq DOMAIN g.ary \ {0},
           \A s \in S : g.failure[s] \in S \cup {0},
           NEW c \in Char, NEW s \in S \cup {0}
    PROVE  Landing(g.ary, name, c, s, Fallback(g, c)[s])
<1> DEFINE ary == g.ary
           D == DOMAIN ary
           depth(t) == Len(name[t])
           Land(t, h) == Landing(ary, name, c, t, h)
           from == CHOOSE f : f = [t \in D |-> IF ary[t][c] # FAIL THEN t ELSE f[g.failure[t]]]
           best == [t \in D |-> IF t \in S \cup {0} THEN CHOOSE h : Land(t, h)
                                ELSE IF ary[t][c] # FAIL THEN t ELSE 0]
<1>1. Fallback(g, c) = from
  BY DEF Fallback
<1>2. /\ 0 \in D /\ S \cup {0} \subseteq D /\ ary[0][c] # FAIL
      /\ \A t \in D : depth(t) \in Nat
  BY TreeFacts DEF Closed
<1>3. /\ \A t \in D : g.failure[t] \in D
      /\ \A t \in S : LongestEnd(ary, name, g.failure[t], t)
      /\ \A t \in D \ S : g.failure[t] = 0
  BY DEF FailureRight
<1>4. \A t \in S \cup {0} : Land(t, best[t])
  <2> TAKE t \in S \cup {0}
  <2>1. t \in D
    BY <1>2
  <2>2. \E h : Land(t, h)
    BY <2>1, LandingExists
  <2>3. best[t] = CHOOSE h : Land(t, h)
    BY <2>1
  <2> HIDE DEF best, Land
  <2> QED
    BY <2>2, <2>3
<1>5. ASSUME NEW t \in D
      PROVE  best[t] = IF ary[t][c] # FAIL THEN t ELSE best[g.failure[t]]
  <2>1. CASE t \in S \cup {0} /\ ary[t][c] # FAIL
    <3>1. Land(t, t)
      BY <2>1, LandingHere
    <3>2. Land(t, best[t])
      BY <1>4, <2>1
    <3> HIDE DEF best
    <3>3. best[t] = t
      BY <3>1, <3>2, LandingUnique
    <3> QED
      BY <2>1, <3>3
  <2>2. CASE t \in S \cup {0} /\ ary[t][c] = FAIL
    <3>1. t \in S /\ g.failure[t] \in S \cup {0}
      BY <1>2, <2>2
    <3>2. Land(t, best[t]) /\ Land(g.failure[t], best[g.failure[t]])
      BY <1>4, <3>1
    <3> HIDE DEF best
    <3>3. Land(t, best[g.failure[t]])
      BY <1>3, <2>2, <3>1, <3>2, LandingBack
    <3>4. best[t] = best[g.failure[t]]
      BY <3>2, <3>3, LandingUnique
    <3> QED
      BY <2>2, <3>4
  <2>3. CASE t \notin S \cup {0}
    <3>1. g.failure[t] = 0
      BY <1>3, <2>3
    <3>2. best[0] = 0
      <4>1. Land(0, 0) /\ Land(0, best[0])
        BY <1>2, <1>4, LandingHere
      <4> HIDE DEF best
      <4> QED
        BY <1>2, <4>1, LandingUnique
    <3>3. best[t] = IF ary[t][c] # FAIL THEN t ELSE 0
      BY <2>3
    <3> QED
      BY <3>1, <3>2, <3>3
  <2> QED
    BY <2>1, <2>2, <2>3
<1>6. best = [t \in D |-> IF ary[t][c] # FAIL THEN t ELSE best[g.failure[t]]]
  <2>1. best = [t \in D |-> best[t]]
    OBVIOUS
  <2> HIDE DEF best
  <2> QED
    BY <1>5, <2>1
<1>7. from = [t \in D |-> IF ary[t][c] # FAIL THEN t ELSE from[g.failure[t]]]
  <2> HIDE DEF best
  <2> QED
    BY <1>6
<1> HIDE DEF from, best
<1>8. \A t \in D : from[t] = IF ary[t][c] # FAIL THEN t ELSE from[g.failure[t]]
  BY <1>7
<1> DEFINE Bad == {t \in S \cup {0} : ~Land(t, from[t])}
           Depths == {depth(t) : t \in Bad}
<1>9. Bad = {}
  <2> SUFFICES ASSUME Bad # {} PROVE FALSE
    OBVIOUS
  <2>1. PICK n \in Depths : \A k \in Depths : n <= k
    <3>1. Depths \in SUBSET Nat /\ Depths # {}
      BY <1>2
    <3> HIDE DEF Depths
    <3> QED
      BY <3>1, LeastNumber
  <2>2. PICK t \in Bad : n = depth(t)
    OBVIOUS
  <2>3. t \in S \cup {0} /\ ~Land(t, from[t]) /\ t \in D
    BY <1>2
  <2>4. ary[t][c] = FAIL
    <3> SUFFICES ASSUME ary[t][c] # FAIL PROVE FALSE
      OBVIOUS
    <3>1. from[t] = t /\ Land(t, t)
      BY <1>8, <2>3, LandingHere
    <3> QED
      BY <2>3, <3>1
  <2> DEFINE f == g.failure[t]
  <2>5. t \in S /\ f \in S \cup {0} /\ LongestEnd(ary, name, f, t)
    BY <1>2, <1>3, <2>3, <2>4
  <2>6. depth(f) < depth(t) /\ f \in D
    BY <2>3, <2>5, LongestEndIsShallower
  <2>7. f \notin Bad
    <3> SUFFICES ASSUME f \in Bad PROVE FALSE
      OBVIOUS
    <3>1. depth(f) \in Depths
      OBVIOUS
    <3>2. n <= depth(f)
      <4> HIDE DEF Depths
      <4> QED
        BY <2>1, <3>1
    <3> QED
      BY <1>2, <2>2, <2>3, <2>6, <3>2
  <2>8. Land(f, from[f])
    BY <2>5, <2>7
  <2>9. Land(t, from[f])
    <3> HIDE DEF f
    <3> QED
      BY <2>3, <2>4, <2>5, <2>8, LandingBack
  <2>10. from[t] = from[f]
    BY <1>8, <2>3, <2>4
  <2> QED
    BY <2>3, <2>9, <2>10
<1> QED
  BY <1>1, <1>9

\* The failure transition of a state from that of its parent.
LEMMA FailureOfChild ==
    ASSUME NEW ary, NEW name, Tree(ary, name), Closed(ary),
           NEW r \in DOMAIN ary, NEW c \in Char, ary[r][c] \notin {0, FAIL},
           NEW f, LongestEnd(ary, name, f, r), NEW h, Landing(ary, name, c, f, h)
    PROVE  LongestEnd(ary, name, ary[h][c], ary[r][c])
<1> DEFINE D == DOMAIN ary
           s == ary[r][c]
           k == ary[h][c]
<1>1. s \in D /\ s # 0 /\ name[s] = Append(name[r], c)
  BY TreeChild
<1>2. f \in D /\ f # r /\ Ends(name[f], name[r]) /\ Len(name[f]) < Len(name[r])
  BY LongestEndIsShallower DEF LongestEnd
<1>3. h \in D /\ k # FAIL /\ Ends(name[h], name[f])
  BY DEF Landing
<1>4. \A t \in D : name[t] \in Text /\ Len(name[t]) \in Nat
  BY TreeFacts
<1>5. Ends(name[h], name[r])
  BY <1>2, <1>3, <1>4, EndsTransitive
<1>6. h # r
  <2>1. Len(name[h]) <= Len(name[f])
    BY <1>2, <1>3, <1>4, EndsShorter
  <2> QED
    BY <1>2, <1>3, <1>4, <2>1
<1>7. k \in D
  BY <1>3, TreeFacts
\* what ends the text of s leads over a state that is tried before h
<1>8. ASSUME NEW t \in D, t # s, t # 0, Ends(name[t], name[s])
      PROVE  \E p \in D : ary[p][c] = t /\ name[t] = Append(name[p], c) /\ Ends(name[p], name[h])
  <2>1. PICK p \in D, d \in Char : ary[p][d] = t /\ name[t] = Append(name[p], d)
    BY <1>8, TreeParent
  <2>2. d = c /\ Ends(name[p], name[r])
    BY <1>1, <1>4, <1>8, <2>1, EndsAppend
  <2>3. p # r
    BY <1>8, <2>1, <2>2
  <2>4. Ends(name[p], name[f])
    BY <2>2, <2>3 DEF LongestEnd
  <2>5. ary[p][c] # FAIL
    BY <1>8, <2>1, <2>2, TreeFacts
  <2>6. Ends(name[p], name[h])
    BY <2>4, <2>5 DEF Landing
  <2> QED
    BY <2>1, <2>2, <2>6
<1>9. CASE k # 0
  <2>1. name[k] = Append(name[h], c)
    BY <1>3, <1>9, TreeChild
  <2>2. Ends(name[k], name[s])
    BY <1>1, <1>3, <1>4, <1>5, <2>1, EndsAppend
  <2>3. k # s
    BY <1>3, <1>6, <1>9, OneParent
  <2>4. ASSUME NEW t \in D \ {s}, Ends(name[t], name[s]) PROVE Ends(name[t], name[k])
    <3>1. CASE t = 0
      <4>1. name[t] = <<>>
        BY <3>1, TreeFacts
      <4> QED
        BY <1>4, <1>7, <4>1, EndsBasic
    <3>2. CASE t # 0
      <4>1. PICK p \in D : name[t] = Append(name[p], c) /\ Ends(name[p], name[h])
        BY <1>8, <2>4, <3>2
      <4> QED
        BY <1>3, <1>4, <2>1, <4>1, EndsAppend
    <3> QED
      BY <3>1, <3>2
  <2> QED
    BY <1>7, <2>2, <2>3, <2>4 DEF LongestEnd
<1>10. CASE k = 0
  <2>1. h = 0 /\ name[0] = <<>> /\ 0 \in D
    BY <1>3, <1>10, TreeFacts DEF Closed
  <2>2. Ends(name[k], name[s]) /\ k # s
    BY <1>1, <1>4, <1>10, <2>1, EndsBasic
  <2>3. ASSUME NEW t \in D \ {s}, Ends(name[t], name[s]) PROVE Ends(name[t], name[k])
    <3>1. t = 0
      <4> SUFFICES ASSUME t # 0 PROVE FALSE
        OBVIOUS
      <4>1. PICK p \in D : ary[p][c] = t /\ Ends(name[p], name[h])
        BY <1>8, <2>3
      <4>2. name[p] = <<>>
        BY <1>4, <2>1, <4>1, EndsNothing
      <4>3. p = 0
        BY <2>1, <4>2, TreeFacts
      <4> QED
        BY <1>10, <2>1, <4>1, <4>3
    <3> QED
      BY <1>4, <1>10, <2>1, <3>1, EndsBasic
  <2> QED
    BY <1>7, <2>2, <2>3 DEF LongestEnd
<1> QED
  BY <1>9, <1>10

(* ------------------------------------------------------------------------ *)
(* inherited outputs                                                          *)

\* q counts the keywords that are the text, or that end it.
CountsSame(q, text, K) == \A x : Count(q, x) = Cardinality(Same(K, Len(K), text, x))
CountsEnding(q, text, K) == \A x : Count(q, x) = Cardinality(Ending(K, Len(K), text, x))

LEMMA KeywordsAreNamed ==
    ASSUME NEW ary, NEW name, NEW K \in Seq(Text), Named(ary, name) = Known(K, Len(K)),
           NEW i \in 1..Len(K)
    PROVE  \E t \in DOMAIN ary : name[t] = K[i]
<1>1. K[i] \in Text
  OBVIOUS
<1>2. SubSeq(K[i], 1, Len(K[i])) = K[i] /\ Len(K[i]) \in 0..Len(K[i])
  BY <1>1 DEF Text
<1>3. K[i] \in Prefixes(K[i])
  BY <1>2 DEF Prefixes
<1>4. K[i] \in Named(ary, name)
  BY <1>3 DEF Known
<1> QED
  BY <1>4 DEF Named

LEMMA InheritOutputs ==
    ASSUME NEW ary, NEW name, Tree(ary, name), NEW K \in Seq(Text),
           Named(ary, name) = Known(K, Len(K)),
           NEW s \in DOMAIN ary, NEW f, LongestEnd(ary, name, f, s),
           NEW q \in Seq(Nat), CountsSame(q, name[s], K),
           NEW p \in Seq(Nat), CountsEnding(p, name[f], K)
    PROVE  CountsEnding(Both(q, p), name[s], K)
<1> DEFINE n == Len(K)
<1>1. n \in Nat /\ \A i \in 1..n : K[i] \in Text
  OBVIOUS
<1>2. f \in DOMAIN ary /\ Ends(name[f], name[s]) /\ Len(name[f]) < Len(name[s])
  BY LongestEndIsShallower DEF LongestEnd
<1>3. name[f] \in Text /\ name[s] \in Text /\ Len(name[s]) \in Nat /\ Len(name[f]) \in Nat
  BY <1>2, TreeFacts
<1>4. ASSUME NEW i \in 1..n
      PROVE  /\ Ends(K[i], name[s]) <=> K[i] = name[s] \/ Ends(K[i], name[f])
             /\ ~(K[i] = name[s] /\ Ends(K[i], name[f]))
  <2>1. PICK t \in DOMAIN ary : name[t] = K[i]
    BY KeywordsAreNamed
  <2>2. K[i] \in Text
    BY <1>1
  <2>3. ASSUME Ends(K[i], name[s]), K[i] # name[s] PROVE Ends(K[i], name[f])
    <3>1. t \in DOMAIN ary \ {s} /\ Ends(name[t], name[s])
      BY <2>1, <2>3
    <3> QED
      BY <2>1, <3>1 DEF LongestEnd
  <2>4. Ends(name[s], name[s])
    BY <1>3, EndsBasic
  <2>5. Ends(K[i], name[f]) => Ends(K[i], name[s])
    BY <1>2, <1>3, <2>2, EndsTransitive
  <2>6. ~Ends(name[s], name[f])
    BY <1>2, <1>3, EndsShorter
  <2> QED
    BY <2>3, <2>4, <2>5, <2>6
<1> SUFFICES ASSUME NEW x
             PROVE  Count(Both(q, p), x) = Cardinality(Ending(K, n, name[s], x))
  BY DEF CountsEnding
<1> DEFINE A == Same(K, n, name[s], x)
           B == Ending(K, n, name[f], x)
           C == Ending(K, n, name[s], x)
<1>5. C = A \cup B /\ A \cap B = {}
  <2>1. \A i \in 1..n : /\ i \in C <=> Ends(K[i], name[s]) /\ NodesOnPath(K[i]) = x
                        /\ i \in A <=> K[i] = name[s] /\ NodesOnPath(K[i]) = x
                        /\ i \in B <=> Ends(K[i], name[f]) /\ NodesOnPath(K[i]) = x
    BY DEF Same, Ending
  <2>2. A \subseteq 1..n /\ B \subseteq 1..n /\ C \subseteq 1..n
    BY DEF Same, Ending
  <2> HIDE DEF A, B, C, n
  <2>3. \A i \in 1..n : (i \in C <=> i \in A \/ i \in B) /\ ~(i \in A /\ i \in B)
    BY <1>4, <2>1
  <2> QED
    BY <2>2, <2>3
<1>6. IsFiniteSet(A) /\ IsFiniteSet(B) /\ Cardinality(A) \in Nat /\ Cardinality(B) \in Nat
  BY <1>1, SameIsFinite
<1>7. Count(q, x) = Cardinality(A) /\ Count(p, x) = Cardinality(B)
  BY DEF CountsSame, CountsEnding
<1>8. Count(Both(q, p), x) = Count(q, x) + Count(p, x)
  BY CountConcat DEF Both
<1> HIDE DEF A, B, C
<1>9. Cardinality(C) = Cardinality(A) + Cardinality(B) - Cardinality({})
  BY <1>5, <1>6, FS_Union
<1>10. Cardinality(C) = Cardinality(A) + Cardinality(B)
  BY <1>6, <1>9, FS_EmptySet
<1> QED
  BY <1>7, <1>8, <1>10 DEF C

(* ------------------------------------------------------------------------ *)
(* construct_failure                                                          *)

\* The two halves of FailureRow.
NewFailure(g, r) ==
    [s \in DOMAIN g.ary |->
        IF \E c \in {d \in Char : g.ary[r][d] \notin {0, FAIL}} : g.ary[r][c] = s
        THEN LET c == CHOOSE c \in {d \in Char : g.ary[r][d] \notin {0, FAIL}} : g.ary[r][c] = s
             IN  g.ary[Fallback(g, c)[g.failure[r]]][c]
        ELSE g.failure[s]]

NewOutput(g, r) ==
    [s \in DOMAIN g.output |->
        IF \E c \in {d \in Char : g.ary[r][d] \notin {0, FAIL}} : g.ary[r][c] = s
        THEN g.output[s] \o g.output[NewFailure(g, r)[s]] ELSE g.output[s]]

LEMMA FailureRowFields ==
    ASSUME NEW g, IsAutomaton(g), NEW r
    PROVE  /\ IsAutomaton(FailureRow(g, r))
           /\ FailureRow(g, r).ary = g.ary
           /\ FailureRow(g, r).failure = NewFailure(g, r)
           /\ FailureRow(g, r).output = NewOutput(g, r)
<1>1. FailureRow(g, r) = [g EXCEPT !.failure = NewFailure(g, r), !.output = NewOutput(g, r)]
  BY DEF FailureRow, NewFailure, NewOutput
<1> DEFINE h == FailureRow(g, r)
<1> HIDE DEF h
<1>2. h = [ary |-> g.ary, output |-> NewOutput(g, r), max_node_count |-> g.max_node_count,
           failure |-> NewFailure(g, r), delta |-> g.delta]
  BY <1>1 DEF IsAutomaton, h
<1>3. IsAutomaton(h) /\ h.ary = g.ary /\ h.failure = NewFailure(g, r) /\ h.output = NewOutput(g, r)
  BY <1>2 DEF IsAutomaton
<1> QED
  BY <1>3 DEF h

LEMMA NewFailureOfChild ==
    ASSUME NEW g, NEW name, Tree(g.ary, name), NEW r \in DOMAIN g.ary, NEW c \in Char,
           g.ary[r][c] \notin {0, FAIL}
    PROVE  NewFailure(g, r)[g.ary[r][c]] = g.ary[Fallback(g, c)[g.failure[r]]][c]
<1> DEFINE s == g.ary[r][c]
           reached == {d \in Char : g.ary[r][d] \notin {0, FAIL}}
           e == CHOOSE d \in reached : g.ary[r][d] = s
<1>1. s \in DOMAIN g.ary
  BY TreeChild
<1>2. c \in reached /\ g.ary[r][c] = s
  OBVIOUS
<1>3. e \in reached /\ g.ary[r][e] = s
  <2> HIDE DEF reached, s
  <2> QED
    BY <1>2
<1>4. e = c
  <2>1. e \in Char /\ g.ary[r][e] = g.ary[r][c]
    BY <1>3
  <2> HIDE DEF e
  <2> QED
    BY <2>1, OneParent
<1>5. NewFailure(g, r)[s] = g.ary[Fallback(g, e)[g.failure[r]]][e]
  <2>1. \E d \in reached : g.ary[r][d] = s
    BY <1>2
  <2> QED
    BY <1>1, <2>1 DEF NewFailure
<1> HIDE DEF e
<1> QED
  BY <1>4, <1>5

LEMMA NewFailureElsewhere ==
    ASSUME NEW g, NEW r, NEW s \in DOMAIN g.ary, s \notin Children(g.ary, r)
    PROVE  NewFailure(g, r)[s] = g.failure[s]
<1>1. ~\E c \in {d \in Char : g.ary[r][d] \notin {0, FAIL}} : g.ary[r][c] = s
  BY DEF Children
<1> QED
  BY <1>1 DEF NewFailure

LEMMA NewOutputIs ==
    ASSUME NEW g, NEW r, NEW s \in DOMAIN g.output
    PROVE  NewOutput(g, r)[s] = IF s \in Children(g.ary, r)
                                THEN Both(g.output[s], g.output[NewFailure(g, r)[s]])
                                ELSE g.output[s]
<1>1. (\E c \in {d \in Char : g.ary[r][d] \notin {0, FAIL}} : g.ary[r][c] = s)
        <=> s \in Children(g.ary, r)
  BY DEF Children
<1> QED
  BY <1>1 DEF NewOutput, Both

\* While construct_failure is at work: the states that were enqueued have their
\* failure transitions and count every keyword that ends their texts.
FailureAs(g, name, P, q, K) ==
    /\ IsAutomaton(g) /\ Tree(g.ary, name) /\ Closed(g.ary)
    /\ Named(g.ary, name) = Known(K, Len(K))
    /\ Walking(g.ary, name, P, q)
    /\ FailureRight(g, name, P \cup ToSet(q))
    /\ g.output \in [DOMAIN g.ary -> Seq(Nat)]
    /\ \A s \in P \cup ToSet(q) \cup {0} : CountsEnding(g.output[s], name[s], K)
    /\ \A s \in DOMAIN g.ary \ (P \cup ToSet(q) \cup {0}) : CountsSame(g.output[s], name[s], K)

\* The states that were enqueued after a turn.
LEMMA EnqueuedNext ==
    ASSUME NEW g, NEW name, Tree(g.ary, name), NEW q \in Seq(DOMAIN g.ary \ {0}), q # <<>>, NEW P
    PROVE  (P \cup {Head(q)}) \cup ToSet(Tail(q) \o Successors(g, Head(q)))
             = (P \cup ToSet(q)) \cup Children(g.ary, Head(q))
<1> DEFINE D == DOMAIN g.ary
           z == Successors(g, Head(q))
           p == Tail(q) \o z
<1>1. Head(q) \in D
  OBVIOUS
<1>2. z \in Seq(D \ {0}) /\ ToSet(z) = Children(g.ary, Head(q))
  BY <1>1, SuccessorsAreChildren
<1> HIDE DEF z
<1>3. /\ p \in Seq(D \ {0})
      /\ Head(q) = q[1] /\ Len(q) \in Nat /\ 1 \in 1..Len(q)
      /\ Len(z) \in Nat /\ Len(p) = Len(q) - 1 + Len(z)
      /\ \A i \in 1..Len(p) :
            \/ i < Len(q) /\ i + 1 \in 1..Len(q) /\ p[i] = q[i + 1]
            \/ i >= Len(q) /\ i - (Len(q) - 1) \in 1..Len(z) /\ p[i] = z[i - (Len(q) - 1)]
      /\ \A i \in 2..Len(q) : i - 1 \in 1..Len(p) /\ p[i - 1] = q[i]
      /\ \A i \in 1..Len(z) : i + (Len(q) - 1) \in 1..Len(p) /\ p[i + (Len(q) - 1)] = z[i]
  BY <1>2, NextQueue
<1> HIDE DEF p
<1>4. DOMAIN p = 1..Len(p) /\ DOMAIN q = 1..Len(q) /\ DOMAIN z = 1..Len(z)
  BY <1>2, <1>3
<1>5. ToSet(p) \subseteq ToSet(q) \cup ToSet(z)
  BY <1>3, <1>4 DEF ToSet
<1>6. ASSUME NEW s \in ToSet(q) PROVE s \in {Head(q)} \cup ToSet(p)
  <2>1. PICK i \in 1..Len(q) : s = q[i]
    BY <1>4 DEF ToSet
  <2>2. CASE i = 1
    BY <1>3, <2>1, <2>2
  <2>3. CASE i # 1
    <3>1. i \in 2..Len(q)
      BY <1>3, <2>3
    <3>2. i - 1 \in 1..Len(p) /\ p[i - 1] = s
      BY <1>3, <2>1, <3>1
    <3> QED
      BY <1>4, <3>2 DEF ToSet
  <2> QED
    BY <2>2, <2>3
<1>7. ASSUME NEW s \in ToSet(z) PROVE s \in ToSet(p)
  <2>1. PICK i \in 1..Len(z) : s = z[i]
    BY <1>4 DEF ToSet
  <2>2. i + (Len(q) - 1) \in 1..Len(p) /\ p[i + (Len(q) - 1)] = s
    BY <1>3, <2>1
  <2> QED
    BY <1>4, <2>2 DEF ToSet
<1>8. Head(q) \in ToSet(q)
  BY <1>3, <1>4 DEF ToSet
<1>9. (P \cup {Head(q)}) \cup ToSet(p) = (P \cup ToSet(q)) \cup ToSet(z)
  BY <1>5, <1>6, <1>7, <1>8
<1> QED
  BY <1>2, <1>9 DEF p, z

\* A failure transition leads to a state that was enqueued.
LEMMA FailureEnqueued ==
    ASSUME NEW g, NEW name, Tree(g.ary, name), NEW P, NEW q, Walking(g.ary, name, P, q), q # <<>>,
           NEW s \in P \cup ToSet(q) \cup Children(g.ary, Head(q)),
           NEW f, LongestEnd(g.ary, name, f, s)
    PROVE  f \in P \cup ToSet(q) \cup {0}
<1> DEFINE D == DOMAIN g.ary
           depth(t) == Len(name[t])
<1>1. /\ q \in Seq(D \ {0}) /\ P \subseteq D \ {0}
      /\ \A i, j \in 1..Len(q) : depth(q[i]) <= depth(q[j]) + 1
      /\ \A t \in P, i \in 1..Len(q) : depth(t) <= depth(q[i])
  BY DEF Walking
<1>2. /\ Head(q) = q[1] /\ 1 \in 1..Len(q) /\ Head(q) \in D /\ DOMAIN q = 1..Len(q)
  BY <1>1
<1>3. \A t \in D : depth(t) \in Nat
  BY TreeFacts
<1>4. s \in D /\ depth(s) <= depth(Head(q)) + 1
  <2>1. CASE s \in P
    BY <1>1, <1>2, <1>3, <2>1
  <2>2. CASE s \in ToSet(q)
    <3>1. PICK i \in 1..Len(q) : s = q[i]
      BY <1>2, <2>2 DEF ToSet
    <3>2. s \in D
      BY <1>1, <3>1
    <3> QED
      BY <1>1, <1>2, <3>1, <3>2
  <2>3. CASE s \in Children(g.ary, Head(q))
    <3>1. s \in D /\ depth(s) = depth(Head(q)) + 1
      BY <1>2, <2>3, ChildrenFacts
    <3> QED
      BY <1>2, <1>3, <3>1
  <2> QED
    BY <2>1, <2>2, <2>3
<1>5. f \in D /\ depth(f) < depth(s)
  BY <1>4, LongestEndIsShallower
<1>6. depth(f) <= depth(Head(q))
  BY <1>2, <1>3, <1>4, <1>5
<1> QED
  BY <1>5, <1>6, AsShallowEnqueued

LEMMA FailureTurnKeeps ==
    ASSUME NEW K \in Seq(Text), NEW g, NEW name, NEW P, NEW q, FailureAs(g, name, P, q, K),
           q # <<>>
    PROVE  FailureAs(FailureRow(g, Head(q)), name, P \cup {Head(q)},
                     Tail(q) \o Successors(g, Head(q)), K)
<1> DEFINE r == Head(q)
           D == DOMAIN g.ary
           S == P \cup ToSet(q)
           T == S \cup Children(g.ary, r)
           p == Tail(q) \o Successors(g, r)
           h == FailureRow(g, r)
<1>1. /\ IsAutomaton(g) /\ Tree(g.ary, name) /\ Closed(g.ary)
      /\ Named(g.ary, name) = Known(K, Len(K))
      /\ Walking(g.ary, name, P, q)
      /\ FailureRight(g, name, S)
      /\ g.output \in [D -> Seq(Nat)]
      /\ \A s \in S \cup {0} : CountsEnding(g.output[s], name[s], K)
      /\ \A s \in D \ (S \cup {0}) : CountsSame(g.output[s], name[s], K)
  BY DEF FailureAs
<1>2. /\ q \in Seq(D \ {0}) /\ P \subseteq D \ {0}
      /\ \A s, t \in D : t \in Children(g.ary, s) => (t \in S <=> s \in P \cup {0})
      /\ \A s \in ToSet(q) : s \notin P
  BY <1>1 DEF Walking
<1>3. r \in D /\ r \in ToSet(q) /\ r # 0 /\ ToSet(q) \subseteq D \ {0}
  <2>1. r = q[1] /\ 1 \in DOMAIN q /\ \A i \in DOMAIN q : q[i] \in D \ {0}
    BY <1>2
  <2> QED
    BY <2>1 DEF ToSet
<1>4. (P \cup {r}) \cup ToSet(p) = T
  BY <1>1, <1>2, EnqueuedNext
<1>5. /\ IsAutomaton(h) /\ h.ary = g.ary
      /\ h.failure = NewFailure(g, r) /\ h.output = NewOutput(g, r)
  BY <1>1, FailureRowFields
<1>6. Walking(g.ary, name, P \cup {r}, p)
  BY <1>1, WalkContinues
<1>7. /\ g.failure \in [D -> D]
      /\ \A s \in S : LongestEnd(g.ary, name, g.failure[s], s)
      /\ \A s \in D \ S : g.failure[s] = 0
  BY <1>1 DEF FailureRight
<1> HIDE DEF p, h, r
<1>8. \A s \in S : g.failure[s] \in S \cup {0}
  BY <1>1, <1>7, FailureEnqueued
<1>9. ASSUME NEW s \in Children(g.ary, r)
      PROVE  /\ s \in D /\ s # 0 /\ s \notin S
             /\ LongestEnd(g.ary, name, NewFailure(g, r)[s], s)
             /\ NewFailure(g, r)[s] \in D
             /\ NewFailure(g, r)[s] \in S \cup {0}
  <2>1. s \in D /\ s # 0
    BY <1>1, <1>3, ChildrenFacts
  <2>2. s \notin S
    BY <1>2, <1>3, <2>1
  <2>3. PICK c \in Char : s = g.ary[r][c] /\ g.ary[r][c] \notin {0, FAIL}
    BY DEF Children
  <2> DEFINE f == g.failure[r]
             land == Fallback(g, c)[f]
  <2>4. f \in S \cup {0} /\ LongestEnd(g.ary, name, f, r)
    BY <1>3, <1>7, <1>8
  <2>5. S \subseteq D \ {0}
    BY <1>2, <1>3
  <2>6. Landing(g.ary, name, c, f, land)
    <3> HIDE DEF S, f
    <3> QED
      BY <1>1, <1>8, <2>4, <2>5, FallbackLands
  <2>7. LongestEnd(g.ary, name, g.ary[land][c], s)
    <3> HIDE DEF land, f
    <3>1. LongestEnd(g.ary, name, g.ary[land][c], g.ary[r][c])
      BY <1>1, <1>3, <2>3, <2>4, <2>6, FailureOfChild
    <3> QED
      BY <2>3, <3>1
  <2>8. NewFailure(g, r)[s] = g.ary[land][c]
    <3>1. NewFailure(g, r)[g.ary[r][c]] = g.ary[Fallback(g, c)[g.failure[r]]][c]
      <4>1. Tree(g.ary, name) /\ r \in DOMAIN g.ary /\ g.ary[r][c] \notin {0, FAIL}
        BY <1>1, <1>3, <2>3
      <4> QED
        BY <4>1, NewFailureOfChild, Zenon
    <3> QED
      BY <2>3, <3>1
  <2> HIDE DEF land, f
  <2>9. LongestEnd(g.ary, name, NewFailure(g, r)[s], s)
    BY <2>7, <2>8
  <2>10. NewFailure(g, r)[s] \in S \cup {0}
    BY <1>1, <2>9, FailureEnqueued DEF r
  <2> QED
    BY <2>1, <2>2, <2>9, <2>10 DEF LongestEnd
<1>10. \A s \in D : s \notin Children(g.ary, r) => NewFailure(g, r)[s] = g.failure[s]
  BY NewFailureElsewhere
<1>11. FailureRight(h, name, T)
  <2>1. NewFailure(g, r) \in [D -> D]
    <3>1. IsFunction(NewFailure(g, r)) /\ DOMAIN NewFailure(g, r) = D
      BY DEF NewFailure, IsFunction
    <3>2. \A s \in D : NewFailure(g, r)[s] \in D
      BY <1>7, <1>9, <1>10
    <3> QED
      BY <3>1, <3>2 DEF IsFunction
  <2>2. \A s \in T : LongestEnd(g.ary, name, NewFailure(g, r)[s], s)
    <3> TAKE s \in T
    <3>1. CASE s \in Children(g.ary, r)
      BY <1>9, <3>1
    <3>2. CASE s \notin Children(g.ary, r)
      <4>1. s \in S /\ s \in D
        BY <1>2, <1>3, <3>2
      <4> QED
        BY <1>7, <1>10, <3>2, <4>1
    <3> QED
      BY <3>1, <3>2
  <2>3. \A s \in D \ T : NewFailure(g, r)[s] = 0
    BY <1>7, <1>10
  <2> QED
    BY <1>5, <2>1, <2>2, <2>3 DEF FailureRight
<1>12. ASSUME NEW s \in D
       PROVE  NewOutput(g, r)[s] = IF s \in Children(g.ary, r)
                                   THEN Both(g.output[s], g.output[NewFailure(g, r)[s]])
                                   ELSE g.output[s]
  <2>1. s \in DOMAIN g.output
    BY <1>1
  <2> QED
    BY <2>1, NewOutputIs
<1>13. h.output \in [D -> Seq(Nat)]
  <2>1. IsFunction(NewOutput(g, r)) /\ DOMAIN NewOutput(g, r) = D
    BY <1>1 DEF NewOutput, IsFunction
  <2>2. ASSUME NEW s \in D PROVE NewOutput(g, r)[s] \in Seq(Nat)
    <3>1. \A t \in D : g.output[t] \in Seq(Nat)
      BY <1>1
    <3>2. s \in Children(g.ary, r)
            => Both(g.output[s], g.output[NewFailure(g, r)[s]]) \in Seq(Nat)
      BY <1>9, <3>1 DEF Both
    <3> QED
      BY <1>12, <3>1, <3>2
  <2> QED
    BY <1>5, <2>1, <2>2 DEF IsFunction
<1>14. ASSUME NEW s \in T \cup {0} PROVE CountsEnding(h.output[s], name[s], K)
  <2>1. CASE s \in Children(g.ary, r)
    <3> DEFINE k == NewFailure(g, r)[s]
    <3>1. /\ s \in D \ (S \cup {0}) /\ LongestEnd(g.ary, name, k, s) /\ k \in D /\ k \in S \cup {0}
      BY <1>9, <2>1
    <3> HIDE DEF k
    <3>2. CountsSame(g.output[s], name[s], K) /\ CountsEnding(g.output[k], name[k], K)
      BY <1>1, <3>1
    <3>3. g.output[s] \in Seq(Nat) /\ g.output[k] \in Seq(Nat) /\ s \in D
      BY <1>1, <3>1
    <3>4. CountsEnding(Both(g.output[s], g.output[k]), name[s], K)
      BY <1>1, <3>1, <3>2, <3>3, InheritOutputs
    <3> QED
      BY <1>5, <1>12, <2>1, <3>1, <3>4 DEF k
  <2>2. CASE s \notin Children(g.ary, r)
    <3>1. s \in S \cup {0} /\ s \in D
      BY <1>1, <1>2, <1>3, <2>2, TreeFacts
    <3> QED
      BY <1>1, <1>5, <1>12, <2>2, <3>1
  <2> QED
    BY <2>1, <2>2
<1>15. ASSUME NEW s \in D \ (T \cup {0}) PROVE CountsSame(h.output[s], name[s], K)
  BY <1>1, <1>5, <1>12
<1>16. FailureAs(h, name, P \cup {r}, p, K)
  BY <1>1, <1>4, <1>5, <1>6, <1>11, <1>13, <1>14, <1>15 DEF FailureAs
<1> QED
  BY <1>16 DEF h, p, r

LEMMA CloseRootFields ==
    ASSUME NEW g, NEW name, IsAutomaton(g), Tree(g.ary, name), Growing(g.ary)
    PROVE  /\ IsAutomaton(CloseRoot(g)) /\ Tree(CloseRoot(g).ary, name) /\ Closed(CloseRoot(g).ary)
           /\ DOMAIN CloseRoot(g).ary = DOMAIN g.ary
           /\ CloseRoot(g).output = g.output
<1> DEFINE D == DOMAIN g.ary
           h == CloseRoot(g)
           root == [c \in Char |-> IF g.ary[0][c] = FAIL THEN 0 ELSE g.ary[0][c]]
           rows == [g.ary EXCEPT ![0] = root]
<1>1. h = [g EXCEPT !.ary = rows]
  BY DEF CloseRoot, IsAutomaton
<1>2. IsAutomaton(h) /\ h.ary = rows /\ h.output = g.output
  <2> HIDE DEF rows, h
  <2> QED
    BY <1>1, SetAry
<1>3. /\ \E n \in Nat : D = 0..n
      /\ g.ary \in [D -> [Char -> D \cup {FAIL}]]
      /\ name \in [D -> Text]
      /\ name[0] = <<>>
      /\ \A s, t \in D : name[s] = name[t] => s = t
      /\ \A s \in D, c \in Char, t \in D \ {0} :
            g.ary[s][c] = t <=> name[t] = Append(name[s], c)
      /\ \A t \in D \ {0} : \E s \in D, c \in Char : name[t] = Append(name[s], c)
  BY DEF Tree, TreeOver
<1>4. 0 \in D /\ \A s \in D : s \in Nat /\ s # FAIL
  BY TreeFacts
<1>5. root \in [Char -> D \cup {FAIL}]
  BY <1>3, <1>4
<1>6. rows \in [D -> [Char -> D \cup {FAIL}]] /\ DOMAIN rows = D
  <2> HIDE DEF root
  <2> QED
    BY <1>3, <1>4, <1>5
<1>7. ASSUME NEW s \in D, NEW c \in Char
      PROVE  rows[s][c] = IF s = 0 /\ g.ary[s][c] = FAIL THEN 0 ELSE g.ary[s][c]
  <2>1. CASE s = 0
    <3>1. rows[s] = root
      BY <1>3, <1>4, <2>1
    <3> QED
      BY <2>1, <3>1
  <2>2. CASE s # 0
    BY <1>3, <2>2
  <2> QED
    BY <2>1, <2>2
<1> HIDE DEF rows, root, h
<1>8. ASSUME NEW s \in D, NEW c \in Char, NEW t \in D \ {0}
      PROVE  rows[s][c] = t <=> name[t] = Append(name[s], c)
  <2>1. g.ary[s][c] = t <=> name[t] = Append(name[s], c)
    BY TreeEdge
  <2> QED
    BY <1>4, <1>7, <2>1
<1>9. TreeOver(D, rows, name)
  BY <1>3, <1>6, <1>8 DEF TreeOver
<1>10. Tree(rows, name)
  BY <1>6, <1>9 DEF Tree
<1>11. Closed(rows)
  <2> SUFFICES ASSUME NEW s \in D, NEW c \in Char
               PROVE  /\ rows[s][c] = 0 => s = 0
                      /\ s = 0 => rows[s][c] # FAIL
    BY <1>6 DEF Closed
  <2>1. g.ary[s][c] # FAIL => g.ary[s][c] > s
    BY DEF Growing
  <2>2. g.ary[s][c] # 0
    BY <1>4, <2>1 DEF FAIL
  <2> QED
    BY <1>4, <1>7, <2>2 DEF FAIL
<1> QED
  BY <1>2, <1>6, <1>10, <1>11 DEF h

LEMMA StartFailureFields ==
    ASSUME NEW g, IsAutomaton(g)
    PROVE  /\ IsAutomaton(StartFailure(g)) /\ StartFailure(g).ary = g.ary
           /\ StartFailure(g).output = g.output
           /\ StartFailure(g).failure = [s \in DOMAIN g.ary |-> 0]
<1> DEFINE h == StartFailure(g)
           none == [s \in DOMAIN g.ary |-> 0]
<1>1. h = [g EXCEPT !.failure = none]
  BY DEF StartFailure
<1> HIDE DEF h, none
<1>2. h = [ary |-> g.ary, output |-> g.output, max_node_count |-> g.max_node_count,
           failure |-> none, delta |-> g.delta]
  BY <1>1 DEF IsAutomaton
<1>3. IsAutomaton(h) /\ h.ary = g.ary /\ h.output = g.output /\ h.failure = none
  BY <1>2 DEF IsAutomaton
<1> QED
  BY <1>3 DEF h, none

\* An empty keyword is the only keyword.
AloneIfEmpty(K) == \A i \in 1..Len(K) : K[i] = <<>> => Len(K) = 1

\* Outputs before construct_failure inherits any.
LEMMA ShallowOutputs ==
    ASSUME NEW ary, NEW name, Tree(ary, name), NEW K \in Seq(Text),
           Named(ary, name) = Known(K, Len(K)), AloneIfEmpty(K),
           NEW s \in DOMAIN ary, Len(name[s]) <= 1,
           NEW q, CountsSame(q, name[s], K)
    PROVE  CountsEnding(q, name[s], K)
<1> SUFFICES ASSUME NEW x
             PROVE  Count(q, x) = Cardinality(Ending(K, Len(K), name[s], x))
  BY DEF CountsEnding
<1>1. /\ Len(K) \in Nat /\ \A i \in 1..Len(K) : K[i] \in Text
  OBVIOUS
<1>2. name[s] \in Text /\ Len(name[s]) \in Nat
  BY TreeFacts
<1>3. ASSUME NEW i \in 1..Len(K), Ends(K[i], name[s]), K[i] # name[s]
      PROVE  FALSE
  <2>1. Len(K[i]) < Len(name[s]) /\ Len(K[i]) \in Nat /\ K[i] \in Text
    BY <1>1, <1>2, <1>3, EndsShorter DEF Text
  <2>2. Len(K[i]) = 0
    BY <1>2, <2>1
  <2>3. K[i] = <<>>
    BY <2>1, <2>2 DEF Text
  <2>4. Len(K) = 1
    BY <2>3 DEF AloneIfEmpty
  <2>5. Known(K, Len(K)) = {<<>>}
    <3>1. i = 1 /\ 1..Len(K) = {1}
      BY <2>4
    <3>2. Known(K, Len(K)) = Prefixes(K[1]) \cup {<<>>}
      BY <3>1 DEF Known
    <3> QED
      BY <2>3, <3>1, <3>2, PrefixesOfNothing
  <2>6. name[s] = <<>>
    BY <2>5 DEF Named
  <2> QED
    BY <1>3, <2>3, <2>6
<1>4. \A i \in 1..Len(K) : Ends(K[i], name[s]) <=> K[i] = name[s]
  BY <1>2, <1>3, EndsBasic
<1>5. Ending(K, Len(K), name[s], x) = Same(K, Len(K), name[s], x)
  BY <1>4 DEF Ending, Same
<1> QED
  BY <1>5 DEF CountsSame

LEMMA FailureBegins ==
    ASSUME NEW K \in Seq(Text), AloneIfEmpty(K), NEW g, Entered(g, K, Len(K))
    PROVE  \E name, P : FailureAs(StartFailure(CloseRoot(g)), name, P,
                                  Successors(CloseRoot(g), 0), K)
<1>1. PICK name : EnteredAs(g, name, K, Len(K))
  BY DEF Entered
<1> DEFINE D == DOMAIN g.ary
           closed == CloseRoot(g)
           h == StartFailure(closed)
           q == Successors(closed, 0)
<1>2. /\ IsAutomaton(g) /\ Tree(g.ary, name) /\ Growing(g.ary)
      /\ g.output \in [D -> Seq(Nat)]
      /\ Named(g.ary, name) = Known(K, Len(K))
      /\ \A s \in D : \A x : Count(g.output[s], x) = Cardinality(Same(K, Len(K), name[s], x))
  BY <1>1 DEF EnteredAs
<1>3. /\ IsAutomaton(closed) /\ Tree(closed.ary, name) /\ Closed(closed.ary)
      /\ DOMAIN closed.ary = D /\ closed.output = g.output
  BY <1>2, CloseRootFields
<1> HIDE DEF closed
<1>4. /\ IsAutomaton(h) /\ h.ary = closed.ary /\ h.output = g.output
      /\ h.failure = [s \in D |-> 0]
  BY <1>3, StartFailureFields
<1>5. Walking(h.ary, name, {}, q)
  BY <1>3, <1>4, WalkBegins
<1>6. 0 \in D /\ name[0] = <<>> /\ Len(name[0]) = 0 /\ \A s \in D : name[s] \in Text /\ Len(name[s]) \in Nat
  BY <1>2, TreeFacts
<1>7. q \in Seq(D \ {0}) /\ ToSet(q) = Children(closed.ary, 0)
  BY <1>3, <1>6, SuccessorsAreChildren
<1> HIDE DEF q, h
<1>8. ASSUME NEW s \in ToSet(q) PROVE s \in D /\ s # 0 /\ Len(name[s]) = 1
  <2>1. s \in Children(closed.ary, 0) /\ 0 \in DOMAIN closed.ary
    BY <1>3, <1>6, <1>7
  <2>2. s \in DOMAIN closed.ary /\ s # 0 /\ Len(name[s]) = Len(name[0]) + 1
    BY <1>3, <2>1, ChildrenFacts
  <2> QED
    BY <1>3, <1>6, <2>2
<1>9. Named(h.ary, name) = Known(K, Len(K))
  BY <1>2, <1>3, <1>4 DEF Named
<1>10. \A s \in D : CountsSame(h.output[s], name[s], K)
  BY <1>2, <1>4 DEF CountsSame
<1>11. FailureRight(h, name, ToSet(q))
  <2>1. h.failure \in [DOMAIN h.ary -> DOMAIN h.ary]
    BY <1>3, <1>4, <1>6
  <2>2. ASSUME NEW s \in ToSet(q) PROVE LongestEnd(h.ary, name, h.failure[s], s)
    <3>1. s \in D /\ s # 0 /\ h.failure[s] = 0 /\ name[s] \in Text
      BY <1>4, <1>6, <1>8
    <3>2. ASSUME NEW t \in D \ {s}, Ends(name[t], name[s]) PROVE Ends(name[t], name[0])
      <4>1. name[t] # name[s] /\ name[t] \in Text /\ Len(name[t]) \in Nat
        BY <1>2, <1>6, <3>1, TreeFacts
      <4>2. Len(name[t]) < 1
        BY <1>8, <3>1, <3>2, <4>1, EndsShorter
      <4>3. name[t] = <<>>
        BY <4>1, <4>2 DEF Text
      <4> QED
        BY <1>6, <4>3, EndsBasic
    <3>3. Ends(name[0], name[s])
      BY <1>6, <3>1, EndsBasic
    <3> QED
      BY <1>3, <1>4, <1>6, <3>1, <3>2, <3>3 DEF LongestEnd
  <2>3. \A s \in DOMAIN h.ary : h.failure[s] = 0
    BY <1>3, <1>4
  <2> QED
    BY <2>1, <2>2, <2>3 DEF FailureRight
<1>12. ASSUME NEW s \in ToSet(q) \cup {0} PROVE CountsEnding(h.output[s], name[s], K)
  <2>1. s \in D /\ Len(name[s]) <= 1
    <3>1. CASE s \in ToSet(q)
      <4>1. s \in D /\ Len(name[s]) = 1
        BY <1>8, <3>1, Zenon
      <4> QED
        BY <4>1
    <3>2. CASE s = 0
      BY <1>6, <3>2
    <3> QED
      BY <3>1, <3>2
  <2> QED
    BY <1>2, <1>10, <2>1, ShallowOutputs
<1>13. FailureAs(h, name, {}, q, K)
  <2>1. {} \cup ToSet(q) = ToSet(q)
    OBVIOUS
  <2> QED
    BY <2>1, <1>2, <1>3, <1>4, <1>5, <1>9, <1>10, <1>11, <1>12 DEF FailureAs
<1> QED
  BY <1>13 DEF h, q, closed

(* ------------------------------------------------------------------------ *)
(* construct_delta                                                            *)

\* h is the state of the longest text that ends the text of s with c behind it.
Arrives(ary, name, c, s, h) ==
    /\ h \in DOMAIN ary
    /\ Ends(name[h], Append(name[s], c))
    /\ \A t \in DOMAIN ary : Ends(name[t], Append(name[s], c)) => Ends(name[t], name[h])

\* While construct_delta is at work.
DeltaAs(g, name, P, q, K) ==
    /\ IsAutomaton(g) /\ Tree(g.ary, name) /\ Closed(g.ary)
    /\ Named(g.ary, name) = Known(K, Len(K))
    /\ Walking(g.ary, name, P, q)
    /\ \A s \in DOMAIN g.ary \ {0} : LongestEnd(g.ary, name, g.failure[s], s)
    /\ \A s \in DOMAIN g.ary : CountsEnding(g.output[s], name[s], K)
    /\ g.delta \in [DOMAIN g.ary -> [Char -> DOMAIN g.ary]]
    /\ \A s \in P \cup {0}, c \in Char : Arrives(g.ary, name, c, s, g.delta[s][c])

LEMMA ArrivesByEdge ==
    ASSUME NEW ary, NEW name, Tree(ary, name), Closed(ary), NEW s \in DOMAIN ary, NEW c \in Char,
           ary[s][c] # FAIL
    PROVE  Arrives(ary, name, c, s, ary[s][c])
<1> DEFINE D == DOMAIN ary
           k == ary[s][c]
<1>1. \A t \in D : name[t] \in Text
  BY TreeFacts
<1>2. Append(name[s], c) \in Text
  BY <1>1, EndsAppend
<1>3. CASE k # 0
  <2>1. k \in D /\ name[k] = Append(name[s], c)
    BY <1>3, TreeChild
  <2> HIDE DEF k
  <2> QED
    BY <1>2, <2>1, EndsBasic DEF Arrives, k
<1>4. CASE k = 0
  <2>1. s = 0 /\ 0 \in D /\ name[0] = <<>>
    BY <1>4, TreeFacts DEF Closed
  <2>2. Ends(name[0], Append(name[s], c))
    BY <1>2, <2>1, EndsBasic
  <2>3. ASSUME NEW t \in D, Ends(name[t], Append(name[s], c)) PROVE Ends(name[t], name[0])
    <3>1. t = 0
      <4> SUFFICES ASSUME t # 0 PROVE FALSE
        OBVIOUS
      <4>1. PICK p \in D, d \in Char : ary[p][d] = t /\ name[t] = Append(name[p], d)
        BY TreeParent
      <4>2. d = c /\ Ends(name[p], name[s])
        BY <1>1, <2>3, <4>1, EndsAppend
      <4>3. name[p] = <<>>
        BY <1>1, <2>1, <4>2, EndsNothing
      <4>4. p = 0
        BY <2>1, <4>3, TreeFacts
      <4> QED
        BY <1>4, <2>1, <4>1, <4>2, <4>4
    <3> QED
      BY <1>1, <2>1, <3>1, EndsBasic
  <2> QED
    BY <1>4, <2>1, <2>2, <2>3 DEF Arrives
<1> QED
  BY <1>3, <1>4

LEMMA ArrivesByFailure ==
    ASSUME NEW ary, NEW name, Tree(ary, name), NEW s \in DOMAIN ary, NEW c \in Char,
           ary[s][c] = FAIL, NEW f, LongestEnd(ary, name, f, s),
           NEW h, Arrives(ary, name, c, f, h)
    PROVE  Arrives(ary, name, c, s, h)
<1> DEFINE D == DOMAIN ary
<1>1. \A t \in D : name[t] \in Text
  BY TreeFacts
<1>2. f \in D /\ h \in D /\ Ends(name[f], name[s]) /\ Ends(name[h], Append(name[f], c))
  BY DEF LongestEnd, Arrives
<1>3. /\ Append(name[s], c) \in Text /\ Append(name[f], c) \in Text
      /\ Ends(Append(name[f], c), Append(name[s], c))
  BY <1>1, <1>2, EndsAppend
<1>4. Ends(name[h], Append(name[s], c))
  BY <1>1, <1>2, <1>3, EndsTransitive
<1>5. ASSUME NEW t \in D, Ends(name[t], Append(name[s], c)) PROVE Ends(name[t], name[h])
  <2>1. CASE t = 0
    <3>1. name[t] = <<>>
      BY <2>1, TreeFacts
    <3> QED
      BY <1>1, <1>2, <3>1, EndsBasic
  <2>2. CASE t # 0
    <3>1. PICK p \in D, d \in Char : ary[p][d] = t /\ name[t] = Append(name[p], d)
      BY <2>2, TreeParent
    <3>2. d = c /\ Ends(name[p], name[s])
      BY <1>1, <1>5, <3>1, EndsAppend
    <3>3. t # FAIL
      BY TreeFacts
    <3>4. p # s
      BY <3>1, <3>2, <3>3
    <3>5. Ends(name[p], name[f])
      BY <3>2, <3>4 DEF LongestEnd
    <3>6. Ends(name[t], Append(name[f], c))
      BY <1>1, <1>2, <3>1, <3>2, <3>5, EndsAppend
    <3> QED
      BY <3>6 DEF Arrives
  <2> QED
    BY <2>1, <2>2
<1> QED
  BY <1>2, <1>4, <1>5 DEF Arrives

LEMMA SetDelta ==
    ASSUME NEW g, IsAutomaton(g), NEW rows
    PROVE  LET h == [g EXCEPT !.delta = rows]
           IN  /\ IsAutomaton(h) /\ h.ary = g.ary /\ h.output = g.output
               /\ h.failure = g.failure /\ h.delta = rows
<1> DEFINE h == [g EXCEPT !.delta = rows]
<1>1. h = [ary |-> g.ary, output |-> g.output, max_node_count |-> g.max_node_count,
           failure |-> g.failure, delta |-> rows]
  BY DEF IsAutomaton
<1> HIDE DEF h
<1>2. IsAutomaton(h) /\ h.ary = g.ary /\ h.output = g.output
      /\ h.failure = g.failure /\ h.delta = rows
  BY <1>1 DEF IsAutomaton
<1> QED
  BY <1>2 DEF h

LEMMA DeltaBegins ==
    ASSUME NEW K \in Seq(Text), NEW g, NEW name, NEW P, FailureAs(g, name, P, <<>>, K)
    PROVE  DeltaAs(StartDelta(g), name, {}, Successors(g, 0), K)
<1> DEFINE D == DOMAIN g.ary
           rows == [s \in D |-> IF s = 0 THEN g.ary[0] ELSE [c \in Char |-> 0]]
           h == StartDelta(g)
           q == Successors(g, 0)
<1>1. /\ IsAutomaton(g) /\ Tree(g.ary, name) /\ Closed(g.ary)
      /\ Named(g.ary, name) = Known(K, Len(K))
      /\ Walking(g.ary, name, P, <<>>)
      /\ FailureRight(g, name, P \cup ToSet(<<>>))
      /\ \A s \in P \cup ToSet(<<>>) \cup {0} : CountsEnding(g.output[s], name[s], K)
  BY DEF FailureAs
<1>2. ToSet(<<>>) = {}
  BY DEF ToSet
<1>3. \A s \in D : s \in P \cup {0}
  BY <1>1, ShallowerWalked
<1>4. h = [g EXCEPT !.delta = rows]
  BY DEF StartDelta
<1> HIDE DEF rows, h
<1>5. /\ IsAutomaton(h) /\ h.ary = g.ary /\ h.output = g.output
      /\ h.failure = g.failure /\ h.delta = rows
  BY <1>1, <1>4, SetDelta
<1>6. Walking(h.ary, name, {}, q)
  BY <1>1, <1>5, WalkBegins
<1>7. \A s \in D \ {0} : LongestEnd(g.ary, name, g.failure[s], s)
  BY <1>1, <1>2, <1>3 DEF FailureRight
<1>8. \A s \in D : CountsEnding(g.output[s], name[s], K)
  BY <1>1, <1>2, <1>3
<1>9. /\ 0 \in D /\ \A c \in Char : g.ary[0][c] \in D
      /\ \A c \in Char : g.ary[0][c] # FAIL
  BY <1>1, TreeFacts DEF Closed
<1>10. rows \in [D -> [Char -> D]]
  <2>1. g.ary[0] \in [Char -> D]
    <3>1. g.ary[0] \in [Char -> D \cup {FAIL}]
      BY <1>1, <1>9 DEF Tree, TreeOver
    <3> QED
      BY <1>9, <3>1
  <2>2. [c \in Char |-> 0] \in [Char -> D]
    BY <1>9
  <2> QED
    BY <2>1, <2>2 DEF rows
<1>11. ASSUME NEW s \in {} \cup {0}, NEW c \in Char
       PROVE  Arrives(h.ary, name, c, s, h.delta[s][c])
  <2>1. s = 0 /\ h.delta[s][c] = g.ary[0][c]
    BY <1>5, <1>9 DEF rows
  <2>2. Arrives(g.ary, name, c, 0, g.ary[0][c])
    BY <1>1, <1>9, ArrivesByEdge
  <2> QED
    BY <1>5, <2>1, <2>2
<1> HIDE DEF q
<1>12. DeltaAs(h, name, {}, q, K)
  BY <1>1, <1>5, <1>6, <1>7, <1>8, <1>10, <1>11 DEF DeltaAs
<1> QED
  BY <1>12 DEF h, q

LEMMA DeltaTurnKeeps ==
    ASSUME NEW K \in Seq(Text), NEW g, NEW name, NEW P, NEW q, DeltaAs(g, name, P, q, K), q # <<>>
    PROVE  DeltaAs(DeltaRow(g, Head(q)), name, P \cup {Head(q)},
                   Tail(q) \o Successors(g, Head(q)), K)
<1> DEFINE r == Head(q)
           D == DOMAIN g.ary
           p == Tail(q) \o Successors(g, r)
           row == [c \in Char |-> IF g.ary[r][c] # FAIL THEN g.ary[r][c]
                                  ELSE g.delta[g.failure[r]][c]]
           rows == [g.delta EXCEPT ![r] = row]
           h == DeltaRow(g, r)
<1>1. /\ IsAutomaton(g) /\ Tree(g.ary, name) /\ Closed(g.ary)
      /\ Named(g.ary, name) = Known(K, Len(K))
      /\ Walking(g.ary, name, P, q)
      /\ \A s \in D \ {0} : LongestEnd(g.ary, name, g.failure[s], s)
      /\ \A s \in D : CountsEnding(g.output[s], name[s], K)
      /\ g.delta \in [D -> [Char -> D]]
      /\ \A s \in P \cup {0}, c \in Char : Arrives(g.ary, name, c, s, g.delta[s][c])
  BY DEF DeltaAs
<1>2. q \in Seq(D \ {0}) /\ P \subseteq D \ {0}
  BY <1>1 DEF Walking
<1>3. r \in D /\ r # 0
  BY <1>2
<1>4. h = [g EXCEPT !.delta = rows]
  BY <1>1 DEF DeltaRow, IsAutomaton
<1> HIDE DEF h, rows
<1>5. /\ IsAutomaton(h) /\ h.ary = g.ary /\ h.output = g.output
      /\ h.failure = g.failure /\ h.delta = rows
  BY <1>1, <1>4, SetDelta
<1>6. Walking(g.ary, name, P \cup {r}, p)
  BY <1>1, WalkContinues
<1>7. g.failure[r] \in P \cup {0} /\ g.failure[r] \in D /\ LongestEnd(g.ary, name, g.failure[r], r)
  <2>1. LongestEnd(g.ary, name, g.failure[r], r)
    BY <1>1, <1>3
  <2>2. g.failure[r] \in D /\ Len(name[g.failure[r]]) < Len(name[r])
    BY <1>1, <1>3, <2>1, LongestEndIsShallower
  <2> QED
    BY <1>1, <2>1, <2>2, ShallowerWalked
<1>8. /\ \A c \in Char : rows[r][c] = IF g.ary[r][c] # FAIL THEN g.ary[r][c]
                                      ELSE g.delta[g.failure[r]][c]
      /\ \A s \in D : s # r => rows[s] = g.delta[s]
      /\ rows[r] = row /\ IsFunction(rows) /\ DOMAIN rows = D
  BY <1>1, <1>3 DEF rows, IsFunction
<1>9. rows \in [D -> [Char -> D]]
  <2>1. ASSUME NEW c \in Char PROVE row[c] \in D
    <3>1. g.ary[r][c] # FAIL => g.ary[r][c] \in D
      <4>1. Tree(g.ary, name) /\ r \in DOMAIN g.ary
        BY <1>1, <1>3
      <4>2. g.ary[r][c] \in DOMAIN g.ary \cup {FAIL}
        <5> HIDE DEF r
        <5> QED
          BY <4>1, TreeFacts, Zenon
      <4> QED
        BY <4>2
    <3>2. g.delta[g.failure[r]][c] \in D
      BY <1>1, <1>7
    <3> QED
      BY <3>1, <3>2
  <2>2. row \in [Char -> D]
    BY <2>1
  <2> HIDE DEF row
  <2> QED
    BY <1>1, <1>8, <2>2 DEF IsFunction
<1> HIDE DEF r, p, row
<1>10. ASSUME NEW s \in (P \cup {r}) \cup {0}, NEW c \in Char
       PROVE  Arrives(g.ary, name, c, s, rows[s][c])
  <2>1. CASE s # r
    <3>1. s \in P \cup {0} /\ s \in D
      BY <1>1, <1>2, <2>1, TreeFacts
    <3> QED
      BY <1>1, <1>8, <2>1, <3>1
  <2>2. CASE s = r /\ g.ary[r][c] # FAIL
    <3>1. Arrives(g.ary, name, c, r, g.ary[r][c])
      BY <1>1, <1>3, <2>2, ArrivesByEdge
    <3> QED
      BY <1>8, <2>2, <3>1
  <2>3. CASE s = r /\ g.ary[r][c] = FAIL
    <3> DEFINE f == g.failure[r]
               k == g.delta[f][c]
    <3>1. Arrives(g.ary, name, c, f, k) /\ LongestEnd(g.ary, name, f, r)
      BY <1>1, <1>7
    <3>2. rows[r][c] = k
      BY <1>8, <2>3
    <3> HIDE DEF f, k
    <3>3. Arrives(g.ary, name, c, r, k)
      BY <1>1, <1>3, <2>3, <3>1, ArrivesByFailure
    <3> QED
      BY <2>3, <3>2, <3>3
  <2> QED
    BY <2>1, <2>2, <2>3
<1>11. DeltaAs(h, name, P \cup {r}, p, K)
  BY <1>1, <1>5, <1>6, <1>9, <1>10 DEF DeltaAs, r, p
<1> QED
  BY <1>11 DEF h, r, p

(* ------------------------------------------------------------------------ *)
(* what the automaton is for                                                  *)

\* The text of a state leads to it.
LEMMA StateOfName ==
    ASSUME NEW g, NEW name, Tree(g.ary, name), NEW s \in DOMAIN g.ary
    PROVE  StateOf(g, name[s]) = s
<1> DEFINE D == DOMAIN g.ary
           text == name[s]
           n == Len(text)
           Upto(i) == SubSeq(text, 1, i)
           at == CHOOSE f : f = [i \in 0..Len(text) |->
                                    IF i = 0 THEN 0 ELSE g.ary[f[i - 1]][text[i]]]
           w == [i \in 0..n |-> CHOOSE t \in D : name[t] = Upto(i)]
<1>1. StateOf(g, text) = at[n]
  BY DEF StateOf
<1>2. text \in Text /\ n \in Nat /\ \A t \in D : name[t] \in Text
  BY TreeFacts DEF Text
<1>3. 0 \in D /\ name[0] = <<>>
  BY TreeFacts
<1> HIDE DEF text
<1>4. /\ Upto(0) = <<>> /\ Upto(n) = text
      /\ \A i \in 0..n : Upto(i) \in Text
      /\ \A i \in 1..n : text[i] \in Char /\ Upto(i) = Append(Upto(i - 1), text[i])
      /\ \A i \in 1..n : Upto(i) # <<>>
  BY <1>2 DEF Text
<1> HIDE DEF n, Upto, at
<1> DEFINE Bad == {i \in 0..n : ~\E t \in D : name[t] = Upto(i)}
<1>5. Bad = {}
  <2> SUFFICES ASSUME Bad # {} PROVE FALSE
    OBVIOUS
  <2>1. PICK m \in Bad : \A k \in Bad : k <= m
    <3>1. Bad \in SUBSET (0..n)
      OBVIOUS
    <3> HIDE DEF Bad
    <3> QED
      BY <1>2, <3>1, GreatestNumber
  <2>2. m \in 0..n /\ ~\E t \in D : name[t] = Upto(m)
    OBVIOUS
  <2>3. m # n
    BY <1>4, <2>2 DEF text
  <2>4. m + 1 \in 1..n /\ m + 1 \in 0..n /\ (m + 1) - 1 = m
    BY <1>2, <2>2, <2>3
  <2>5. m + 1 \notin Bad
    <3> HIDE DEF Bad
    <3> QED
      BY <2>1, <2>2, <2>4
  <2>6. PICK t \in D : name[t] = Upto(m + 1)
    BY <2>4, <2>5
  <2>7. t # 0
    BY <1>3, <1>4, <2>4, <2>6
  <2>8. PICK p \in D, c \in Char : name[t] = Append(name[p], c)
    BY <2>7, TreeParent
  <2>9. Append(name[p], c) = Append(Upto(m), text[m + 1])
    BY <1>4, <2>4, <2>6, <2>8
  <2>10. name[p] = Upto(m)
    <3>1. name[p] \in Text /\ Upto(m) \in Text /\ text[m + 1] \in Char
      BY <1>2, <1>4, <2>2, <2>4
    <3> QED
      BY <2>9, <3>1, AppendSame
  <2> QED
    BY <2>2, <2>10
<1>6. \A i \in 0..n : w[i] \in D /\ name[w[i]] = Upto(i)
  BY <1>5
<1>7. DOMAIN w = 0..n /\ w = [i \in 0..n |-> w[i]]
  OBVIOUS
<1> HIDE DEF w, Bad
<1>8. w[0] = 0
  <2>1. 0 \in 0..n
    BY <1>2
  <2> QED
    BY <1>3, <1>4, <1>6, <2>1, TreeFacts, SMTT(30)
<1>9. ASSUME NEW i \in 1..n PROVE w[i] = g.ary[w[i - 1]][text[i]]
  <2>1. i \in 0..n /\ i - 1 \in 0..n
    BY <1>2
  <2>2. w[i] \in D /\ w[i - 1] \in D /\ name[w[i]] = Append(name[w[i - 1]], text[i])
        /\ text[i] \in Char
    BY <1>4, <1>6, <2>1
  <2>3. w[i] # 0
    BY <1>3, <1>4, <1>6, <2>1
  <2> QED
    BY <2>2, <2>3, TreeEdge, SMTT(30)
<1>10. w = [i \in 0..n |-> IF i = 0 THEN 0 ELSE g.ary[w[i - 1]][text[i]]]
  <2>1. \A i \in 0..n : w[i] = IF i = 0 THEN 0 ELSE g.ary[w[i - 1]][text[i]]
    BY <1>2, <1>8, <1>9
  <2> QED
    BY <1>7, <2>1
<1>11. at = [i \in 0..n |-> IF i = 0 THEN 0 ELSE g.ary[at[i - 1]][text[i]]]
  BY <1>10 DEF at, n
<1>12. \A i \in 0..n : at[i] = IF i = 0 THEN 0 ELSE g.ary[at[i - 1]][text[i]]
  BY <1>11
<1> DEFINE Missed == {i \in 0..n : at[i] # w[i]}
<1>13. Missed = {}
  <2> SUFFICES ASSUME Missed # {} PROVE FALSE
    OBVIOUS
  <2>1. PICK m \in Missed : \A k \in Missed : m <= k
    <3>1. Missed \in SUBSET Nat
      BY <1>2
    <3> HIDE DEF Missed
    <3> QED
      BY <3>1, LeastNumber
  <2>2. m \in 0..n /\ at[m] # w[m]
    OBVIOUS
  <2>3. m # 0
    BY <1>8, <1>12, <2>2
  <2>4. m \in 1..n /\ m - 1 \in 0..n /\ m - 1 < m
    BY <1>2, <2>2, <2>3
  <2>5. m - 1 \notin Missed
    <3> HIDE DEF Missed
    <3> QED
      BY <2>1, <2>4
  <2>6. at[m - 1] = w[m - 1]
    BY <2>4, <2>5
  <2> QED
    BY <1>9, <1>12, <2>2, <2>3, <2>4, <2>6
<1>14. at[n] = w[n] /\ name[w[n]] = text /\ w[n] \in D
  <2>1. n \in 0..n
    BY <1>2
  <2> QED
    BY <1>4, <1>6, <1>13, <2>1
<1>15. w[n] = s
  BY <1>14, TreeFacts DEF text
<1> QED
  BY <1>1, <1>14, <1>15 DEF text

LEMMA LongestSuffixIs ==
    ASSUME NEW ary, NEW name, Tree(ary, name), NEW s \in DOMAIN ary, NEW c \in Char,
           NEW h, Arrives(ary, name, c, s, h)
    PROVE  LongestSuffix(Append(name[s], c), Named(ary, name)) = name[h]
<1> DEFINE D == DOMAIN ary
           text == Append(name[s], c)
           Among == Suffixes(text) \cap Named(ary, name)
           Longest(t) == \A u \in Among : Len(u) <= Len(t)
<1>1. text \in Text /\ \A t \in D : name[t] \in Text
  BY TreeFacts, EndsAppend
<1>2. h \in D /\ Ends(name[h], text) /\ \A t \in D : Ends(name[t], text) => Ends(name[t], name[h])
  BY DEF Arrives
<1> HIDE DEF text
<1>3. ASSUME NEW u \in Among PROVE u \in Text /\ Ends(u, text) /\ Ends(u, name[h])
  <2>1. PICK t \in D : u = name[t]
    BY DEF Named
  <2>2. u \in Text /\ u \in Suffixes(text)
    BY <1>1, <2>1
  <2>3. Ends(u, text)
    BY <1>1, <2>2, EndsAreSuffixes
  <2> QED
    BY <1>2, <2>1, <2>2, <2>3
<1>4. name[h] \in Among
  BY <1>1, <1>2, EndsAreSuffixes DEF Named
<1>5. Longest(name[h])
  BY <1>1, <1>2, <1>3, EndsShorter
<1>6. ASSUME NEW t \in Among, Longest(t) PROVE t = name[h]
  <2>1. Len(name[h]) <= Len(t)
    BY <1>4, <1>6
  <2>2. t \in Text /\ Ends(t, name[h]) /\ name[h] \in Text
    BY <1>1, <1>2, <1>3
  <2>3. Len(t) \in Nat /\ Len(name[h]) \in Nat
    BY <2>2 DEF Text
  <2> QED
    BY <2>1, <2>2, <2>3, EndsShorter
<1>7. (CHOOSE t \in Among : Longest(t)) = name[h]
  <2> HIDE DEF Among, Longest
  <2> QED
    BY <1>4, <1>5, <1>6
<1> QED
  BY <1>7 DEF LongestSuffix, text

LEMMA DeltaEnds ==
    ASSUME NEW K \in Seq(Text), NEW g, NEW name, NEW P, DeltaAs(g, name, P, <<>>, K)
    PROVE  Recognises(g, K)
<1> DEFINE D == DOMAIN g.ary
           known == (UNION {Prefixes(K[i]) : i \in DOMAIN K}) \cup {<<>>}
<1>1. /\ Tree(g.ary, name)
      /\ Named(g.ary, name) = Known(K, Len(K))
      /\ Walking(g.ary, name, P, <<>>)
      /\ \A s \in D : CountsEnding(g.output[s], name[s], K)
      /\ \A s \in P \cup {0}, c \in Char : Arrives(g.ary, name, c, s, g.delta[s][c])
  BY DEF DeltaAs
<1>2. \A s \in D : s \in P \cup {0}
  BY <1>1, ShallowerWalked
<1>3. DOMAIN K = 1..Len(K) /\ Len(K) \in Nat /\ \A i \in 1..Len(K) : K[i] \in Text
  OBVIOUS
<1>4. known = Named(g.ary, name)
  BY <1>1, <1>3 DEF Known
<1> HIDE DEF known
<1>5. Cardinality(D) = Cardinality(known)
  <2>1. PICK n \in Nat : D = 0..n
    BY <1>1, TreeFacts
  <2>2. IsFiniteSet(D)
    BY <2>1, StatesCounted
  <2>3. name \in [D -> known]
    <3>1. name \in [D -> Text]
      BY <1>1 DEF Tree, TreeOver
    <3>2. \A t \in D : name[t] \in known
      BY <1>4 DEF Named
    <3> QED
      BY <3>1, <3>2
  <2>4. \A s, t \in D : name[s] = name[t] => s = t
    BY <1>1, TreeFacts
  <2>5. \A u \in known : \E t \in D : name[t] = u
    BY <1>4 DEF Named
  <2> QED
    BY <2>2, <2>3, <2>4, <2>5, SameSize
<1>6. ASSUME NEW s \in D, NEW c \in Char
      PROVE  g.delta[s][c] = StateOf(g, LongestSuffix(Append(name[s], c), known))
  <2> DEFINE h == g.delta[s][c]
  <2>1. Arrives(g.ary, name, c, s, h)
    BY <1>1, <1>2
  <2> HIDE DEF h
  <2>2. LongestSuffix(Append(name[s], c), known) = name[h]
    BY <1>1, <1>4, <2>1, LongestSuffixIs
  <2>3. StateOf(g, name[h]) = h
    BY <1>1, <2>1, StateOfName DEF Arrives
  <2> QED
    BY <2>2, <2>3 DEF h
<1>7. ASSUME NEW s \in D, NEW n
      PROVE  Cardinality({i \in DOMAIN g.output[s] : g.output[s][i] = n})
               = Cardinality({i \in DOMAIN K : /\ K[i] \in Suffixes(name[s])
                                               /\ NodesOnPath(K[i]) = n})
  <2>1. \A i \in 1..Len(K) : K[i] \in Suffixes(name[s]) <=> Ends(K[i], name[s])
    <3>1. name[s] \in Text
      BY <1>1, TreeFacts
    <3> QED
      BY <1>3, <3>1, EndsAreSuffixes
  <2>2. {i \in DOMAIN K : /\ K[i] \in Suffixes(name[s])
                          /\ NodesOnPath(K[i]) = n} = Ending(K, Len(K), name[s], n)
    BY <1>3, <2>1 DEF Ending
  <2>3. Count(g.output[s], n) = Cardinality(Ending(K, Len(K), name[s], n))
    BY <1>1 DEF CountsEnding
  <2> QED
    BY <2>2, <2>3 DEF Count
<1>8. ASSUME NEW text \in known
      PROVE  /\ \A c \in Char :
                   g.delta[StateOf(g, text)][c]
                     = StateOf(g, LongestSuffix(Append(text, c), known))
             /\ \A n \in 0..g.max_node_count + 1 :
                   Cardinality({i \in DOMAIN g.output[StateOf(g, text)] :
                                   g.output[StateOf(g, text)][i] = n})
                     = Cardinality({i \in DOMAIN K : /\ K[i] \in Suffixes(text)
                                                     /\ NodesOnPath(K[i]) = n})
  <2>1. PICK s \in D : text = name[s]
    BY <1>4 DEF Named
  <2>2. StateOf(g, text) = s
    BY <1>1, <2>1, StateOfName
  <2>3. \A c \in Char : g.delta[s][c] = StateOf(g, LongestSuffix(Append(name[s], c), known))
    BY <1>6
  <2>4. \A n \in 0..g.max_node_count + 1 :
           Cardinality({i \in DOMAIN g.output[s] : g.output[s][i] = n})
             = Cardinality({i \in DOMAIN K : /\ K[i] \in Suffixes(name[s])
                                             /\ NodesOnPath(K[i]) = n})
    BY <1>7
  <2> QED
    BY <2>1, <2>2, <2>3, <2>4
<1> QED
  BY <1>5, <1>8 DEF Recognises, known

(* ------------------------------------------------------------------------ *)
(* the paths of a pattern                                                     *)

\* The paths of a tree, which are found behind the text.
Below(text, list) == [i \in DOMAIN list |-> text \o list[i]]

\* What PathsOf says of a tree, if f is PathsOf.
PathsStep(f, tree) ==
    IF IsLeaf(tree) THEN <<PathEnd(tree.label)>>
    ELSE [i \in DOMAIN f[tree.left] |-> <<"@", "1">> \o f[tree.left][i]]
           \o [i \in DOMAIN f[tree.right] |-> <<"@", "2">> \o f[tree.right][i]]

LEMMA PatternFacts ==
    /\ Height \in [PatternParts -> Nat]
    /\ \A tree \in PatternParts :
          IF IsLeaf(tree) THEN PathEnd(tree.label) \in Text
          ELSE /\ tree.left \in PatternParts /\ Height[tree.left] < Height[tree]
               /\ tree.right \in PatternParts /\ Height[tree.right] < Height[tree]
BY PatternAssumption DEF Text

\* The trees that are not higher than m.
NotHigher(m) == {tree \in PatternParts : Height[tree] <= m}

SolvesTo(f, m) == f = [tree \in NotHigher(m) |-> PathsStep(f, tree)]

\* PathsStep looks at the branches only.
LEMMA StepSame ==
    ASSUME NEW f, NEW h, NEW tree,
           ~IsLeaf(tree) => f[tree.left] = h[tree.left] /\ f[tree.right] = h[tree.right]
    PROVE  PathsStep(f, tree) = PathsStep(h, tree)
<1>1. CASE IsLeaf(tree)
  BY <1>1 DEF PathsStep
<1>2. CASE ~IsLeaf(tree)
  <2>1. f[tree.left] = h[tree.left] /\ f[tree.right] = h[tree.right]
    BY <1>2
  <2> QED
    BY <1>2, <2>1 DEF PathsStep
<1> QED
  BY <1>1, <1>2

LEMMA BranchesNotHigher ==
    ASSUME NEW m \in Nat, NEW tree \in NotHigher(m), ~IsLeaf(tree)
    PROVE  /\ m # 0
           /\ tree.left \in NotHigher(m - 1) /\ tree.right \in NotHigher(m - 1)
<1>1. /\ tree \in PatternParts /\ Height[tree] <= m
      /\ tree.left \in PatternParts /\ Height[tree.left] < Height[tree]
      /\ tree.right \in PatternParts /\ Height[tree.right] < Height[tree]
  BY PatternFacts DEF NotHigher
<1>2. Height[tree] \in Nat /\ Height[tree.left] \in Nat /\ Height[tree.right] \in Nat
  BY <1>1, PatternFacts
<1> QED
  BY <1>1, <1>2 DEF NotHigher

LEMMA SolvedUpTo ==
    ASSUME NEW m \in Nat
    PROVE  \E f : SolvesTo(f, m)
<1> DEFINE Unsolved == {n \in Nat : ~\E f : SolvesTo(f, n)}
<1> SUFFICES Unsolved = {}
  OBVIOUS
<1> SUFFICES ASSUME Unsolved # {} PROVE FALSE
  OBVIOUS
<1>1. PICK n \in Unsolved : \A k \in Unsolved : n <= k
  <2>1. Unsolved \in SUBSET Nat
    OBVIOUS
  <2> HIDE DEF Unsolved
  <2> QED
    BY <2>1, LeastNumber
<1>2. n \in Nat /\ ~\E f : SolvesTo(f, n)
  OBVIOUS
<1>3. PICK h : n # 0 => SolvesTo(h, n - 1)
  <2>1. CASE n = 0
    BY <2>1
  <2>2. CASE n # 0
    <3>1. n - 1 \in Nat /\ n - 1 < n
      BY <1>2, <2>2
    <3>2. n - 1 \notin Unsolved
      <4> HIDE DEF Unsolved
      <4> QED
        BY <1>1, <1>2, <3>1
    <3> QED
      BY <3>1, <3>2
  <2> QED
    BY <2>1, <2>2
<1> DEFINE f == [tree \in NotHigher(n) |-> PathsStep(h, tree)]
<1>4. ASSUME NEW tree \in NotHigher(n) PROVE f[tree] = PathsStep(f, tree)
  <2>1. ASSUME NEW part \in NotHigher(n - 1), n # 0 PROVE f[part] = h[part]
    <3>1. part \in NotHigher(n)
      <4>1. part \in PatternParts /\ Height[part] <= n - 1 /\ Height[part] \in Nat
        BY PatternFacts DEF NotHigher
      <4> QED
        BY <1>2, <4>1 DEF NotHigher
    <3>2. f[part] = PathsStep(h, part)
      BY <3>1
    <3>3. h = [t \in NotHigher(n - 1) |-> PathsStep(h, t)]
      BY <1>3, <2>1 DEF SolvesTo
    <3>4. h[part] = PathsStep(h, part)
      BY <3>3, Zenon
    <3> QED
      BY <3>2, <3>4
  <2>2. f[tree] = PathsStep(h, tree)
    OBVIOUS
  <2> HIDE DEF f
  <2>3. ~IsLeaf(tree) => f[tree.left] = h[tree.left] /\ f[tree.right] = h[tree.right]
    BY <1>2, <2>1, BranchesNotHigher
  <2> QED
    BY <2>2, <2>3, StepSame
<1>5. f = [tree \in NotHigher(n) |-> f[tree]]
  OBVIOUS
<1> HIDE DEF f
<1>6. f = [tree \in NotHigher(n) |-> PathsStep(f, tree)]
  BY <1>4, <1>5
<1> QED
  BY <1>2, <1>6 DEF SolvesTo

LEMMA SolvedOnce ==
    ASSUME NEW m \in Nat, NEW f, SolvesTo(f, m), NEW n \in Nat, NEW h, SolvesTo(h, n), m <= n,
           NEW tree \in NotHigher(m)
    PROVE  f[tree] = h[tree]
<1> DEFINE Bad == {t \in NotHigher(m) : f[t] # h[t]}
           Heights == {Height[t] : t \in Bad}
<1> SUFFICES ASSUME Bad # {} PROVE FALSE
  OBVIOUS
<1>1. \A t \in NotHigher(m) : t \in PatternParts /\ Height[t] \in Nat /\ Height[t] <= m
  BY PatternFacts DEF NotHigher
<1>2. PICK k \in Heights : \A l \in Heights : k <= l
  <2>1. Heights \in SUBSET Nat /\ Heights # {}
    BY <1>1
  <2> HIDE DEF Heights
  <2> QED
    BY <2>1, LeastNumber
<1>3. PICK t \in Bad : k = Height[t]
  OBVIOUS
<1>4. t \in NotHigher(m) /\ f[t] # h[t]
  OBVIOUS
<1>5. ASSUME NEW part \in NotHigher(m), Height[part] < Height[t] PROVE f[part] = h[part]
  <2> SUFFICES ASSUME part \in Bad PROVE FALSE
    OBVIOUS
  <2>1. Height[part] \in Heights
    OBVIOUS
  <2>2. Height[t] <= Height[part]
    <3> HIDE DEF Heights
    <3> QED
      BY <1>2, <1>3, <2>1
  <2> QED
    BY <1>1, <1>4, <1>5, <2>2
<1> HIDE DEF Bad
<1>6. t \in NotHigher(n)
  BY <1>1, <1>4 DEF NotHigher
<1>7. f[t] = PathsStep(f, t)
  <2>1. f = [s \in NotHigher(m) |-> PathsStep(f, s)]
    BY DEF SolvesTo
  <2> QED
    BY <1>4, <2>1, Zenon
<1>8. h[t] = PathsStep(h, t)
  <2>1. h = [s \in NotHigher(n) |-> PathsStep(h, s)]
    BY DEF SolvesTo
  <2> QED
    BY <1>6, <2>1, Zenon
<1>9. ~IsLeaf(t) => f[t.left] = h[t.left] /\ f[t.right] = h[t.right]
  <2> SUFFICES ASSUME ~IsLeaf(t) PROVE f[t.left] = h[t.left] /\ f[t.right] = h[t.right]
    OBVIOUS
  <2>1. /\ t.left \in PatternParts /\ Height[t.left] < Height[t]
        /\ t.right \in PatternParts /\ Height[t.right] < Height[t]
    BY <1>1, <1>4, PatternFacts
  <2>2. Height[t.left] \in Nat /\ Height[t.right] \in Nat
    BY <2>1, PatternFacts
  <2>3. t.left \in NotHigher(m) /\ t.right \in NotHigher(m)
    BY <1>1, <1>4, <2>1, <2>2 DEF NotHigher
  <2> QED
    BY <1>5, <2>1, <2>3
<1> QED
  BY <1>4, <1>7, <1>8, <1>9, StepSame

LEMMA PathsOfIs ==
    ASSUME NEW tree \in PatternParts
    PROVE  PathsOf[tree] = PathsStep(PathsOf, tree)
<1> DEFINE solution(m) == CHOOSE f : SolvesTo(f, m)
           all == [t \in PatternParts |-> solution(Height[t])[t]]
<1>1. \A t \in PatternParts : Height[t] \in Nat /\ t \in NotHigher(Height[t])
  BY PatternFacts DEF NotHigher
<1>2. \A m \in Nat : SolvesTo(solution(m), m)
  <2> TAKE m \in Nat
  <2>1. \E f : SolvesTo(f, m)
    BY SolvedUpTo
  <2> QED
    BY <2>1, Zenon
<1> HIDE DEF solution
<1>3. ASSUME NEW t \in PatternParts PROVE all[t] = PathsStep(all, t)
  <2> DEFINE f == solution(Height[t])
  <2>1. all[t] = f[t]
    OBVIOUS
  <2>2. f = [s \in NotHigher(Height[t]) |-> PathsStep(f, s)]
    BY <1>1, <1>2 DEF SolvesTo
  <2>3. f[t] = PathsStep(f, t)
    <3> HIDE DEF f
    <3> QED
      BY <1>1, <2>2, Zenon
  <2>4. ASSUME ~IsLeaf(t) PROVE f[t.left] = all[t.left] /\ f[t.right] = all[t.right]
    <3>1. /\ t.left \in PatternParts /\ Height[t.left] < Height[t]
          /\ t.right \in PatternParts /\ Height[t.right] < Height[t]
      BY <2>4, PatternFacts
    <3>2. ASSUME NEW part \in PatternParts, Height[part] < Height[t] PROVE f[part] = all[part]
      <4> DEFINE h == solution(Height[part])
      <4>1. all[part] = h[part]
        OBVIOUS
      <4>2. SolvesTo(h, Height[part]) /\ SolvesTo(f, Height[t])
        BY <1>1, <1>2
      <4>3. Height[part] <= Height[t] /\ Height[part] \in Nat /\ Height[t] \in Nat
            /\ part \in NotHigher(Height[part])
        BY <1>1, <3>2
      <4> HIDE DEF h, f
      <4>4. h[part] = f[part]
        BY <4>2, <4>3, SolvedOnce
      <4> QED
        BY <4>1, <4>4
    <3> HIDE DEF f, all
    <3> QED
      BY <3>1, <3>2
  <2> HIDE DEF f, all
  <2> QED
    BY <2>1, <2>3, <2>4, StepSame
<1>4. all = [t \in PatternParts |-> all[t]]
  OBVIOUS
<1> HIDE DEF all
<1>5. all = [t \in PatternParts |-> PathsStep(all, t)]
  BY <1>3, <1>4
<1>6. PathsOf = CHOOSE f : f = [t \in PatternParts |-> PathsStep(f, t)]
  BY DEF PathsOf, PathsStep
<1>7. PathsOf = [t \in PatternParts |-> PathsStep(PathsOf, t)]
  BY <1>5, <1>6, Zenon
<1> QED
  BY <1>7, Zenon

\* What the lemmas below need of concatenation.
LEMMA Concats ==
    ASSUME NEW T
    PROVE  /\ <<>> \in Seq(T)
           /\ \A a, b \in Seq(T) : Both(a, b) \in Seq(T)
           /\ \A a \in Seq(T) : Both(a, <<>>) = a /\ Both(<<>>, a) = a
           /\ \A a, b, c \in Seq(T) : Both(Both(a, b), c) = Both(a, Both(b, c))
<1>1. \A a, b \in Seq(T) : a \o b \in Seq(T)
  OBVIOUS
<1>2. \A a \in Seq(T) : a \o <<>> = a /\ <<>> \o a = a
  OBVIOUS
<1>3. \A a, b, c \in Seq(T) : (a \o b) \o c = a \o (b \o c)
  OBVIOUS
<1> QED
  BY <1>1, <1>2, <1>3 DEF Both

LEMMA TextConcats ==
    /\ \A a, b \in Text : Both(a, b) \in Text
    /\ \A a \in Text : Both(a, <<>>) = a /\ Both(<<>>, a) = a
    /\ \A a, b, c \in Text : Both(Both(a, b), c) = Both(a, Both(b, c))
BY Concats DEF Text

LEMMA BothAt ==
    ASSUME NEW T, NEW a \in Seq(T), NEW b \in Seq(T)
    PROVE  /\ Len(a) \in Nat /\ Len(b) \in Nat
           /\ Both(a, b) \in Seq(T) /\ Len(Both(a, b)) = Len(a) + Len(b)
           /\ \A i \in 1..Len(a) : Both(a, b)[i] = a[i]
           /\ \A i \in (Len(a) + 1)..(Len(a) + Len(b)) : Both(a, b)[i] = b[i - Len(a)]
BY DEF Both

LEMMA SameList ==
    ASSUME NEW T, NEW a \in Seq(T), NEW b \in Seq(T), Len(a) = Len(b),
           \A i \in 1..Len(a) : a[i] = b[i]
    PROVE  a = b
OBVIOUS

LEMMA BelowIs ==
    ASSUME NEW text \in Text, NEW list \in Seq(Text)
    PROVE  /\ Below(text, list) \in Seq(Text)
           /\ Len(Below(text, list)) = Len(list)
           /\ \A i \in 1..Len(list) : Below(text, list)[i] = Both(text, list[i])
<1>1. Len(list) \in Nat /\ DOMAIN list = 1..Len(list) /\ \A i \in 1..Len(list) : list[i] \in Text
  OBVIOUS
<1>2. \A i \in 1..Len(list) : Both(text, list[i]) \in Text
  BY <1>1, Concats DEF Text
<1>3. Below(text, list) = [i \in 1..Len(list) |-> Both(text, list[i])]
  BY <1>1 DEF Below, Both
<1> QED
  BY <1>1, <1>2, <1>3

LEMMA BelowBoth ==
    ASSUME NEW text \in Text, NEW a \in Seq(Text), NEW b \in Seq(Text)
    PROVE  Below(text, Both(a, b)) = Both(Below(text, a), Below(text, b))
<1> DEFINE p == Below(text, Both(a, b))
           x == Below(text, a)
           y == Below(text, b)
           q == Both(x, y)
           ab == Both(a, b)
<1>1. /\ Len(a) \in Nat /\ Len(b) \in Nat
      /\ ab \in Seq(Text) /\ Len(ab) = Len(a) + Len(b)
      /\ \A i \in 1..Len(a) : ab[i] = a[i]
      /\ \A i \in (Len(a) + 1)..(Len(a) + Len(b)) : ab[i] = b[i - Len(a)]
  BY BothAt
<1> HIDE DEF ab
<1>2. /\ p \in Seq(Text) /\ Len(p) = Len(ab)
      /\ \A i \in 1..Len(ab) : p[i] = Both(text, ab[i])
  BY <1>1, BelowIs DEF ab
<1>3. /\ x \in Seq(Text) /\ Len(x) = Len(a)
      /\ \A i \in 1..Len(a) : x[i] = Both(text, a[i])
      /\ y \in Seq(Text) /\ Len(y) = Len(b)
      /\ \A i \in 1..Len(b) : y[i] = Both(text, b[i])
  BY BelowIs
<1> HIDE DEF p, x, y
<1>4. /\ q \in Seq(Text) /\ Len(q) = Len(a) + Len(b)
      /\ \A i \in 1..Len(a) : q[i] = x[i]
      /\ \A i \in (Len(a) + 1)..(Len(a) + Len(b)) : q[i] = y[i - Len(a)]
  <2>1. /\ Len(x) \in Nat /\ Len(y) \in Nat
        /\ q \in Seq(Text) /\ Len(q) = Len(x) + Len(y)
        /\ \A i \in 1..Len(x) : q[i] = x[i]
        /\ \A i \in (Len(x) + 1)..(Len(x) + Len(y)) : q[i] = y[i - Len(x)]
    BY <1>3, BothAt, ZenonT(30)
  <2> HIDE DEF q
  <2> QED
    BY <1>3, <2>1
<1> HIDE DEF q
<1>5. ASSUME NEW i \in 1..Len(p) PROVE p[i] = q[i]
  <2>1. CASE i \in 1..Len(a)
    BY <1>1, <1>2, <1>3, <1>4, <2>1
  <2>2. CASE i \notin 1..Len(a)
    <3>1. i \in (Len(a) + 1)..(Len(a) + Len(b)) /\ i - Len(a) \in 1..Len(b) /\ i \in 1..Len(ab)
      BY <1>1, <1>2, <2>2
    <3>2. p[i] = Both(text, b[i - Len(a)])
      BY <1>1, <1>2, <3>1
    <3> QED
      BY <1>3, <1>4, <3>1, <3>2
  <2> QED
    BY <2>1, <2>2
<1>6. p = q
  <2>1. Len(p) = Len(q) /\ p \in Seq(Text) /\ q \in Seq(Text)
    BY <1>1, <1>2, <1>4
  <2> QED
    BY <1>5, <2>1, SameList
<1> QED
  BY <1>6 DEF p, q, x, y, ab

LEMMA BelowBelow ==
    ASSUME NEW text \in Text, NEW step \in Text, NEW list \in Seq(Text)
    PROVE  Below(text, Below(step, list)) = Below(Both(text, step), list)
<1> DEFINE x == Below(step, list)
           p == Below(text, x)
           q == Below(Both(text, step), list)
<1>1. /\ x \in Seq(Text) /\ Len(x) = Len(list)
      /\ \A i \in 1..Len(list) : x[i] = Both(step, list[i])
  BY BelowIs
<1> HIDE DEF x
<1>2. /\ p \in Seq(Text) /\ Len(p) = Len(list)
      /\ \A i \in 1..Len(list) : p[i] = Both(text, x[i])
  BY <1>1, BelowIs
<1>3. Both(text, step) \in Text
  BY Concats DEF Text
<1>4. /\ q \in Seq(Text) /\ Len(q) = Len(list)
      /\ \A i \in 1..Len(list) : q[i] = Both(Both(text, step), list[i])
  BY <1>3, BelowIs
<1> HIDE DEF p, q
<1>5. ASSUME NEW i \in 1..Len(p) PROVE p[i] = q[i]
  <2>1. i \in 1..Len(list) /\ list[i] \in Text
    BY <1>2
  <2>2. Both(text, Both(step, list[i])) = Both(Both(text, step), list[i])
    BY <2>1, TextConcats
  <2> QED
    BY <1>1, <1>2, <1>4, <2>1, <2>2
<1>6. p = q
  BY <1>2, <1>4, <1>5, SameList
<1> QED
  BY <1>6 DEF p, q, x

\* PathsOf, in the terms of these lemmas.
LEMMA PathsOfCases ==
    ASSUME NEW tree \in PatternParts
    PROVE  IF IsLeaf(tree) THEN PathsOf[tree] = <<PathEnd(tree.label)>>
           ELSE PathsOf[tree] = Both(Below(<<"@", "1">>, PathsOf[tree.left]),
                                     Below(<<"@", "2">>, PathsOf[tree.right]))
BY PathsOfIs DEF PathsStep, Below, Both

LEMMA Branching ==
    /\ "@" \in Char /\ "1" \in Char /\ "2" \in Char
    /\ <<"@", "1">> \in Text /\ <<"@", "2">> \in Text
BY CharsAssumption DEF Text

LEMMA PathsOfType ==
    ASSUME NEW tree \in PatternParts
    PROVE  /\ PathsOf[tree] \in Seq(Text)
           /\ AloneIfEmpty(PathsOf[tree])
<1> DEFINE Good(t) == PathsOf[t] \in Seq(Text) /\ AloneIfEmpty(PathsOf[t])
           Bad == {t \in PatternParts : ~Good(t)}
           Heights == {Height[t] : t \in Bad}
<1> SUFFICES ASSUME Bad # {} PROVE FALSE
  OBVIOUS
<1>1. \A t \in PatternParts : Height[t] \in Nat
  BY PatternFacts
<1>2. PICK k \in Heights : \A l \in Heights : k <= l
  <2>1. Heights \in SUBSET Nat /\ Heights # {}
    BY <1>1
  <2> HIDE DEF Heights
  <2> QED
    BY <2>1, LeastNumber
<1>3. PICK t \in Bad : k = Height[t]
  OBVIOUS
<1>4. t \in PatternParts /\ ~Good(t)
  OBVIOUS
<1>5. ASSUME NEW part \in PatternParts, Height[part] < Height[t] PROVE PathsOf[part] \in Seq(Text)
  <2> SUFFICES ASSUME part \in Bad PROVE FALSE
    OBVIOUS
  <2>1. Height[part] \in Heights
    OBVIOUS
  <2>2. Height[t] <= Height[part]
    <3> HIDE DEF Heights
    <3> QED
      BY <1>2, <1>3, <2>1
  <2> QED
    BY <1>1, <1>4, <1>5, <2>2
<1> HIDE DEF Bad
<1>6. CASE IsLeaf(t)
  <2>1. PathsOf[t] = <<PathEnd(t.label)>> /\ PathEnd(t.label) \in Text
    BY <1>4, <1>6, PathsOfCases, PatternFacts
  <2>2. Good(t)
    BY <2>1 DEF AloneIfEmpty
  <2> QED
    BY <1>4, <2>2
<1>7. CASE ~IsLeaf(t)
  <2> DEFINE a == PathsOf[t.left]
             b == PathsOf[t.right]
             x == Below(<<"@", "1">>, a)
             y == Below(<<"@", "2">>, b)
             q == Both(x, y)
  <2>1. PathsOf[t] = q
    BY <1>4, <1>7, PathsOfCases
  <2>2. a \in Seq(Text) /\ b \in Seq(Text)
    BY <1>4, <1>5, <1>7, PatternFacts
  <2> HIDE DEF a, b
  <2>3. /\ x \in Seq(Text) /\ Len(x) = Len(a)
        /\ \A i \in 1..Len(a) : x[i] = Both(<<"@", "1">>, a[i])
        /\ y \in Seq(Text) /\ Len(y) = Len(b)
        /\ \A i \in 1..Len(b) : y[i] = Both(<<"@", "2">>, b[i])
    BY <2>2, Branching, BelowIs
  <2>4. ASSUME NEW u \in Text, NEW s \in {"1", "2"} PROVE Both(<<"@", s>>, u) # <<>>
    <3>1. Len(<<"@", s>> \o u) = 2 + Len(u) /\ Len(u) \in Nat
      BY Branching DEF Text
    <3> QED
      BY <3>1 DEF Both
  <2>5. /\ \A i \in 1..Len(x) : x[i] # <<>>
        /\ \A i \in 1..Len(y) : y[i] # <<>>
    BY <2>2, <2>3, <2>4
  <2> HIDE DEF x, y
  <2>6. /\ Len(x) \in Nat /\ Len(y) \in Nat
        /\ q \in Seq(Text) /\ Len(q) = Len(x) + Len(y)
        /\ \A i \in 1..Len(x) : q[i] = x[i]
        /\ \A i \in (Len(x) + 1)..(Len(x) + Len(y)) : q[i] = y[i - Len(x)]
    BY <2>3, BothAt, ZenonT(30)
  <2> HIDE DEF q
  <2>7. ASSUME NEW i \in 1..Len(q) PROVE q[i] # <<>>
    <3>1. CASE i \in 1..Len(x)
      BY <2>5, <2>6, <3>1
    <3>2. CASE i \notin 1..Len(x)
      <4>1. i \in (Len(x) + 1)..(Len(x) + Len(y)) /\ i - Len(x) \in 1..Len(y)
        BY <2>6, <3>2
      <4> QED
        BY <2>5, <2>6, <4>1
    <3> QED
      BY <3>1, <3>2
  <2>8. AloneIfEmpty(q)
    BY <2>7 DEF AloneIfEmpty
  <2>9. Good(t)
    BY <2>1, <2>6, <2>8
  <2> QED
    BY <1>4, <2>9
<1> QED
  BY <1>6, <1>7

(* ------------------------------------------------------------------------ *)
(* what the active calls of calculate_strings still write                     *)

PatternTask == [op : {"visit"}, tree : PatternParts]
                 \cup [op : {"right"}, at : Nat, tree : PatternParts]
                 \cup [op : {"leave"}, at : Nat]

\* The text up to an offset.
Cut(text, at) == SubSeq(text, 1, at)

\* The paths that a call still writes when the text is in the buffer.
Piece(task, text) ==
    IF task.op = "visit" THEN Below(text, PathsOf[task.tree])
    ELSE IF task.op = "right" THEN Below(Both(Cut(text, task.at), <<"2">>), PathsOf[task.tree])
    ELSE <<>>

\* rest[k] is what the outermost k calls write.
WritesBy(w, text, rest) ==
    /\ rest[0] = <<>>
    /\ \A k \in 0..Len(w) : rest[k] \in Seq(Text)
    /\ \A k \in 1..Len(w) : rest[k] = Both(Piece(w[Len(w) - k + 1], text), rest[k - 1])

Writes(w, text, list) == \E rest : WritesBy(w, text, rest) /\ rest[Len(w)] = list

\* The calls v wait for one that they made; they go back to offsets up to n,
\* an outer call not behind an inner one.
Suspended(v, n) ==
    /\ v \in Seq(PatternTask)
    /\ \A i \in 1..Len(v) : v[i].op # "visit" /\ v[i].at <= n
    /\ \A i, j \in 1..Len(v) : i <= j => v[j].at <= v[i].at

LEMMA TaskCases ==
    ASSUME NEW task \in PatternTask
    PROVE  /\ task.op \in {"visit", "right", "leave"}
           /\ task.op # "visit" => task.at \in Nat
           /\ task.op # "leave" => task.tree \in PatternParts
BY DEF PatternTask

LEMMA NewTasks ==
    ASSUME NEW at \in Nat, NEW tree \in PatternParts
    PROVE  /\ Visit(tree) \in PatternTask /\ Visit(tree).op = "visit" /\ Visit(tree).tree = tree
           /\ [op |-> "right", at |-> at, tree |-> tree] \in PatternTask
           /\ [op |-> "leave", at |-> at] \in PatternTask
BY DEF PatternTask, Visit

LEMMA ConsFacts ==
    ASSUME NEW S, NEW a \in S, NEW v \in Seq(S)
    PROVE  /\ Cons(a, v) \in Seq(S) /\ Cons(a, v) # <<>>
           /\ Head(Cons(a, v)) = a /\ Tail(Cons(a, v)) = v
           /\ Len(v) \in Nat /\ Len(Cons(a, v)) = Len(v) + 1
           /\ Cons(a, v)[1] = a
           /\ \A i \in 1..Len(v) : Cons(a, v)[i + 1] = v[i]
<1>1. <<a>> \in Seq(S) /\ Len(<<a>>) = 1 /\ <<a>>[1] = a
  OBVIOUS
<1> DEFINE w == <<a>> \o v
<1>2. /\ w \in Seq(S) /\ Len(w) = Len(v) + 1 /\ Len(v) \in Nat /\ w[1] = a
      /\ \A i \in 1..Len(v) : w[i + 1] = v[i]
  BY <1>1
<1> HIDE DEF w
<1>3. w # <<>> /\ Head(w) = a /\ Tail(w) \in Seq(S) /\ Len(Tail(w)) = Len(v)
      /\ \A i \in 1..Len(v) : Tail(w)[i] = w[i + 1]
  BY <1>2
<1>4. Tail(w) = v
  BY <1>2, <1>3, SameList
<1> QED
  BY <1>2, <1>3, <1>4 DEF Cons, w

\* The rest of a list, with places counted from its end.
LEMMA TailFacts ==
    ASSUME NEW S, NEW w \in Seq(S), w # <<>>
    PROVE  /\ Head(w) \in S /\ Tail(w) \in Seq(S) /\ Head(w) = w[1]
           /\ Len(w) \in Nat /\ Len(w) >= 1 /\ Len(Tail(w)) = Len(w) - 1
           /\ \A i \in 1..(Len(w) - 1) : Tail(w)[i] = w[i + 1]
OBVIOUS

LEMMA WritesNothing ==
    ASSUME NEW text, NEW list
    PROVE  Writes(<<>>, text, list) <=> list = <<>>
<1>1. Len(<<>>) = 0 /\ <<>> \in Seq(Text)
  OBVIOUS
<1>2. Writes(<<>>, text, list) => list = <<>>
  BY <1>1 DEF Writes, WritesBy
<1> DEFINE rest == [k \in {0} |-> <<>>]
<1>3. WritesBy(<<>>, text, rest)
  BY <1>1 DEF WritesBy
<1>4. rest[Len(<<>>)] = <<>>
  BY <1>1
<1> HIDE DEF rest
<1>5. Writes(<<>>, text, <<>>)
  BY <1>3, <1>4 DEF Writes
<1> QED
  BY <1>2, <1>5

LEMMA WritesPop ==
    ASSUME NEW w \in Seq(PatternTask), w # <<>>, NEW text, NEW list, Writes(w, text, list)
    PROVE  \E more \in Seq(Text) : /\ Writes(Tail(w), text, more)
                                   /\ list = Both(Piece(Head(w), text), more)
<1> DEFINE v == Tail(w)
           n == Len(v)
<1>1. PICK rest : WritesBy(w, text, rest) /\ rest[Len(w)] = list
  BY DEF Writes
<1>2. /\ v \in Seq(PatternTask) /\ Head(w) = w[1] /\ n \in Nat /\ Len(w) = n + 1
      /\ \A i \in 1..n : v[i] = w[i + 1]
  BY TailFacts
<1> HIDE DEF v, n
<1>3. /\ rest[0] = <<>>
      /\ \A k \in 0..(n + 1) : rest[k] \in Seq(Text)
      /\ \A k \in 1..(n + 1) : rest[k] = Both(Piece(w[(n + 1) - k + 1], text), rest[k - 1])
  BY <1>1, <1>2 DEF WritesBy
<1>4. ASSUME NEW k \in 1..n
      PROVE  rest[k] = Both(Piece(v[n - k + 1], text), rest[k - 1])
  <2>1. /\ k \in 1..(n + 1) /\ n - k + 1 \in 1..n /\ (n - k + 1) + 1 = (n + 1) - k + 1
    BY <1>2
  <2>2. v[n - k + 1] = w[(n + 1) - k + 1]
    BY <1>2, <2>1
  <2> QED
    BY <1>3, <2>1, <2>2
<1>5. WritesBy(v, text, rest)
  BY <1>2, <1>3, <1>4 DEF WritesBy, n
<1>6. rest[n + 1] = Both(Piece(w[1], text), rest[n])
  <2>1. n + 1 \in 1..(n + 1) /\ (n + 1) - (n + 1) + 1 = 1 /\ (n + 1) - 1 = n
    BY <1>2
  <2>2. rest[n + 1] = Both(Piece(w[(n + 1) - (n + 1) + 1], text), rest[(n + 1) - 1])
    BY <1>3, <2>1
  <2> QED
    BY <2>1, <2>2
<1>7. Writes(v, text, rest[n]) /\ rest[n] \in Seq(Text)
  BY <1>2, <1>3, <1>5 DEF Writes, n
<1> QED
  BY <1>1, <1>2, <1>6, <1>7 DEF v

LEMMA WritesPush ==
    ASSUME NEW task \in PatternTask, NEW v \in Seq(PatternTask), NEW text, NEW more,
           Writes(v, text, more), Piece(task, text) \in Seq(Text)
    PROVE  Writes(Cons(task, v), text, Both(Piece(task, text), more))
<1> DEFINE w == Cons(task, v)
           n == Len(v)
<1>1. PICK rest : WritesBy(v, text, rest) /\ rest[n] = more
  BY DEF Writes
<1>2. /\ n \in Nat /\ Len(w) = n + 1 /\ w[1] = task
      /\ \A i \in 1..n : w[i + 1] = v[i]
  BY ConsFacts
<1>3. /\ rest[0] = <<>>
      /\ \A k \in 0..n : rest[k] \in Seq(Text)
      /\ \A k \in 1..n : rest[k] = Both(Piece(v[n - k + 1], text), rest[k - 1])
  BY <1>1 DEF WritesBy
<1> DEFINE last == Both(Piece(task, text), more)
           longer == [k \in 0..(n + 1) |-> IF k = n + 1 THEN last ELSE rest[k]]
<1> HIDE DEF w, n
<1>4. n \in 0..n /\ more \in Seq(Text) /\ last \in Seq(Text)
  <2>1. n \in 0..n /\ more \in Seq(Text)
    BY <1>1, <1>2, <1>3
  <2> QED
    BY <2>1, BothAt
<1> HIDE DEF last
<1>5. /\ longer[n + 1] = last /\ \A k \in 0..n : longer[k] = rest[k]
  BY <1>2
<1> HIDE DEF longer
<1>6. longer[0] = <<>>
  BY <1>2, <1>3, <1>5
<1>7. ASSUME NEW k \in 0..(n + 1) PROVE longer[k] \in Seq(Text)
  <2>1. k = n + 1 \/ k \in 0..n
    BY <1>2
  <2> QED
    BY <1>3, <1>4, <1>5, <2>1
<1>8. ASSUME NEW k \in 1..(n + 1)
      PROVE  longer[k] = Both(Piece(w[(n + 1) - k + 1], text), longer[k - 1])
  <2>1. CASE k = n + 1
    <3>1. (n + 1) - k + 1 = 1 /\ k - 1 = n
      BY <1>2, <2>1
    <3>2. w[(n + 1) - k + 1] = task /\ longer[k - 1] = more
      BY <1>1, <1>2, <1>4, <1>5, <3>1 DEF n
    <3> QED
      BY <1>5, <2>1, <3>2 DEF last
  <2>2. CASE k # n + 1
    <3>1. /\ k \in 1..n /\ k \in 0..n /\ k - 1 \in 0..n
          /\ n - k + 1 \in 1..n /\ (n - k + 1) + 1 = (n + 1) - k + 1
      BY <1>2, <2>2
    <3>2. w[(n + 1) - k + 1] = v[n - k + 1]
      BY <1>2, <3>1, SMTT(30)
    <3>3. longer[k] = rest[k] /\ longer[k - 1] = rest[k - 1]
      BY <1>5, <3>1
    <3> QED
      BY <1>3, <3>1, <3>2, <3>3
  <2> QED
    BY <2>1, <2>2
<1>9. WritesBy(w, text, longer)
  BY <1>2, <1>6, <1>7, <1>8 DEF WritesBy
<1>10. Writes(w, text, last)
  BY <1>2, <1>5, <1>9 DEF Writes
<1> QED
  BY <1>10 DEF w, last

\* Calls that are suspended write what they would, whatever is in the buffer
\* behind the offsets that they go back to.
LEMMA WritesSame ==
    ASSUME NEW v, NEW n \in Nat, Suspended(v, n), NEW text \in Text, NEW other \in Text,
           n <= Len(text), n <= Len(other), \A i \in 1..n : text[i] = other[i],
           NEW list, Writes(v, text, list)
    PROVE  Writes(v, other, list)
<1>1. PICK rest : WritesBy(v, text, rest) /\ rest[Len(v)] = list
  BY DEF Writes
<1>2. /\ v \in Seq(PatternTask) /\ Len(v) \in Nat
      /\ \A i \in 1..Len(v) : v[i] \in PatternTask /\ v[i].op # "visit" /\ v[i].at <= n
  BY DEF Suspended
<1>3. ASSUME NEW at \in Nat, at <= n PROVE Cut(text, at) = Cut(other, at)
  <2>1. /\ Cut(text, at) \in Text /\ Len(Cut(text, at)) = at
        /\ \A i \in 1..at : Cut(text, at)[i] = text[i]
    BY <1>3 DEF Cut, Text
  <2>2. /\ Cut(other, at) \in Text /\ Len(Cut(other, at)) = at
        /\ \A i \in 1..at : Cut(other, at)[i] = other[i]
    BY <1>3 DEF Cut, Text
  <2>3. \A i \in 1..at : Cut(text, at)[i] = Cut(other, at)[i]
    BY <1>3, <2>1, <2>2
  <2> QED
    BY <2>1, <2>2, <2>3, SameText
<1>4. ASSUME NEW i \in 1..Len(v) PROVE Piece(v[i], text) = Piece(v[i], other)
  <2>1. v[i].op # "visit" /\ v[i].at \in Nat /\ v[i].at <= n
    BY <1>2, TaskCases
  <2>2. Cut(text, v[i].at) = Cut(other, v[i].at)
    BY <1>3, <2>1
  <2> QED
    BY <2>1, <2>2 DEF Piece
<1>5. ASSUME NEW k \in 1..Len(v)
      PROVE  rest[k] = Both(Piece(v[Len(v) - k + 1], other), rest[k - 1])
  <2>1. Len(v) - k + 1 \in 1..Len(v)
    BY <1>2
  <2> QED
    BY <1>1, <1>4, <2>1 DEF WritesBy
<1>6. WritesBy(v, other, rest)
  BY <1>1, <1>5 DEF WritesBy
<1> QED
  BY <1>1, <1>6 DEF Writes

LEMMA SuspendedPop ==
    ASSUME NEW w, NEW n, Suspended(w, n), w # <<>>
    PROVE  /\ w \in Seq(PatternTask) /\ Head(w) \in PatternTask
           /\ Head(w).op # "visit" /\ Head(w).at \in Nat /\ Head(w).at <= n
           /\ Suspended(Tail(w), Head(w).at)
<1>1. /\ w \in Seq(PatternTask)
      /\ \A i \in 1..Len(w) : w[i].op # "visit" /\ w[i].at <= n
      /\ \A i, j \in 1..Len(w) : i <= j => w[j].at <= w[i].at
  BY DEF Suspended
<1> DEFINE v == Tail(w)
<1>2. /\ Head(w) \in PatternTask /\ v \in Seq(PatternTask) /\ Head(w) = w[1]
      /\ Len(w) \in Nat /\ Len(w) >= 1 /\ Len(v) = Len(w) - 1
      /\ \A i \in 1..(Len(w) - 1) : v[i] = w[i + 1]
  BY <1>1, TailFacts
<1> HIDE DEF v
<1>3. 1 \in 1..Len(w) /\ \A i \in 1..Len(v) : i + 1 \in 1..Len(w) /\ 1 <= i + 1 /\ v[i] = w[i + 1]
  BY <1>2
<1>4. Head(w).op # "visit" /\ Head(w).at \in Nat /\ Head(w).at <= n
  BY <1>1, <1>2, <1>3, TaskCases
<1>5. \A i \in 1..Len(v) : v[i].op # "visit" /\ v[i].at <= Head(w).at
  BY <1>1, <1>2, <1>3
<1>6. ASSUME NEW i \in 1..Len(v), NEW j \in 1..Len(v), i <= j PROVE v[j].at <= v[i].at
  <2>1. i + 1 <= j + 1
    BY <1>6
  <2> QED
    BY <1>1, <1>3, <2>1
<1>7. Suspended(v, Head(w).at)
  BY <1>2, <1>5, <1>6 DEF Suspended
<1> QED
  BY <1>1, <1>2, <1>4, <1>7 DEF v

LEMMA SuspendedPush ==
    ASSUME NEW task \in PatternTask, task.op # "visit", NEW v, Suspended(v, task.at),
           NEW n \in Nat, task.at <= n
    PROVE  Suspended(Cons(task, v), n)
<1> DEFINE w == Cons(task, v)
<1>1. /\ v \in Seq(PatternTask)
      /\ \A i \in 1..Len(v) : v[i] \in PatternTask /\ v[i].op # "visit" /\ v[i].at <= task.at
      /\ \A i, j \in 1..Len(v) : i <= j => v[j].at <= v[i].at
  BY DEF Suspended
<1>2. /\ w \in Seq(PatternTask)
      /\ Len(v) \in Nat /\ Len(w) = Len(v) + 1 /\ w[1] = task
      /\ \A i \in 1..Len(v) : w[i + 1] = v[i]
  BY <1>1, ConsFacts
<1> HIDE DEF w
<1>3. ASSUME NEW i \in 1..Len(w)
      PROVE  \/ i = 1 /\ w[i] = task
             \/ i - 1 \in 1..Len(v) /\ w[i] = v[i - 1]
  <2>1. CASE i = 1
    BY <1>2, <2>1
  <2>2. CASE i # 1
    <3>1. i - 1 \in 1..Len(v) /\ (i - 1) + 1 = i
      BY <1>2, <2>2
    <3> QED
      BY <1>2, <3>1
  <2> QED
    BY <2>1, <2>2
<1>4. task.at \in Nat /\ \A i \in 1..Len(v) : v[i].at \in Nat
  BY <1>1, TaskCases
<1>5. ASSUME NEW i \in 1..Len(w) PROVE w[i].op # "visit" /\ w[i].at <= task.at
  <2>1. CASE i = 1 /\ w[i] = task
    BY <1>4, <2>1
  <2>2. CASE i - 1 \in 1..Len(v) /\ w[i] = v[i - 1]
    BY <1>1, <2>2
  <2> QED
    BY <1>3, <2>1, <2>2
<1>6. \A i \in 1..Len(w) : w[i].op # "visit" /\ w[i].at <= n /\ w[i] \in PatternTask
  <2> TAKE i \in 1..Len(w)
  <2>1. w[i] \in PatternTask
    BY <1>2
  <2>2. w[i].op # "visit" /\ w[i].at <= task.at
    BY <1>5
  <2>3. w[i].at \in Nat
    BY <2>1, <2>2, TaskCases
  <2> QED
    BY <1>4, <2>1, <2>2, <2>3
<1>7. ASSUME NEW i \in 1..Len(w), NEW j \in 1..Len(w), i <= j PROVE w[j].at <= w[i].at
  <2>1. CASE i = 1 /\ w[i] = task
    BY <1>5, <2>1
  <2>2. CASE i - 1 \in 1..Len(v) /\ w[i] = v[i - 1]
    <3>1. j # 1 /\ i \in Nat /\ j \in Nat
      BY <1>2, <1>7, <2>2
    <3>2. j - 1 \in 1..Len(v) /\ w[j] = v[j - 1] /\ i - 1 <= j - 1
      BY <1>3, <1>7, <3>1
    <3> QED
      BY <1>1, <2>2, <3>2
  <2> QED
    BY <1>3, <2>1, <2>2
<1>8. Suspended(w, n)
  BY <1>2, <1>6, <1>7 DEF Suspended
<1> QED
  BY <1>8 DEF w

LEMMA SuspendedMore ==
    ASSUME NEW v, NEW m \in Nat, NEW n \in Nat, Suspended(v, m), m <= n
    PROVE  Suspended(v, n)
<1>1. \A i \in 1..Len(v) : v[i] \in PatternTask
  BY DEF Suspended
<1>2. ASSUME NEW i \in 1..Len(v) PROVE v[i].op # "visit" /\ v[i].at <= n
  <2>1. v[i].op # "visit" /\ v[i].at <= m
    BY DEF Suspended
  <2>2. v[i].at \in Nat
    BY <1>1, <2>1, TaskCases
  <2> QED
    BY <2>1, <2>2
<1> QED
  BY <1>2 DEF Suspended

\* While calculate_strings is at work: the paths that were written and those
\* that the active calls still write are the paths K of the pattern.
StringsAs(w, text, done, K) ==
    /\ text \in Text /\ done \in Seq(Text) /\ w \in Seq(PatternTask)
    /\ \/ Suspended(w, Len(text))
       \/ w # <<>> /\ Head(w).op = "visit" /\ Suspended(Tail(w), Len(text))
    /\ \E list \in Seq(Text) : Writes(w, text, list) /\ K = Both(done, list)

LEMMA NothingSuspended ==
    ASSUME NEW n \in Nat
    PROVE  Suspended(<<>>, n)
BY DEF Suspended

\* One character more.
LEMMA AddChar ==
    ASSUME NEW text \in Text, NEW c \in Char
    PROVE  /\ Both(text, <<c>>) \in Text /\ Len(text) \in Nat
           /\ Len(Both(text, <<c>>)) = Len(text) + 1
           /\ \A i \in 1..Len(text) : Both(text, <<c>>)[i] = text[i]
<1>1. text \in Seq(Char) /\ <<c>> \in Seq(Char) /\ Len(<<c>>) = 1
  BY DEF Text
<1>2. /\ Both(text, <<c>>) \in Seq(Char) /\ Len(text) \in Nat
      /\ Len(Both(text, <<c>>)) = Len(text) + 1
      /\ \A i \in 1..Len(text) : Both(text, <<c>>)[i] = text[i]
  BY <1>1 DEF Both
<1> QED
  BY <1>2 DEF Text

LEMMA CutIs ==
    ASSUME NEW text \in Text, NEW at \in Nat, at <= Len(text)
    PROVE  /\ Cut(text, at) \in Text /\ Len(Cut(text, at)) = at
           /\ \A i \in 1..at : Cut(text, at)[i] = text[i]
BY DEF Cut, Text

LEMMA PieceType ==
    ASSUME NEW task \in PatternTask, NEW text \in Text,
           task.op = "right" => task.at <= Len(text)
    PROVE  Piece(task, text) \in Seq(Text)
<1>1. CASE task.op = "visit"
  <2>1. PathsOf[task.tree] \in Seq(Text)
    BY <1>1, TaskCases, PathsOfType
  <2> QED
    BY <1>1, <2>1, BelowIs DEF Piece
<1>2. CASE task.op = "right"
  <2>1. PathsOf[task.tree] \in Seq(Text)
    BY <1>2, TaskCases, PathsOfType
  <2>2. <<"2">> \in Text
    BY Branching DEF Text
  <2>3. Cut(text, task.at) \in Text
    BY <1>2, TaskCases, CutIs
  <2>4. Both(Cut(text, task.at), <<"2">>) \in Text
    BY <2>2, <2>3, TextConcats
  <2> QED
    BY <1>2, <2>1, <2>4, BelowIs DEF Piece
<1>3. CASE task.op = "leave"
  BY <1>3 DEF Piece
<1> QED
  BY <1>1, <1>2, <1>3, TaskCases

LEMMA ListConcats ==
    /\ \A a, b \in Seq(Text) : Both(a, b) \in Seq(Text)
    /\ \A a \in Seq(Text) : Both(a, <<>>) = a /\ Both(<<>>, a) = a
    /\ \A a, b, c \in Seq(Text) : Both(Both(a, b), c) = Both(a, Both(b, c))
BY Concats

LEMMA StringsBegin ==
    ASSUME NEW tree \in PatternParts
    PROVE  StringsAs(<<Visit(tree)>>, <<>>, <<>>, PathsOf[tree])
<1> DEFINE task == Visit(tree)
           K == PathsOf[tree]
           w == <<task>>
<1>1. task \in PatternTask /\ task.op = "visit" /\ task.tree = tree
  <2>1. 0 \in Nat
    OBVIOUS
  <2> QED
    BY <2>1, NewTasks
<1>2. <<>> \in Text /\ <<>> \in Seq(Text) /\ <<>> \in Seq(PatternTask) /\ K \in Seq(Text)
  BY PathsOfType DEF Text
<1> HIDE DEF task, K
<1>3. Cons(task, <<>>) = w
  BY DEF Cons
<1> HIDE DEF w
<1>4. w \in Seq(PatternTask) /\ w # <<>> /\ Head(w) = task /\ Tail(w) = <<>>
  <2>1. task \in PatternTask /\ <<>> \in Seq(PatternTask)
    BY <1>1, <1>2
  <2>2. /\ Cons(task, <<>>) \in Seq(PatternTask) /\ Cons(task, <<>>) # <<>>
        /\ Head(Cons(task, <<>>)) = task /\ Tail(Cons(task, <<>>)) = <<>>
    BY <2>1, ConsFacts, ZenonT(30)
  <2> QED
    BY <1>3, <2>2
<1>5. Piece(task, <<>>) = K
  <2>1. Below(<<>>, K) \in Seq(Text) /\ Len(Below(<<>>, K)) = Len(K)
        /\ \A i \in 1..Len(K) : Below(<<>>, K)[i] = Both(<<>>, K[i])
    BY <1>2, BelowIs
  <2>2. \A i \in 1..Len(K) : K[i] \in Text
    BY <1>2
  <2>3. \A i \in 1..Len(K) : Both(<<>>, K[i]) = K[i]
    BY <2>2, TextConcats
  <2>4. Below(<<>>, K) = K
    BY <1>2, <2>1, <2>3, SameList
  <2> QED
    BY <1>1, <2>4 DEF Piece, K
<1>6. Writes(<<>>, <<>>, <<>>)
  BY WritesNothing
<1>7. Writes(w, <<>>, Both(K, <<>>))
  BY <1>1, <1>2, <1>3, <1>5, <1>6, WritesPush
<1>8. Both(K, <<>>) = K /\ K = Both(<<>>, K)
  BY <1>2, ListConcats
<1>9. Len(<<>>) \in Nat /\ Suspended(<<>>, Len(<<>>))
  BY NothingSuspended
<1>10. StringsAs(w, <<>>, <<>>, K)
  BY <1>1, <1>2, <1>4, <1>7, <1>8, <1>9 DEF StringsAs
<1> QED
  BY <1>10 DEF w, task, K

\* What a visit finds.
LEMMA StringsVisit ==
    ASSUME NEW w, NEW text, NEW done, NEW K, StringsAs(w, text, done, K),
           w # <<>>, Head(w).op = "visit"
    PROVE  /\ text \in Text /\ Len(text) \in Nat /\ done \in Seq(Text)
           /\ Head(w).tree \in PatternParts
           /\ Tail(w) \in Seq(PatternTask) /\ Suspended(Tail(w), Len(text))
           /\ PathsOf[Head(w).tree] \in Seq(Text)
           /\ \E more \in Seq(Text) :
                 /\ Writes(Tail(w), text, more)
                 /\ K = Both(done, Both(Below(text, PathsOf[Head(w).tree]), more))
<1>1. /\ text \in Text /\ done \in Seq(Text) /\ w \in Seq(PatternTask)
      /\ \/ Suspended(w, Len(text))
         \/ w # <<>> /\ Head(w).op = "visit" /\ Suspended(Tail(w), Len(text))
  BY DEF StringsAs
<1>2. PICK list \in Seq(Text) : Writes(w, text, list) /\ K = Both(done, list)
  BY DEF StringsAs
<1>3. Suspended(Tail(w), Len(text))
  BY <1>1, SuspendedPop
<1>4. PICK more \in Seq(Text) : Writes(Tail(w), text, more) /\ list = Both(Piece(Head(w), text), more)
  BY <1>1, <1>2, WritesPop
<1>5. Head(w) \in PatternTask /\ Tail(w) \in Seq(PatternTask)
  BY <1>1, TailFacts
<1>6. Head(w).tree \in PatternParts
  BY <1>5, TaskCases
<1>7. Piece(Head(w), text) = Below(text, PathsOf[Head(w).tree])
  BY DEF Piece
<1>8. Len(text) \in Nat
  BY <1>1 DEF Text
<1> QED
  BY <1>1, <1>2, <1>3, <1>4, <1>5, <1>6, <1>7, <1>8, PathsOfType

\* What a call that was suspended finds.
LEMMA StringsResume ==
    ASSUME NEW w, NEW text, NEW done, NEW K, StringsAs(w, text, done, K),
           w # <<>>, Head(w).op # "visit"
    PROVE  /\ text \in Text /\ Len(text) \in Nat /\ done \in Seq(Text)
           /\ Head(w) \in PatternTask /\ Head(w).at \in Nat /\ Head(w).at <= Len(text)
           /\ Tail(w) \in Seq(PatternTask) /\ Suspended(Tail(w), Head(w).at)
           /\ Cut(text, Head(w).at) \in Text /\ Len(Cut(text, Head(w).at)) = Head(w).at
           /\ \A i \in 1..Head(w).at : text[i] = Cut(text, Head(w).at)[i]
           /\ \E more \in Seq(Text) :
                 /\ Writes(Tail(w), text, more)
                 /\ K = Both(done, Both(Piece(Head(w), text), more))
<1>1. /\ text \in Text /\ done \in Seq(Text) /\ w \in Seq(PatternTask)
      /\ Suspended(w, Len(text))
  BY DEF StringsAs
<1>2. PICK list \in Seq(Text) : Writes(w, text, list) /\ K = Both(done, list)
  BY DEF StringsAs
<1>3. /\ Head(w) \in PatternTask /\ Head(w).at \in Nat /\ Head(w).at <= Len(text)
      /\ Suspended(Tail(w), Head(w).at)
  BY <1>1, SuspendedPop
<1>4. PICK more \in Seq(Text) : Writes(Tail(w), text, more) /\ list = Both(Piece(Head(w), text), more)
  BY <1>1, <1>2, WritesPop
<1>5. Tail(w) \in Seq(PatternTask)
  BY <1>1, TailFacts
<1>6. Len(text) \in Nat
  BY <1>1 DEF Text
<1> DEFINE at == Head(w).at
<1> HIDE DEF at
<1>7. at \in Nat /\ at <= Len(text)
  BY <1>3 DEF at
<1>8. Cut(text, at) \in Text /\ Len(Cut(text, at)) = at /\ \A i \in 1..at : text[i] = Cut(text, at)[i]
  BY <1>1, <1>6, <1>7, CutIs
<1> QED
  BY <1>1, <1>2, <1>3, <1>4, <1>5, <1>6, <1>8 DEF at

LEMMA StringsLeaf ==
    ASSUME NEW w, NEW text, NEW done, NEW K, StringsAs(w, text, done, K),
           w # <<>>, Head(w).op = "visit", IsLeaf(Head(w).tree)
    PROVE  StringsAs(Tail(w), text, Append(done, text \o PathEnd(Head(w).tree.label)), K)
<1> DEFINE tree == Head(w).tree
           end == PathEnd(tree.label)
           path == Both(text, end)
           longer == Append(done, path)
<1>1. /\ text \in Text /\ Len(text) \in Nat /\ done \in Seq(Text)
      /\ tree \in PatternParts
      /\ Tail(w) \in Seq(PatternTask) /\ Suspended(Tail(w), Len(text))
  BY StringsVisit
<1>2. PICK more \in Seq(Text) : /\ Writes(Tail(w), text, more)
                                /\ K = Both(done, Both(Below(text, PathsOf[tree]), more))
  BY StringsVisit
<1>3. PathsOf[tree] = <<end>> /\ end \in Text
  BY <1>1, PathsOfCases, PatternFacts
<1> HIDE DEF tree, end
<1>4. Below(text, <<end>>) = <<path>>
  BY DEF Below, Both
<1>5. path \in Text
  BY <1>1, <1>3, TextConcats
<1> HIDE DEF path
<1>6. <<path>> \in Seq(Text) /\ longer = Both(done, <<path>>)
  BY <1>1, <1>5 DEF Both
<1>7. longer \in Seq(Text)
  BY <1>1, <1>5
<1>8. Both(done, Both(<<path>>, more)) = Both(longer, more)
  <2>1. Both(Both(done, <<path>>), more) = Both(done, Both(<<path>>, more))
    BY <1>1, <1>6, ListConcats, Zenon
  <2> QED
    BY <1>6, <2>1
<1>9. K = Both(longer, more)
  BY <1>2, <1>3, <1>4, <1>8
<1> HIDE DEF longer
<1>10. StringsAs(Tail(w), text, longer, K)
  BY <1>1, <1>2, <1>7, <1>9 DEF StringsAs
<1> QED
  BY <1>10 DEF longer, path, end, tree, Both

LEMMA StringsLeave ==
    ASSUME NEW w, NEW text, NEW done, NEW K, StringsAs(w, text, done, K),
           w # <<>>, Head(w).op = "leave"
    PROVE  StringsAs(Tail(w), Cut(text, Head(w).at), done, K)
<1> DEFINE at == Head(w).at
           v == Tail(w)
           other == Cut(text, at)
<1>1. /\ text \in Text /\ Len(text) \in Nat /\ done \in Seq(Text)
      /\ at \in Nat /\ at <= Len(text)
      /\ v \in Seq(PatternTask) /\ Suspended(v, at)
      /\ other \in Text /\ Len(other) = at /\ \A i \in 1..at : text[i] = other[i]
  BY StringsResume
<1>2. PICK more \in Seq(Text) : Writes(v, text, more) /\ K = Both(done, Both(Piece(Head(w), text), more))
  BY StringsResume
<1>3. Piece(Head(w), text) = <<>>
  BY DEF Piece
<1> HIDE DEF at, v, other
<1>4. Writes(v, other, more)
  <2>1. at <= Len(other)
    BY <1>1
  <2> QED
    BY <1>1, <1>2, <2>1, WritesSame
<1>5. K = Both(done, more)
  BY <1>2, <1>3, ListConcats
<1>6. StringsAs(v, other, done, K)
  BY <1>1, <1>4, <1>5 DEF StringsAs
<1> QED
  BY <1>6 DEF v, other, at

LEMMA StringsRight ==
    ASSUME NEW w, NEW text, NEW done, NEW K, StringsAs(w, text, done, K),
           w # <<>>, Head(w).op = "right"
    PROVE  StringsAs(<<Visit(Head(w).tree)>> \o Tail(w), Cut(text, Head(w).at) \o <<"2">>, done, K)
<1> DEFINE at == Head(w).at
           tree == Head(w).tree
           v == Tail(w)
           cut == Cut(text, at)
           other == Both(cut, <<"2">>)
           task == Visit(tree)
<1>1. /\ text \in Text /\ Len(text) \in Nat /\ done \in Seq(Text)
      /\ Head(w) \in PatternTask /\ at \in Nat /\ at <= Len(text)
      /\ v \in Seq(PatternTask) /\ Suspended(v, at)
      /\ cut \in Text /\ Len(cut) = at /\ \A i \in 1..at : text[i] = cut[i]
  BY StringsResume
<1>2. PICK more \in Seq(Text) : Writes(v, text, more) /\ K = Both(done, Both(Piece(Head(w), text), more))
  BY StringsResume
<1>3. tree \in PatternParts
  BY <1>1, TaskCases
<1>4. task \in PatternTask /\ task.op = "visit" /\ task.tree = tree
  BY <1>1, <1>3, NewTasks
<1>5. Piece(Head(w), text) = Below(other, PathsOf[tree])
  BY DEF Piece
<1> HIDE DEF at, v, tree, cut, task
<1>6. /\ other \in Text /\ Len(other) = at + 1 /\ \A i \in 1..at : other[i] = cut[i]
  BY <1>1, Branching, AddChar
<1> HIDE DEF other
<1>7. Writes(v, other, more)
  <2>1. at <= Len(other) /\ \A i \in 1..at : text[i] = other[i]
    BY <1>1, <1>6
  <2> QED
    BY <1>1, <1>2, <1>6, <2>1, WritesSame
<1>8. Piece(task, other) = Below(other, PathsOf[tree]) /\ Piece(task, other) \in Seq(Text)
  BY <1>4, <1>6, PieceType DEF Piece
<1> DEFINE x == Cons(task, v)
           list == Both(Piece(task, other), more)
<1>9. x \in Seq(PatternTask) /\ x # <<>> /\ Head(x) = task /\ Tail(x) = v
  BY <1>1, <1>4, ConsFacts
<1>10. Writes(x, other, list)
  BY <1>1, <1>4, <1>7, <1>8, WritesPush
<1>11. list \in Seq(Text) /\ K = Both(done, list)
  BY <1>2, <1>5, <1>8, ListConcats
<1>12. Suspended(v, Len(other))
  BY <1>1, <1>6, SuspendedMore
<1> HIDE DEF x, list
<1>13. StringsAs(x, other, done, K)
  BY <1>1, <1>4, <1>6, <1>9, <1>10, <1>11, <1>12 DEF StringsAs
<1> QED
  BY <1>13 DEF x, other, cut, v, task, tree, at, Cons, Both

LEMMA ThreeCalls ==
    ASSUME NEW S, NEW a \in S, NEW b \in S, NEW c \in S, NEW v \in Seq(S)
    PROVE  Cons(a, Cons(b, Cons(c, v))) = <<a, b, c>> \o v
<1> DEFINE x == Cons(c, v)
           y == Cons(b, x)
           z == Cons(a, y)
           Longer(d, u, w) == /\ w \in Seq(S) /\ Len(w) = Len(u) + 1
                              /\ w[1] = d /\ \A i \in 1..Len(u) : w[i + 1] = u[i]
           three == <<a, b, c>>
           all == Both(three, v)
<1>0. ASSUME NEW d \in S, NEW u \in Seq(S) PROVE Longer(d, u, Cons(d, u))
  BY ConsFacts
<1> HIDE DEF Longer
<1>1. Longer(c, v, x) /\ Len(v) \in Nat /\ Len(x) \in Nat
  <2>1. Longer(c, v, x) /\ Len(v) \in Nat
    BY <1>0
  <2> QED
    BY <2>1 DEF Longer
<1> HIDE DEF x
<1>2. Longer(b, x, y)
  BY <1>0, <1>1 DEF Longer
<1> HIDE DEF y
<1>3. Longer(a, y, z)
  BY <1>0, <1>2 DEF Longer
<1> HIDE DEF z
<1> USE DEF Longer
<1>4. three \in Seq(S) /\ Len(three) = 3 /\ three[1] = a /\ three[2] = b /\ three[3] = c
  OBVIOUS
<1> HIDE DEF three
<1>5. /\ all \in Seq(S) /\ Len(all) = Len(v) + 3
      /\ all[1] = a /\ all[2] = b /\ all[3] = c
      /\ \A i \in 4..(Len(v) + 3) : all[i] = v[i - 3]
  <2>1. /\ all \in Seq(S) /\ Len(all) = Len(three) + Len(v)
        /\ \A i \in 1..Len(three) : all[i] = three[i]
        /\ \A i \in (Len(three) + 1)..(Len(three) + Len(v)) : all[i] = v[i - Len(three)]
    BY <1>4, BothAt, Zenon
  <2> HIDE DEF all
  <2> QED
    BY <1>1, <1>4, <2>1
<1> HIDE DEF all
<1>6. Len(z) = Len(v) + 3
  BY <1>1, <1>2, <1>3
<1>7. ASSUME NEW i \in 1..Len(z) PROVE z[i] = all[i]
  <2>1. CASE i \in 1..3
    <3>1. 1 \in 1..Len(y) /\ 2 \in 1..Len(y) /\ 1 \in 1..Len(x) /\ 1 + 1 = 2 /\ 2 + 1 = 3
      BY <1>1, <1>2
    <3>2. y[2] = c
      BY <1>1, <1>2, <3>1
    <3>3. z[2] = b /\ z[3] = c
      BY <1>2, <1>3, <3>1, <3>2
    <3>4. i = 1 \/ i = 2 \/ i = 3
      BY <2>1
    <3> QED
      BY <1>3, <1>5, <3>3, <3>4
  <2>2. CASE i \notin 1..3
    <3>1. /\ i \in 4..(Len(v) + 3) /\ i - 3 \in 1..Len(v)
          /\ i - 2 \in 1..Len(x) /\ i - 1 \in 1..Len(y)
          /\ (i - 3) + 1 = i - 2 /\ (i - 2) + 1 = i - 1 /\ (i - 1) + 1 = i
      BY <1>1, <1>2, <1>6, <2>2
    <3>2. x[i - 2] = v[i - 3] /\ y[i - 1] = x[i - 2] /\ z[i] = y[i - 1]
      BY <1>1, <1>2, <1>3, <3>1
    <3> QED
      BY <1>5, <3>1, <3>2
  <2> QED
    BY <2>1, <2>2
<1>8. z = all
  BY <1>3, <1>5, <1>6, <1>7, SameList
<1> QED
  BY <1>8 DEF z, y, x, all, three, Both

LEMMA StringsApplication ==
    ASSUME NEW w, NEW text, NEW done, NEW K, StringsAs(w, text, done, K),
           w # <<>>, Head(w).op = "visit", ~IsLeaf(Head(w).tree)
    PROVE  StringsAs(<< Visit(Head(w).tree.left),
                        [op |-> "right", at |-> Len(text \o <<"@">>), tree |-> Head(w).tree.right],
                        [op |-> "leave", at |-> Len(text)] >> \o Tail(w),
                     (text \o <<"@">>) \o <<"1">>, done, K)
<1> DEFINE tree == Head(w).tree
           v == Tail(w)
           n == Len(text)
           labelled == Both(text, <<"@">>)
           other == Both(labelled, <<"1">>)
           left == Visit(tree.left)
           right == [op |-> "right", at |-> n + 1, tree |-> tree.right]
           leave == [op |-> "leave", at |-> n]
           a == PathsOf[tree.left]
           b == PathsOf[tree.right]
<1>1. /\ text \in Text /\ n \in Nat /\ done \in Seq(Text)
      /\ tree \in PatternParts
      /\ v \in Seq(PatternTask) /\ Suspended(v, n)
  BY StringsVisit
<1>2. PICK more \in Seq(Text) : /\ Writes(v, text, more)
                                /\ K = Both(done, Both(Below(text, PathsOf[tree]), more))
  BY StringsVisit
<1>3. tree.left \in PatternParts /\ tree.right \in PatternParts
  BY <1>1, PatternFacts
<1>4. /\ PathsOf[tree] = Both(Below(<<"@", "1">>, a), Below(<<"@", "2">>, b))
      /\ a \in Seq(Text) /\ b \in Seq(Text)
  BY <1>1, <1>3, PathsOfCases, PathsOfType
<1>5. /\ left \in PatternTask /\ left.op = "visit" /\ left.tree = tree.left
      /\ right \in PatternTask /\ right.op = "right" /\ right.tree = tree.right /\ right.at = n + 1
      /\ leave \in PatternTask /\ leave.op = "leave" /\ leave.at = n
  <2>1. n + 1 \in Nat
    BY <1>1
  <2> HIDE DEF tree, n
  <2>2. left \in PatternTask /\ left.op = "visit" /\ left.tree = tree.left
    BY <1>1, <1>3, NewTasks
  <2>3. right \in PatternTask
    BY <1>3, <2>1, NewTasks
  <2>4. leave \in PatternTask
    BY <1>1, <1>3, NewTasks
  <2> QED
    BY <2>2, <2>3, <2>4
<1> HIDE DEF tree, left, right, leave, a, b, v
<1>6. <<"@">> \in Text /\ <<"1">> \in Text /\ <<"2">> \in Text
  BY Branching DEF Text
<1>7. /\ labelled \in Text /\ Len(labelled) = n + 1 /\ \A i \in 1..n : labelled[i] = text[i]
  BY <1>1, Branching, AddChar
<1>8. /\ other \in Text /\ Len(other) = n + 2 /\ \A i \in 1..(n + 1) : other[i] = labelled[i]
  <2> HIDE DEF labelled, n
  <2>1. labelled \in Text /\ Len(labelled) = n + 1 /\ "1" \in Char
    BY <1>7, Branching
  <2>2. /\ Both(labelled, <<"1">>) \in Text
        /\ Len(Both(labelled, <<"1">>)) = Len(labelled) + 1
        /\ \A i \in 1..Len(labelled) : Both(labelled, <<"1">>)[i] = labelled[i]
    BY <2>1, AddChar
  <2> HIDE DEF other
  <2>3. /\ other \in Text /\ Len(other) = (n + 1) + 1 /\ \A i \in 1..(n + 1) : other[i] = labelled[i]
    BY <2>1, <2>2 DEF other
  <2>4. (n + 1) + 1 = n + 2
    BY <1>1
  <2> QED
    BY <2>3, <2>4
<1> HIDE DEF labelled, other
\* what the application writes is what its three calls write
<1>9. Cut(other, n + 1) = labelled
  <2>1. Cut(other, n + 1) \in Text /\ Len(Cut(other, n + 1)) = n + 1
        /\ \A i \in 1..(n + 1) : Cut(other, n + 1)[i] = other[i]
    <3>1. n + 1 \in Nat /\ n + 1 <= Len(other)
      BY <1>1, <1>8
    <3> HIDE DEF n
    <3> QED
      BY <1>8, <3>1, CutIs
  <2> QED
    BY <1>7, <1>8, <2>1, SameText
<1>10. /\ Both(text, <<"@", "1">>) = other
       /\ Both(text, <<"@", "2">>) = Both(labelled, <<"2">>)
  <2>1. <<"@", "1">> = Both(<<"@">>, <<"1">>) /\ <<"@", "2">> = Both(<<"@">>, <<"2">>)
    BY DEF Both
  <2>2. /\ Both(Both(text, <<"@">>), <<"1">>) = Both(text, Both(<<"@">>, <<"1">>))
        /\ Both(Both(text, <<"@">>), <<"2">>) = Both(text, Both(<<"@">>, <<"2">>))
    BY <1>1, <1>6, TextConcats, Zenon
  <2> QED
    BY <2>1, <2>2 DEF labelled, other
<1>11. Piece(left, other) = Below(other, a)
  BY <1>5 DEF Piece, a
<1>12. Piece(right, other) = Below(Both(labelled, <<"2">>), b)
  BY <1>5, <1>9 DEF Piece, b
<1>13. Piece(leave, other) = <<>>
  BY <1>5 DEF Piece
<1>14. Below(text, PathsOf[tree]) = Both(Piece(left, other), Piece(right, other))
  <2> DEFINE x == Below(<<"@", "1">>, a)
             y == Below(<<"@", "2">>, b)
  <2>1. x \in Seq(Text) /\ y \in Seq(Text)
    BY <1>4, Branching, BelowIs
  <2>2. Below(text, x) = Below(other, a) /\ Below(text, y) = Below(Both(labelled, <<"2">>), b)
    BY <1>1, <1>4, <1>10, Branching, BelowBelow
  <2> HIDE DEF x, y
  <2>3. Below(text, Both(x, y)) = Both(Below(text, x), Below(text, y))
    BY <1>1, <2>1, BelowBoth
  <2> QED
    BY <1>4, <1>11, <1>12, <2>2, <2>3 DEF x, y
\* the calls, from the outermost
<1>15. Writes(v, other, more)
  <2>1. n <= Len(other) /\ n <= n /\ \A i \in 1..n : text[i] = other[i]
    BY <1>1, <1>7, <1>8
  <2> QED
    BY <1>1, <1>2, <1>8, <2>1, WritesSame
<1> DEFINE x == Cons(leave, v)
           y == Cons(right, x)
           z == Cons(left, y)
           p == Both(Piece(leave, other), more)
           q == Both(Piece(right, other), p)
           r == Both(Piece(left, other), q)
<1>16. /\ Piece(left, other) \in Seq(Text) /\ Piece(right, other) \in Seq(Text)
       /\ Piece(leave, other) \in Seq(Text)
  <2>1. right.at <= Len(other)
    BY <1>1, <1>5, <1>8
  <2> QED
    BY <1>5, <1>8, <2>1, PieceType
<1>17. x \in Seq(PatternTask) /\ Writes(x, other, p) /\ Suspended(x, n + 1)
  <2>1. n + 1 \in Nat /\ n <= n + 1
    BY <1>1
  <2>2. Suspended(x, n + 1)
    BY <1>1, <1>5, <2>1, SuspendedPush
  <2> QED
    BY <1>1, <1>5, <1>15, <1>16, <2>2, ConsFacts, WritesPush
<1> HIDE DEF x, p
<1>18. y \in Seq(PatternTask) /\ Writes(y, other, q) /\ Suspended(y, Len(other))
  <2>1. Len(other) \in Nat /\ n + 1 <= Len(other)
    BY <1>1, <1>8
  <2>2. Suspended(y, Len(other))
    BY <1>5, <1>17, <2>1, SuspendedPush
  <2> QED
    BY <1>5, <1>16, <1>17, <2>2, ConsFacts, WritesPush
<1> HIDE DEF y, q
<1>19. /\ z \in Seq(PatternTask) /\ Writes(z, other, r)
       /\ z # <<>> /\ Head(z) = left /\ Tail(z) = y
  BY <1>5, <1>16, <1>18, ConsFacts, WritesPush
<1> HIDE DEF z
<1>20. r \in Seq(Text) /\ K = Both(done, r)
  <2>1. p = more
    BY <1>13, ListConcats DEF p
  <2>2. q \in Seq(Text) /\ q = Both(Piece(right, other), more)
    BY <1>16, <2>1, ListConcats DEF q
  <2>3. r = Both(Both(Piece(left, other), Piece(right, other)), more)
    BY <1>16, <2>2, ListConcats
  <2> QED
    BY <1>2, <1>14, <1>16, <2>2, <2>3, ListConcats
<1> HIDE DEF r
<1>21. StringsAs(z, other, done, K)
  BY <1>1, <1>5, <1>8, <1>18, <1>19, <1>20 DEF StringsAs
<1>22. z = <<left, right, leave>> \o v
  BY <1>1, <1>5, ThreeCalls, SMTT(30) DEF z, y, x
<1>23. Len(text \o <<"@">>) = n + 1
  BY <1>7 DEF labelled, Both
<1> HIDE DEF n
<1> QED
  BY <1>21, <1>22, <1>23 DEF other, labelled, left, right, leave, v, tree, n, Both

LEMMA StringsEnd ==
    ASSUME NEW text, NEW done, NEW K, StringsAs(<<>>, text, done, K)
    PROVE  done = K /\ K \in Seq(Text)
<1>1. PICK list \in Seq(Text) : Writes(<<>>, text, list) /\ K = Both(done, list)
  BY DEF StringsAs
<1>2. list = <<>>
  BY <1>1, WritesNothing
<1>3. done \in Seq(Text)
  BY DEF StringsAs
<1> QED
  BY <1>1, <1>2, <1>3, ListConcats

(* ------------------------------------------------------------------------ *)
(* the invariant of set_abstraction_rule                                      *)

\* The paths of the pattern whose line is being entered.
Wanted == PathsOf[AbstractionRule[Head(script)].pattern]

\* The paths that are not entered yet.
Remaining(K, m) == SubSeq(K, m + 1, Len(K))

\* How far the automaton of K is in each phase.
Stage(ph, w, text, ps, g, q, K) ==
    /\ ph = "strings" => StringsAs(w, text, ps, K)
    /\ ph = "goto" => \E m \in 0..Len(K) : Entered(g, K, m) /\ ps = Remaining(K, m)
    /\ ph = "failure" => \E name, P : FailureAs(g, name, P, q, K)
    /\ ph = "delta" => \E name, P : DeltaAs(g, name, P, q, K)

AInv ==
    /\ RulesTypeOK
    /\ phase # "idle" => script # <<>>
    /\ Stage(phase, walk, buffer.text, paths, automaton, queue, Wanted)

LEMMA WantedType ==
    ASSUME RulesTypeOK, script # <<>>
    PROVE  /\ AbstractionRule[Head(script)].pattern \in PatternParts
           /\ Wanted \in Seq(Text) /\ AloneIfEmpty(Wanted) /\ Len(Wanted) \in Nat
<1>1. Head(script) \in DOMAIN AbstractionRule
  BY DEF RulesTypeOK
<1>2. AbstractionRule[Head(script)].pattern \in PatternParts
  BY <1>1, PatternAssumption
<1>3. Wanted \in Seq(Text) /\ AloneIfEmpty(Wanted)
  BY <1>2, PathsOfType DEF Wanted
<1> QED
  BY <1>2, <1>3

\* The buffer, one character longer.
LEMMA AppendIs ==
    ASSUME NEW b \in [size : Nat, text : Text], NEW c \in Char
    PROVE  /\ buffer_append(b, <<c>>) \in [size : Nat, text : Text]
           /\ buffer_append(b, <<c>>).text = Both(b.text, <<c>>)
<1>1. Len(<<c>>) = 1 /\ b.size \in Nat /\ b.text \in Text
  OBVIOUS
<1>2. Both(b.text, <<c>>) \in Text /\ Len(b.text) \in Nat
  BY <1>1, AddChar
<1> DEFINE size == IF Len(<<c>>) >= b.size - Len(b.text) THEN b.size + Len(<<c>>) ELSE b.size
<1>3. size \in Nat
  BY <1>1, <1>2
<1> HIDE DEF size
<1>4. buffer_append(b, <<c>>) = [size |-> size, text |-> Both(b.text, <<c>>)]
  BY DEF buffer_append, Both, size
<1> QED
  BY <1>2, <1>3, <1>4

LEMMA RewindIs ==
    ASSUME NEW b \in [size : Nat, text : Text], NEW at \in Nat, at <= Len(b.text)
    PROVE  /\ Rewind(b, at) \in [size : Nat, text : Text]
           /\ Rewind(b, at).text = Cut(b.text, at)
<1>1. Cut(b.text, at) \in Text
  BY CutIs
<1>2. Rewind(b, at) = [b EXCEPT !.text = Cut(b.text, at)]
  BY DEF Rewind, Cut
<1> QED
  BY <1>1, <1>2

\* A step of calculate_strings.
LEMMA StringsStep ==
    ASSUME AInv, phase = "strings", UNCHANGED <<script, phase, queue>>,
           buffer' \in [size : Nat, text : Text],
           StringsAs(walk', buffer'.text, paths', Wanted)
    PROVE  AInv'
<1>1. Wanted' = Wanted
  BY DEF Wanted
<1>2. paths' \in Seq(Text)
  BY DEF StringsAs
<1>3. RulesTypeOK'
  BY <1>2 DEF AInv, RulesTypeOK, Text
<1>4. Stage(phase', walk', buffer'.text, paths', automaton', queue', Wanted')
  BY <1>1 DEF Stage
<1> QED
  BY <1>3, <1>4 DEF AInv

LEMMA BeginAInv ==
    ASSUME AInv, Begin
    PROVE  AInv'
<1> DEFINE pattern == AbstractionRule[Head(script)].pattern
<1>1. /\ script # <<>> /\ script' = script /\ phase' = "strings" /\ queue' = queue
      /\ walk' = <<Visit(pattern)>>
      /\ buffer' = [size |-> BufferSize, text |-> <<>>] /\ paths' = <<>>
  BY DEF Begin
<1>2. pattern \in PatternParts
  BY <1>1, WantedType DEF AInv
<1>3. Wanted' = PathsOf[pattern]
  BY <1>1 DEF Wanted
<1>4. StringsAs(walk', <<>>, paths', Wanted')
  BY <1>1, <1>2, <1>3, StringsBegin
<1>5. Stage(phase', walk', buffer'.text, paths', automaton', queue', Wanted')
  BY <1>1, <1>4 DEF Stage
<1>6. RulesTypeOK'
  <2>1. <<>> \in Seq(Char) /\ <<>> \in Seq(Seq(Char)) /\ "strings" \in Phases
    BY DEF Phases
  <2>2. buffer' \in [size : Nat, text : Seq(Char)]
    BY <1>1, <2>1, BufferAssumption
  <2> QED
    BY <1>1, <2>1, <2>2 DEF AInv, RulesTypeOK
<1> QED
  BY <1>1, <1>5, <1>6 DEF AInv

\* What the steps of calculate_strings find.
LEMMA InStrings ==
    ASSUME AInv, phase = "strings"
    PROVE  /\ StringsAs(walk, buffer.text, paths, Wanted)
           /\ buffer \in [size : Nat, text : Text]
BY DEF AInv, Stage, RulesTypeOK, Text

LEMMA CalculateApplicationAInv ==
    ASSUME AInv, CalculateApplication
    PROVE  AInv'
<1> DEFINE node == Head(walk).tree
           labelled == buffer_append(buffer, <<node.label>>)
           full == buffer_append(labelled, <<"1">>)
           w == << Visit(node.left),
                   [op |-> "right", at |-> Len(labelled.text), tree |-> node.right],
                   [op |-> "leave", at |-> Len(buffer.text)] >> \o Tail(walk)
<1>1. /\ phase = "strings" /\ walk # <<>> /\ Head(walk).op = "visit" /\ ~IsLeaf(node)
      /\ buffer' = full /\ walk' = w
      /\ UNCHANGED <<script, phase, paths, queue>>
  BY DEF CalculateApplication
<1>2. /\ StringsAs(walk, buffer.text, paths, Wanted)
      /\ buffer \in [size : Nat, text : Text]
  BY <1>1, InStrings
<1>3. node.label = "@" /\ "@" \in Char /\ "1" \in Char
  BY <1>1, Branching DEF IsLeaf
<1>4. labelled \in [size : Nat, text : Text] /\ labelled.text = Both(buffer.text, <<"@">>)
  BY <1>2, <1>3, AppendIs
<1>5. StringsAs(<< Visit(node.left),
                   [op |-> "right", at |-> Len(buffer.text \o <<"@">>), tree |-> node.right],
                   [op |-> "leave", at |-> Len(buffer.text)] >> \o Tail(walk),
                (buffer.text \o <<"@">>) \o <<"1">>, paths, Wanted)
  BY <1>1, <1>2, StringsApplication
<1> HIDE DEF labelled
<1>6. full \in [size : Nat, text : Text] /\ full.text = Both(labelled.text, <<"1">>)
  BY <1>3, <1>4, AppendIs
<1>7. labelled.text = buffer.text \o <<"@">> /\ full.text = (buffer.text \o <<"@">>) \o <<"1">>
  BY <1>4, <1>6 DEF Both
<1> HIDE DEF full
<1>8. StringsAs(w, full.text, paths, Wanted)
  BY <1>5, <1>7
<1> HIDE DEF w
<1> QED
  BY <1>1, <1>6, <1>8, StringsStep

LEMMA CalculateLeafAInv ==
    ASSUME AInv, CalculateLeaf
    PROVE  AInv'
<1>1. /\ phase = "strings" /\ walk # <<>> /\ Head(walk).op = "visit" /\ IsLeaf(Head(walk).tree)
      /\ paths' = Append(paths, buffer.text \o PathEnd(Head(walk).tree.label))
      /\ walk' = Tail(walk)
      /\ UNCHANGED <<script, phase, buffer, queue>>
  BY DEF CalculateLeaf
<1>2. /\ StringsAs(walk, buffer.text, paths, Wanted)
      /\ buffer \in [size : Nat, text : Text]
  BY <1>1, InStrings
<1>3. StringsAs(walk', buffer'.text, paths', Wanted)
  BY <1>1, <1>2, StringsLeaf
<1> QED
  BY <1>1, <1>2, <1>3, StringsStep

\* The offset that a waiting call goes back to.
LEMMA OffsetIs ==
    ASSUME AInv, phase = "strings", walk # <<>>, Head(walk).op # "visit"
    PROVE  Head(walk).at \in Nat /\ Head(walk).at <= Len(buffer.text)
BY InStrings, StringsResume

LEMMA TurnRightAInv ==
    ASSUME AInv, TurnRight
    PROVE  AInv'
<1> DEFINE at == Head(walk).at
           back == Rewind(buffer, at)
           full == buffer_append(back, <<"2">>)
           w == <<Visit(Head(walk).tree)>> \o Tail(walk)
<1>1. /\ phase = "strings" /\ walk # <<>> /\ Head(walk).op = "right"
      /\ buffer' = full /\ walk' = w
      /\ UNCHANGED <<script, phase, paths, queue>>
  BY DEF TurnRight
<1>2. /\ StringsAs(walk, buffer.text, paths, Wanted)
      /\ buffer \in [size : Nat, text : Text]
  BY <1>1, InStrings
<1>3. at \in Nat /\ at <= Len(buffer.text)
  BY <1>1, OffsetIs
<1>4. StringsAs(w, Cut(buffer.text, at) \o <<"2">>, paths, Wanted)
  BY <1>1, <1>2, StringsRight
<1> HIDE DEF at, w
<1>5. back \in [size : Nat, text : Text] /\ back.text = Cut(buffer.text, at)
  BY <1>2, <1>3, RewindIs
<1> HIDE DEF back
<1>6. full \in [size : Nat, text : Text] /\ full.text = Both(back.text, <<"2">>)
  BY <1>5, Branching, AppendIs
<1> HIDE DEF full
<1>7. StringsAs(w, full.text, paths, Wanted)
  BY <1>4, <1>5, <1>6 DEF Both
<1> QED
  BY <1>1, <1>6, <1>7, StringsStep

LEMMA LeaveApplicationAInv ==
    ASSUME AInv, LeaveApplication
    PROVE  AInv'
<1> DEFINE at == Head(walk).at
<1>1. /\ phase = "strings" /\ walk # <<>> /\ Head(walk).op = "leave"
      /\ buffer' = Rewind(buffer, at) /\ walk' = Tail(walk)
      /\ UNCHANGED <<script, phase, paths, queue>>
  BY DEF LeaveApplication
<1>2. /\ StringsAs(walk, buffer.text, paths, Wanted)
      /\ buffer \in [size : Nat, text : Text]
  BY <1>1, InStrings
<1>3. at \in Nat /\ at <= Len(buffer.text)
  BY <1>1, OffsetIs
<1>4. StringsAs(Tail(walk), Cut(buffer.text, at), paths, Wanted)
  BY <1>1, <1>2, StringsLeave
<1> HIDE DEF at
<1>5. buffer' \in [size : Nat, text : Text] /\ buffer'.text = Cut(buffer.text, at)
  BY <1>1, <1>2, <1>3, RewindIs
<1>6. StringsAs(walk', buffer'.text, paths', Wanted)
  BY <1>1, <1>4, <1>5
<1> QED
  BY <1>1, <1>5, <1>6, StringsStep

LEMMA PathsCompleteAInv ==
    ASSUME AInv, PathsComplete
    PROVE  AInv'
<1>1. /\ phase = "strings" /\ walk = <<>> /\ phase' = "goto" /\ automaton' = init_goto
      /\ UNCHANGED <<script, buffer, paths, queue>>
  BY DEF PathsComplete
<1>2. StringsAs(<<>>, buffer.text, paths, Wanted)
  BY <1>1, InStrings
<1>3. paths = Wanted /\ Wanted \in Seq(Text)
  BY <1>2, StringsEnd
<1>4. Wanted' = Wanted
  BY <1>1 DEF Wanted
<1>5. 0 \in 0..Len(Wanted) /\ Remaining(Wanted, 0) = Wanted
  BY <1>3 DEF Remaining
<1>6. Entered(automaton', Wanted, 0)
  BY <1>1, NothingEntered
<1>7. Stage(phase', walk', buffer'.text, paths', automaton', queue', Wanted')
  BY <1>1, <1>3, <1>4, <1>5, <1>6 DEF Stage
<1>8. RulesTypeOK'
  BY <1>1 DEF AInv, RulesTypeOK, Phases
<1> QED
  BY <1>1, <1>7, <1>8 DEF AInv

\* What construct_goto finds.
LEMMA InGoto ==
    ASSUME AInv, phase = "goto"
    PROVE  /\ Wanted \in Seq(Text) /\ AloneIfEmpty(Wanted) /\ Len(Wanted) \in Nat
           /\ \E m \in 0..Len(Wanted) : Entered(automaton, Wanted, m) /\ paths = Remaining(Wanted, m)
<1>1. RulesTypeOK /\ script # <<>>
  BY DEF AInv
<1> QED
  BY <1>1, WantedType DEF AInv, Stage

LEMMA EnterKeywordAInv ==
    ASSUME AInv, EnterKeyword
    PROVE  AInv'
<1> DEFINE K == Wanted
<1>1. /\ phase = "goto" /\ paths # <<>> /\ automaton' = enter(automaton, Head(paths))
      /\ paths' = Tail(paths)
      /\ UNCHANGED <<script, phase, buffer, queue>>
  BY DEF EnterKeyword
<1>2. K \in Seq(Text) /\ Len(K) \in Nat
  BY <1>1, InGoto
<1>3. PICK m \in 0..Len(K) : Entered(automaton, K, m) /\ paths = Remaining(K, m)
  BY <1>1, InGoto
<1>4. Wanted' = K
  BY <1>1 DEF Wanted
<1> HIDE DEF K
<1>5. m \in Nat /\ m < Len(K)
  <2>1. m = Len(K) => paths = <<>>
    BY <1>2, <1>3 DEF Remaining
  <2> QED
    BY <1>1, <1>2, <2>1
<1>6. Head(paths) = K[m + 1] /\ Tail(paths) = Remaining(K, m + 1)
  <2> DEFINE p == Remaining(K, m)
             r == Remaining(K, m + 1)
  <2>1. /\ p \in Seq(Text) /\ Len(p) = Len(K) - m
        /\ \A i \in 1..(Len(K) - m) : p[i] = K[m + i]
    BY <1>2, <1>5 DEF Remaining
  <2>2. /\ r \in Seq(Text) /\ Len(r) = Len(K) - (m + 1)
        /\ \A i \in 1..(Len(K) - (m + 1)) : r[i] = K[(m + 1) + i]
    BY <1>2, <1>5 DEF Remaining
  <2> HIDE DEF p, r
  <2>3. p # <<>>
    BY <1>2, <1>5, <2>1
  <2>4. /\ Tail(p) \in Seq(Text) /\ Head(p) = p[1] /\ Len(Tail(p)) = Len(p) - 1
        /\ \A i \in 1..(Len(p) - 1) : Tail(p)[i] = p[i + 1]
    BY <2>1, <2>3, TailFacts
  <2>5. Len(Tail(p)) = Len(r)
    BY <1>2, <1>5, <2>1, <2>2, <2>4
  <2>6. ASSUME NEW i \in 1..Len(Tail(p)) PROVE Tail(p)[i] = r[i]
    <3>1. /\ i \in 1..(Len(p) - 1) /\ i + 1 \in 1..(Len(K) - m) /\ i \in 1..(Len(K) - (m + 1))
          /\ m + (i + 1) = (m + 1) + i
      BY <1>2, <1>5, <2>1, <2>4
    <3> QED
      BY <2>1, <2>2, <2>4, <3>1
  <2>7. Tail(p) = r
    BY <2>2, <2>4, <2>5, <2>6, SameList
  <2>8. p[1] = K[m + 1]
    BY <1>2, <1>5, <2>1
  <2> QED
    BY <1>3, <2>4, <2>7, <2>8 DEF p, r
<1>7. Entered(automaton', K, m + 1)
  BY <1>1, <1>2, <1>3, <1>5, <1>6, EnterKeywordEntered
<1>8. m + 1 \in 0..Len(K)
  BY <1>2, <1>5
<1>9. Stage(phase', walk', buffer'.text, paths', automaton', queue', K)
  BY <1>1, <1>6, <1>7, <1>8 DEF Stage
<1>10. RulesTypeOK'
  <2>1. paths \in Seq(Seq(Char))
    BY DEF AInv, RulesTypeOK
  <2>2. paths' \in Seq(Seq(Char))
    BY <1>1, <2>1
  <2> QED
    BY <1>1, <2>2 DEF AInv, RulesTypeOK
<1> QED
  BY <1>1, <1>4, <1>9, <1>10 DEF AInv

\* The queue of a walk holds states, which are numbers.
LEMMA FailureQueue ==
    ASSUME NEW K, NEW g, NEW name, NEW P, NEW q, FailureAs(g, name, P, q, K)
    PROVE  q \in Seq(Nat)
<1>1. Tree(g.ary, name) /\ q \in Seq(DOMAIN g.ary \ {0})
  BY DEF FailureAs, Walking
<1>2. \A s \in DOMAIN g.ary : s \in Nat
  BY <1>1, TreeFacts
<1> QED
  BY <1>1, <1>2

LEMMA DeltaQueue ==
    ASSUME NEW K, NEW g, NEW name, NEW P, NEW q, DeltaAs(g, name, P, q, K)
    PROVE  q \in Seq(Nat)
<1>1. Tree(g.ary, name) /\ q \in Seq(DOMAIN g.ary \ {0})
  BY DEF DeltaAs, Walking
<1>2. \A s \in DOMAIN g.ary : s \in Nat
  BY <1>1, TreeFacts
<1> QED
  BY <1>1, <1>2

\* A step of construct_failure, and one of construct_delta.
LEMMA FailureStep ==
    ASSUME AInv, UNCHANGED <<script, buffer, paths>>, phase # "idle", phase' = "failure",
           NEW name, NEW P, FailureAs(automaton', name, P, queue', Wanted)
    PROVE  AInv'
<1>1. Wanted' = Wanted
  BY DEF Wanted
<1>2. queue' \in Seq(Nat)
  BY FailureQueue
<1>3. RulesTypeOK'
  BY <1>2 DEF AInv, RulesTypeOK, Phases
<1>4. Stage(phase', walk', buffer'.text, paths', automaton', queue', Wanted')
  BY <1>1 DEF Stage
<1> QED
  BY <1>3, <1>4 DEF AInv

LEMMA DeltaStep ==
    ASSUME AInv, UNCHANGED <<script, buffer, paths>>, phase # "idle", phase' = "delta",
           NEW name, NEW P, DeltaAs(automaton', name, P, queue', Wanted)
    PROVE  AInv'
<1>1. Wanted' = Wanted
  BY DEF Wanted
<1>2. queue' \in Seq(Nat)
  BY DeltaQueue
<1>3. RulesTypeOK'
  BY <1>2 DEF AInv, RulesTypeOK, Phases
<1>4. Stage(phase', walk', buffer'.text, paths', automaton', queue', Wanted')
  BY <1>1 DEF Stage
<1> QED
  BY <1>3, <1>4 DEF AInv

LEMMA KeywordsEnteredAInv ==
    ASSUME AInv, KeywordsEntered
    PROVE  AInv'
<1>1. /\ phase = "goto" /\ paths = <<>>
      /\ automaton' = StartFailure(CloseRoot(automaton))
      /\ queue' = Successors(CloseRoot(automaton), 0)
      /\ phase' = "failure"
      /\ UNCHANGED <<script, buffer, paths>>
  BY DEF KeywordsEntered
<1>2. Wanted \in Seq(Text) /\ Len(Wanted) \in Nat /\ AloneIfEmpty(Wanted)
  BY <1>1, InGoto
<1>3. PICK m \in 0..Len(Wanted) : Entered(automaton, Wanted, m) /\ paths = Remaining(Wanted, m)
  BY <1>1, InGoto
<1>4. m = Len(Wanted)
  <2>1. Len(Remaining(Wanted, m)) = Len(Wanted) - m
    BY <1>2, <1>3 DEF Remaining
  <2>2. Len(<<>>) = 0
    OBVIOUS
  <2> QED
    BY <1>1, <1>2, <1>3, <2>1, <2>2
<1>5. PICK name, P : FailureAs(StartFailure(CloseRoot(automaton)), name, P,
                               Successors(CloseRoot(automaton), 0), Wanted)
  BY <1>2, <1>3, <1>4, FailureBegins
<1> QED
  BY <1>1, <1>5, FailureStep

\* What the two walks find.
LEMMA InWalks ==
    ASSUME AInv
    PROVE  /\ phase \in {"failure", "delta"} => Wanted \in Seq(Text)
           /\ phase = "failure" => \E name, P : FailureAs(automaton, name, P, queue, Wanted)
           /\ phase = "delta" => \E name, P : DeltaAs(automaton, name, P, queue, Wanted)
<1>1. phase \in {"failure", "delta"} => RulesTypeOK /\ script # <<>>
  BY DEF AInv
<1> QED
  BY <1>1, WantedType DEF AInv, Stage

LEMMA FailureTurnAInv ==
    ASSUME AInv, FailureTurn
    PROVE  AInv'
<1>1. /\ phase = "failure" /\ queue # <<>> /\ automaton' = FailureRow(automaton, Head(queue))
      /\ queue' = Tail(queue) \o Successors(automaton, Head(queue))
      /\ UNCHANGED <<script, phase, buffer, paths>>
  BY DEF FailureTurn
<1>2. Wanted \in Seq(Text)
  BY <1>1, InWalks
<1>3. PICK name, P : FailureAs(automaton, name, P, queue, Wanted)
  BY <1>1, InWalks
<1>4. FailureAs(automaton', name, P \cup {Head(queue)}, queue', Wanted)
  BY <1>1, <1>2, <1>3, FailureTurnKeeps
<1> QED
  BY <1>1, <1>4, FailureStep

LEMMA FailureDoneAInv ==
    ASSUME AInv, FailureDone
    PROVE  AInv'
<1>1. /\ phase = "failure" /\ queue = <<>> /\ automaton' = StartDelta(automaton)
      /\ queue' = Successors(automaton, 0) /\ phase' = "delta"
      /\ UNCHANGED <<script, buffer, paths>>
  BY DEF FailureDone
<1>2. Wanted \in Seq(Text)
  BY <1>1, InWalks
<1>3. PICK name, P : FailureAs(automaton, name, P, <<>>, Wanted)
  BY <1>1, InWalks
<1>4. DeltaAs(automaton', name, {}, queue', Wanted)
  BY <1>1, <1>2, <1>3, DeltaBegins
<1> QED
  BY <1>1, <1>4, DeltaStep

LEMMA DeltaTurnAInv ==
    ASSUME AInv, DeltaTurn
    PROVE  AInv'
<1>1. /\ phase = "delta" /\ queue # <<>> /\ automaton' = DeltaRow(automaton, Head(queue))
      /\ queue' = Tail(queue) \o Successors(automaton, Head(queue))
      /\ UNCHANGED <<script, phase, buffer, paths>>
  BY DEF DeltaTurn
<1>2. Wanted \in Seq(Text)
  BY <1>1, InWalks
<1>3. PICK name, P : DeltaAs(automaton, name, P, queue, Wanted)
  BY <1>1, InWalks
<1>4. DeltaAs(automaton', name, P \cup {Head(queue)}, queue', Wanted)
  BY <1>1, <1>2, <1>3, DeltaTurnKeeps
<1> QED
  BY <1>1, <1>4, DeltaStep

\* Between two lines nothing is asked of the automaton.
LEMMA IdleAInv ==
    ASSUME RulesTypeOK, phase = "idle"
    PROVE  AInv
BY DEF AInv, Stage

LEMMA RuleAddedAInv ==
    ASSUME AInv, RuleAdded
    PROVE  AInv'
<1>1. /\ phase = "delta" /\ phase' = "idle" /\ script' = Tail(script)
      /\ UNCHANGED <<buffer, paths, queue>>
  BY DEF RuleAdded
<1>2. script # <<>> /\ script \in Seq(DOMAIN AbstractionRule)
  BY <1>1 DEF AInv, RulesTypeOK
<1>3. script' \in Seq(DOMAIN AbstractionRule)
  BY <1>1, <1>2
<1>4. RulesTypeOK'
  BY <1>1, <1>3 DEF AInv, RulesTypeOK, Phases
<1>5. Stage(phase', walk', buffer'.text, paths', automaton', queue', Wanted')
  BY <1>1 DEF Stage
<1> QED
  BY <1>1, <1>4, <1>5 DEF AInv

LEMMA InitAInv == RulesInit => AInv
<1> SUFFICES ASSUME RulesInit PROVE AInv
  OBVIOUS
<1>1. /\ script \in Scripts /\ phase = "idle" /\ buffer = [size |-> BufferSize, text |-> <<>>]
      /\ paths = <<>> /\ queue = <<>>
  BY DEF RulesInit
<1>2. script \in Seq(DOMAIN AbstractionRule)
  BY <1>1, ScriptsAssumption
<1>3. <<>> \in Seq(Char) /\ <<>> \in Seq(Seq(Char)) /\ <<>> \in Seq(Nat)
  OBVIOUS
<1>4. buffer \in [size : Nat, text : Seq(Char)]
  BY <1>1, <1>3, BufferAssumption
<1>5. RulesTypeOK
  BY <1>1, <1>2, <1>3, <1>4 DEF RulesTypeOK, Phases
<1> QED
  BY <1>1, <1>5, IdleAInv

\* Steps that change none of what the invariant is about.
LEMMA StutterAInv ==
    ASSUME AInv, UNCHANGED <<script, phase, walk, buffer, paths, automaton, queue>>
    PROVE  AInv'
<1>1. Wanted' = Wanted
  BY DEF Wanted
<1>2. RulesTypeOK'
  BY DEF AInv, RulesTypeOK
<1>3. Stage(phase', walk', buffer'.text, paths', automaton', queue', Wanted')
  BY <1>1 DEF AInv
<1> QED
  BY <1>2, <1>3 DEF AInv

LEMMA AInvInductive ==
    AInv /\ [SetAbstractionRule \/ delete_abstraction_rules]_ruleVars => AInv'
<1> SUFFICES ASSUME AInv, [SetAbstractionRule \/ delete_abstraction_rules]_ruleVars
             PROVE  AInv'
  OBVIOUS
<1>1. CASE Begin
  BY <1>1, BeginAInv
<1>2. CASE CalculateApplication
  BY <1>2, CalculateApplicationAInv
<1>3. CASE CalculateLeaf
  BY <1>3, CalculateLeafAInv
<1>4. CASE TurnRight
  BY <1>4, TurnRightAInv
<1>5. CASE LeaveApplication
  BY <1>5, LeaveApplicationAInv
<1>6. CASE PathsComplete
  BY <1>6, PathsCompleteAInv
<1>7. CASE EnterKeyword
  BY <1>7, EnterKeywordAInv
<1>8. CASE KeywordsEntered
  BY <1>8, KeywordsEnteredAInv
<1>9. CASE FailureTurn
  BY <1>9, FailureTurnAInv
<1>10. CASE FailureDone
  BY <1>10, FailureDoneAInv
<1>11. CASE DeltaTurn
  BY <1>11, DeltaTurnAInv
<1>12. CASE RuleAdded
  BY <1>12, RuleAddedAInv
<1>13. CASE delete_abstraction_rules \/ UNCHANGED ruleVars
  BY <1>13, StutterAInv DEF delete_abstraction_rules, ruleVars
<1> QED
  BY <1>1, <1>2, <1>3, <1>4, <1>5, <1>6, <1>7, <1>8, <1>9, <1>10, <1>11, <1>12, <1>13
     DEF SetAbstractionRule

\* The variables of set_abstraction_rule keep their types: buffer and paths hold
\* characters, and the walks of construct_failure and construct_delta
\* (aho_corasick.c:259-380) never enqueue a transition that fails.
THEOREM RulesKeepTypes == RulesSpec => []RulesTypeOK
<1>1. AInv => RulesTypeOK
  BY DEF AInv
<1> QED
  BY InitAInv, AInvInductive, <1>1, PTL DEF RulesSpec

\* The automaton that a rule gets recognises the paths of the rule's pattern
\* (aho_corasick.c:100-380 with brack.c:403): whatever the pattern, it is always
\* in the state of the longest text that starts a path and ends what it read,
\* and that state counts every path that ends there, as often as it was entered.
THEOREM AutomatonIsRight == RulesSpec => []AutomatonRecognisesPaths
<1>1. AInv => AutomatonRecognisesPaths
  <2> SUFFICES ASSUME AInv, phase = "delta", queue = <<>>
               PROVE  Recognises(automaton, Wanted)
    BY DEF AutomatonRecognisesPaths, Wanted
  <2>1. Wanted \in Seq(Text)
    BY InWalks
  <2>2. PICK name, P : DeltaAs(automaton, name, P, <<>>, Wanted)
    BY InWalks
  <2> QED
    BY <2>1, <2>2, DeltaEnds
<1> QED
  BY InitAInv, AInvInductive, <1>1, PTL DEF RulesSpec

=============================================================================
