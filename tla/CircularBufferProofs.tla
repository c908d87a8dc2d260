-------------------------- MODULE CircularBufferProofs --------------------------
(* Proofs about the queue of cb.c, for every size of the array and every      *)
(* length of the list: its type invariant, that the list is in use only       *)
(* behind a full array, and that array and list together are a first-in,      *)
(* first-out queue.                                                           *)
EXTENDS CircularBuffer, SequenceTheorems, TLAPS

\* Stepping round the array stays inside it.
LEMMA NextSlotIsSlot ==
    ASSUME NEW i \in Slots
    PROVE  NextSlot(i) \in Slots
BY BufferAssumption, SMT DEF NextSlot, Slots

\* Two slots with the same successor are the same slot, and none is its own.
LEMMA NextSlotMoves ==
    ASSUME NEW i \in Slots
    PROVE  NextSlot(i) # i
BY BufferAssumption, SMT DEF NextSlot, Slots

(* ------------------------------------------------------------------------ *)

\* The inductive invariant: the types, and the list only behind a full array.
IInv == TypeOK /\ OverflowBehindFullBuffer

\* Before any queue exists both parts hold.
LEMMA InitIInv == Init => IInv
<1> SUFFICES ASSUME Init PROVE IInv
    OBVIOUS
<1>1. exists \in BOOLEAN
    BY DEF Init
<1>2. TypeOK
    BY <1>1, BufferAssumption, SMT DEF Init, TypeOK, Slots
<1>3. OverflowBehindFullBuffer
    BY DEF Init, OverflowBehindFullBuffer
<1> QED BY <1>2, <1>3 DEF IInv

\* Every call keeps the types; dequeue() needs both cases of the list.
LEMMA NextTypeOK ==
    ASSUME TypeOK, Next
    PROVE  TypeOK'
<1>1. CASE QueueInit
    BY <1>1, BufferAssumption, SMT DEF QueueInit, TypeOK, Slots
<1>2. ASSUME NEW s \in States, EnqueueInBuffer(s)
      PROVE  TypeOK'
    BY <1>2, NextSlotIsSlot, SMT DEF EnqueueInBuffer, TypeOK
<1>3. ASSUME NEW s \in States, EnqueueInOverflow(s)
      PROVE  TypeOK'
    BY <1>3, SMT DEF EnqueueInOverflow, OverflowWith, TypeOK
<1>4. CASE Dequeue
    <2>1. returned' \in {<<>>} \cup {<<s>> : s \in States \cup {Garbage}}
        BY <1>4, SMT DEF Dequeue, TypeOK
    <2>2. out' \in Slots /\ exists' \in BOOLEAN
        BY <1>4, NextSlotIsSlot, SMT DEF Dequeue, TypeOK
    <2>3. CASE overflow # <<>>
        <3>1. Head(overflow) \in States /\ Tail(overflow) \in Seq(States)
            BY <2>3, SMT DEF TypeOK
        <3>2. /\ cbuf' = [cbuf EXCEPT ![in] = Head(overflow)]
              /\ in' = NextSlot(in)
              /\ overflow' = Tail(overflow)
            BY <1>4, <2>3 DEF Dequeue, Refill
        <3>3. cbuf' \in [Slots -> States \cup {Garbage}]
            BY <3>1, <3>2 DEF TypeOK
        <3>4. in' \in Slots
            BY <3>2, NextSlotIsSlot DEF TypeOK
        <3> QED BY <2>1, <2>2, <3>1, <3>2, <3>3, <3>4 DEF TypeOK
    <2>4. CASE overflow = <<>>
        <3>1. UNCHANGED <<cbuf, in, overflow>>
            BY <1>4, <2>4 DEF Dequeue, Refill
        <3> QED BY <2>1, <2>2, <3>1, SMT DEF TypeOK
    <2> QED BY <2>3, <2>4
<1>5. CASE QueueDestroy
    <2>1. exists' \in BOOLEAN
        BY <1>5 DEF QueueDestroy
    <2> QED BY <1>5, <2>1, SMT DEF QueueDestroy, TypeOK
<1> QED BY <1>1, <1>2, <1>3, <1>4, <1>5 DEF Next

\* Every call keeps the list behind a full array.  In dequeue() the element
\* from the list lands in the slot just before the new oldest one.
LEMMA NextOverflow ==
    ASSUME IInv, Next
    PROVE  OverflowBehindFullBuffer'
<1> USE DEF OverflowBehindFullBuffer, BufferFull
<1>1. CASE QueueInit
    BY <1>1, SMT DEF QueueInit
<1>2. ASSUME NEW s \in States, EnqueueInBuffer(s)
      PROVE  OverflowBehindFullBuffer'
    BY <1>2, SMT DEF EnqueueInBuffer, IInv
<1>3. ASSUME NEW s \in States, EnqueueInOverflow(s)
      PROVE  OverflowBehindFullBuffer'
    BY <1>3, SMT DEF EnqueueInOverflow
<1>4. CASE Dequeue
    <2>1. CASE overflow = <<>>
        BY <1>4, <2>1, SMT DEF Dequeue, Refill
    <2>2. CASE overflow # <<>>
        \* The slot that was free is the one before the oldest element.
        <3>1. in' = out
            BY <1>4, <2>2, SMT DEF Dequeue, Refill, IInv
        <3>2. out' = NextSlot(out)
            BY <1>4 DEF Dequeue
        <3> QED BY <3>1, <3>2
    <2> QED BY <2>1, <2>2
<1>5. CASE QueueDestroy
    BY <1>5, SMT DEF QueueDestroy, IInv
<1> QED BY <1>1, <1>2, <1>3, <1>4, <1>5 DEF Next

\* The induction step.
LEMMA NextIInv == IInv /\ [Next]_vars => IInv'
<1>1. CASE Next
    BY <1>1, NextTypeOK, NextOverflow DEF IInv
<1>2. CASE UNCHANGED vars
    BY <1>2, SMT DEF vars, IInv, TypeOK, OverflowBehindFullBuffer, BufferFull
<1> QED BY <1>1, <1>2

\* The invariant holds in every behaviour of the queue.
THEOREM Invariance == Spec => []IInv
BY InitIInv, NextIInv, PTL DEF Spec

\* The indices of cb.c stay inside the array, whatever its size.
THEOREM TypeCorrectness == Spec => []TypeOK
<1>1. IInv => TypeOK
    BY DEF IInv
<1> QED BY <1>1, Invariance, PTL

\* enqueue() and dequeue() never find elements in the list unless the array is
\* full, which is what they silently rest on.
THEOREM ListBehindFullArray == Spec => []OverflowBehindFullBuffer
<1>1. IInv => OverflowBehindFullBuffer
    BY DEF IInv
<1> QED BY <1>1, Invariance, PTL

(* ------------------------------------------------------------------------ *)
(* The queue implements FifoQueue.                                            *)

Elements == States \cup {Garbage}

\* Contents, element by element: first the array, then the list.
ContentsByElement ==
    /\ Buffered \in Nat /\ Buffered < BufferSize
    /\ \A k \in 1 .. Buffered : SlotAt(k - 1) \in Slots
    /\ BufferContents \in Seq(Elements)
    /\ Contents \in Seq(Elements)
    /\ Len(Contents) = Buffered + Len(overflow)
    /\ \A k \in 1 .. Len(Contents) :
          Contents[k] = IF k <= Buffered THEN cbuf[SlotAt(k - 1)]
                                         ELSE overflow[k - Buffered]

\* That this is what Contents is follows from the types alone.
LEMMA ContentsElements == TypeOK => ContentsByElement
<1> SUFFICES ASSUME TypeOK PROVE ContentsByElement
    OBVIOUS
<1>1. Buffered \in Nat /\ Buffered < BufferSize
    BY BufferAssumption, SMT DEF TypeOK, Slots, Buffered
<1>2. \A k \in 1 .. Buffered : SlotAt(k - 1) \in Slots
    BY <1>1, BufferAssumption, SMT DEF TypeOK, Slots, Buffered, SlotAt
<1>3. /\ BufferContents \in Seq(Elements)
      /\ Len(BufferContents) = Buffered
      /\ \A k \in 1 .. Buffered : BufferContents[k] = cbuf[SlotAt(k - 1)]
    <2>1. \A k \in 1 .. Buffered : cbuf[SlotAt(k - 1)] \in Elements
        BY <1>2 DEF TypeOK, Elements
    <2>2. BufferContents \in [1 .. Buffered -> Elements]
        BY <2>1 DEF BufferContents
    <2>3. BufferContents \in Seq(Elements) /\ Len(BufferContents) = Buffered
        BY <1>1, <2>2, SMT
    <2> QED BY <2>3 DEF BufferContents
<1>4. overflow \in Seq(Elements)
    BY SMT DEF TypeOK, Elements
<1>5. /\ Contents \in Seq(Elements)
      /\ Len(Contents) = Buffered + Len(overflow)
      /\ \A k \in 1 .. Buffered + Len(overflow) :
            Contents[k] = IF k <= Buffered THEN BufferContents[k]
                                           ELSE overflow[k - Buffered]
    BY <1>3, <1>4, ConcatProperties DEF Contents
<1>6. ASSUME NEW k \in 1 .. Len(Contents)
      PROVE  Contents[k] = IF k <= Buffered THEN cbuf[SlotAt(k - 1)]
                                            ELSE overflow[k - Buffered]
    BY <1>1, <1>3, <1>5, <1>6, BufferAssumption, SMT
<1> QED BY <1>1, <1>2, <1>3, <1>5, <1>6 DEF ContentsByElement

\* The array is empty when its two indices meet, and holds one element less
\* than it has slots when it is full.
LEMMA BufferedBounds ==
    ASSUME TypeOK
    PROVE  /\ Buffered = 0 <=> queueempty
           /\ BufferFull <=> Buffered = BufferSize - 1
BY BufferAssumption, SMT
DEF TypeOK, Slots, Buffered, queueempty, BufferFull, NextSlot

\* enqueue() into the array appends, because the list is empty then.
LEMMA PutInBuffer ==
    ASSUME IInv, TypeOK', NEW s \in States, EnqueueInBuffer(s)
    PROVE  Contents' = Append(Contents, s)
<1>1. ContentsByElement /\ ContentsByElement'
    BY ContentsElements, PTL DEF IInv
<1>2. /\ overflow = <<>> /\ overflow' = <<>>
      /\ cbuf' = [cbuf EXCEPT ![in] = s]
      /\ in' = NextSlot(in) /\ out' = out
    BY SMT DEF EnqueueInBuffer, IInv, OverflowBehindFullBuffer
<1>3. Buffered' = Buffered + 1
    BY <1>2, BufferAssumption, SMT
    DEF EnqueueInBuffer, IInv, TypeOK, Slots, Buffered, BufferFull, NextSlot
<1>4. \A k \in 1 .. Buffered : SlotAt(k - 1) # in
    BY <1>2, BufferAssumption, SMT DEF IInv, TypeOK, Slots, Buffered, SlotAt
<1>5. SlotAt(Buffered) = in
    BY <1>2, BufferAssumption, SMT DEF IInv, TypeOK, Slots, Buffered, SlotAt
<1>6. cbuf'[in] = s /\ \A i \in Slots : i # in => cbuf'[i] = cbuf[i]
    BY <1>2 DEF IInv, TypeOK
<1>7. \A k \in 1 .. Buffered : SlotAt(k - 1) \in Slots
    BY <1>1 DEF ContentsByElement
<1>8. /\ Contents' \in Seq(Elements)
      /\ Len(Contents') = Buffered + 1
      /\ \A k \in 1 .. Buffered : Contents'[k] = cbuf[SlotAt(k - 1)]
      /\ Contents'[Buffered + 1] = s
    <2>1. /\ Contents' \in Seq(Elements)
          /\ Len(Contents') = Buffered + 1
        BY <1>1, <1>2, <1>3, SMT DEF ContentsByElement
    <2>2. \A k \in 1 .. Buffered + 1 : Contents'[k] = cbuf'[SlotAt(k - 1)]
        BY <1>1, <1>2, <1>3, <2>1, SMT DEF ContentsByElement, SlotAt
    <2>3. ASSUME NEW k \in 1 .. Buffered
          PROVE  Contents'[k] = cbuf[SlotAt(k - 1)]
        <3>1. SlotAt(k - 1) \in Slots /\ SlotAt(k - 1) # in
            BY <1>4, <1>7
        <3>2. k \in 1 .. Buffered + 1
            BY <1>1, SMT DEF ContentsByElement
        <3>3. Contents'[k] = cbuf'[SlotAt(k - 1)]
            BY <2>2, <3>2
        <3> QED BY <1>6, <3>1, <3>3
    <2>4. Contents'[Buffered + 1] = s
        <3>1. Buffered + 1 \in 1 .. Buffered + 1 /\ (Buffered + 1) - 1 = Buffered
            BY <1>1, SMT DEF ContentsByElement
        <3>2. Contents'[Buffered + 1] = cbuf'[SlotAt(Buffered)]
            BY <2>2, <3>1
        <3> QED BY <1>5, <1>6, <3>2
    <2> QED BY <2>1, <2>3, <2>4
<1>9. /\ Contents \in Seq(Elements)
      /\ Len(Contents) = Buffered
      /\ \A k \in 1 .. Buffered : Contents[k] = cbuf[SlotAt(k - 1)]
    BY <1>1, <1>2, SMT DEF ContentsByElement
<1>10. s \in Elements
    BY DEF Elements
<1>11. /\ Append(Contents, s) \in Seq(Elements)
       /\ Len(Append(Contents, s)) = Buffered + 1
       /\ \A k \in 1 .. Buffered : Append(Contents, s)[k] = cbuf[SlotAt(k - 1)]
       /\ Append(Contents, s)[Buffered + 1] = s
    BY <1>9, <1>10, AppendProperties, SMT
<1>12. \A k \in 1 .. Buffered + 1 : Contents'[k] = Append(Contents, s)[k]
    BY <1>1, <1>8, <1>11, SMT DEF ContentsByElement
<1> QED BY <1>8, <1>11, <1>12, SeqEqual

\* enqueue() into the list appends.
LEMMA PutInOverflow ==
    ASSUME IInv, NEW s \in States, EnqueueInOverflow(s)
    PROVE  Contents' = Append(Contents, s)
<1>1. UNCHANGED <<cbuf, in, out>> /\ overflow' = Append(overflow, s)
    BY DEF EnqueueInOverflow, OverflowWith
<1>2. BufferContents' = BufferContents
    BY <1>1 DEF BufferContents, Buffered, SlotAt
<1>3. BufferContents \in Seq(Elements)
    BY ContentsElements DEF ContentsByElement, IInv
<1>4. BufferContents \o Append(overflow, s) = Append(BufferContents \o overflow, s)
    BY <1>3, SMT DEF IInv, TypeOK, Elements
<1> QED BY <1>1, <1>2, <1>4 DEF Contents

\* dequeue() with an empty list removes the oldest element.
LEMMA TakeLast ==
    ASSUME IInv, TypeOK', Dequeue, overflow = <<>>
    PROVE  Contents' = Tail(Contents)
<1>1. ContentsByElement /\ ContentsByElement'
    BY ContentsElements, PTL DEF IInv
<1>2. /\ overflow' = <<>> /\ UNCHANGED <<cbuf, in>>
      /\ out' = NextSlot(out) /\ in # out
    BY DEF Dequeue, Refill, queueempty
<1>3. Buffered > 0 /\ Buffered' = Buffered - 1
    BY <1>2, BufferAssumption, SMT DEF IInv, TypeOK, Slots, Buffered, NextSlot
<1>4. \A k \in 1 .. Buffered - 1 : SlotAt(k - 1)' = SlotAt(k)
    BY <1>2, BufferAssumption, SMT
    DEF IInv, TypeOK, Slots, Buffered, SlotAt, NextSlot
<1>5. /\ Contents \in Seq(Elements)
      /\ Len(Contents) = Buffered
      /\ Buffered \in Nat
      /\ \A k \in 1 .. Buffered : Contents[k] = cbuf[SlotAt(k - 1)]
    BY <1>1, <1>2, SMT DEF ContentsByElement
<1>6. /\ Contents' \in Seq(Elements)
      /\ Len(Contents') = Buffered - 1
    BY <1>1, <1>2, <1>3, SMT DEF ContentsByElement
<1>7. \A k \in 1 .. Buffered - 1 : Contents'[k] = cbuf[SlotAt(k)]
    BY <1>1, <1>2, <1>3, <1>4, <1>6, SMT DEF ContentsByElement
<1>8. Contents # <<>>
    BY <1>3, <1>5, SMT
<1>9. /\ Tail(Contents) \in Seq(Elements)
      /\ Len(Tail(Contents)) = Buffered - 1
      /\ \A k \in 1 .. Buffered - 1 : Tail(Contents)[k] = Contents[k + 1]
    BY <1>5, <1>8, HeadTailProperties
<1>10. ASSUME NEW k \in 1 .. Buffered - 1
       PROVE  Contents'[k] = Tail(Contents)[k]
    <2>1. k + 1 \in 1 .. Buffered /\ (k + 1) - 1 = k
        BY <1>5, SMT
    <2>2. Contents[k + 1] = cbuf[SlotAt(k)]
        BY <1>5, <2>1
    <2> QED BY <1>7, <1>9, <2>2
<1> QED BY <1>6, <1>9, <1>10, SeqEqual

\* The oldest element is the one dequeue() reads.
LEMMA TakenIsHead ==
    ASSUME IInv, Dequeue
    PROVE  Contents # <<>> /\ Head(Contents) = cbuf[out]
<1>1. ContentsByElement
    BY ContentsElements DEF IInv
<1>2. Buffered > 0
    BY BufferAssumption, SMT
    DEF Dequeue, queueempty, IInv, TypeOK, Slots, Buffered
<1>3. SlotAt(0) = out
    BY BufferAssumption, SMT DEF IInv, TypeOK, Slots, SlotAt
<1>4. Len(overflow) \in Nat
    BY SMT DEF IInv, TypeOK
<1>5. 1 \in 1 .. Len(Contents) /\ 1 <= Buffered
    BY <1>1, <1>2, <1>4, SMT DEF ContentsByElement
<1>6. Contents[1] = cbuf[SlotAt(1 - 1)]
    BY <1>1, <1>5 DEF ContentsByElement
<1>7. 1 - 1 = 0
    BY SMT
<1>8. Contents # <<>> /\ Head(Contents) = Contents[1]
    BY <1>1, <1>5, SMT DEF ContentsByElement
<1> QED BY <1>3, <1>6, <1>7, <1>8

\* dequeue() with elements in the list removes the oldest one too: the head
\* of the list moves to the end of the array, and nothing changes places.
LEMMA TakeAndRefill ==
    ASSUME IInv, TypeOK', Dequeue, overflow # <<>>
    PROVE  Contents' = Tail(Contents)
<1>1. ContentsByElement /\ ContentsByElement'
    BY ContentsElements, PTL DEF IInv
<1>2. /\ overflow' = Tail(overflow)
      /\ cbuf' = [cbuf EXCEPT ![in] = Head(overflow)]
      /\ in' = NextSlot(in) /\ out' = NextSlot(out) /\ NextSlot(in) = out
    BY DEF Dequeue, Refill, IInv, OverflowBehindFullBuffer, BufferFull
<1>3. Buffered = BufferSize - 1 /\ Buffered' = Buffered
    BY <1>2, BufferAssumption, SMT DEF IInv, TypeOK, Slots, Buffered, NextSlot
<1>4. \A k \in 1 .. Buffered - 1 : SlotAt(k - 1)' = SlotAt(k) /\ SlotAt(k) # in
    BY <1>2, BufferAssumption, SMT
    DEF IInv, TypeOK, Slots, Buffered, SlotAt, NextSlot
<1>5. \A k \in 1 .. Buffered : k = Buffered => SlotAt(k - 1)' = in
    BY <1>2, BufferAssumption, SMT
    DEF IInv, TypeOK, Slots, Buffered, SlotAt, NextSlot
<1>6. cbuf'[in] = Head(overflow) /\ \A i \in Slots : i # in => cbuf'[i] = cbuf[i]
    BY <1>2 DEF IInv, TypeOK
<1>7. /\ Contents \in Seq(Elements)
      /\ Len(Contents) = Buffered + Len(overflow)
      /\ Buffered \in Nat /\ Len(overflow) \in Nat /\ Len(overflow) > 0
    BY <1>1, SMT DEF ContentsByElement, IInv, TypeOK
<1>8. Len(Tail(overflow)) = Len(overflow) - 1
    BY HeadTailProperties DEF IInv, TypeOK
<1>9. /\ Contents' \in Seq(Elements)
      /\ Len(Contents') = Buffered + Len(overflow) - 1
    BY <1>1, <1>2, <1>3, <1>7, <1>8, SMT DEF ContentsByElement
<1>10. Contents # <<>>
    BY <1>7, SMT
<1>11. /\ Tail(Contents) \in Seq(Elements)
       /\ Len(Tail(Contents)) = Buffered + Len(overflow) - 1
       /\ \A k \in 1 .. Len(Tail(Contents)) : Tail(Contents)[k] = Contents[k + 1]
    <2>1. /\ Tail(Contents) \in Seq(Elements)
          /\ Len(Tail(Contents)) = Len(Contents) - 1
          /\ \A k \in 1 .. Len(Tail(Contents)) :
                Tail(Contents)[k] = Contents[k + 1]
        BY <1>7, <1>10, HeadTailProperties
    <2> QED BY <1>7, <2>1, SMT
<1>12. ASSUME NEW k \in 1 .. Len(Contents')
       PROVE  Contents'[k] = Contents[k + 1]
    <2>1. k \in Nat /\ k + 1 \in 1 .. Len(Contents) /\ (k + 1) - 1 = k
        BY <1>7, <1>9, SMT
    <2>2. Contents[k + 1] = IF k + 1 <= Buffered THEN cbuf[SlotAt(k)]
                                                 ELSE overflow[(k + 1) - Buffered]
        <3>1. Contents[k + 1] = IF k + 1 <= Buffered
                                THEN cbuf[SlotAt((k + 1) - 1)]
                                ELSE overflow[(k + 1) - Buffered]
            BY <1>1, <2>1 DEF ContentsByElement
        <3> QED BY <2>1, <3>1
    <2>3. Contents'[k] = IF k <= Buffered THEN cbuf'[SlotAt(k - 1)']
                                          ELSE Tail(overflow)[k - Buffered]
        BY <1>1, <1>2, <1>3 DEF ContentsByElement
    <2>4. CASE k < Buffered
        <3>1. k \in 1 .. Buffered - 1 /\ k \in 1 .. Buffered
              /\ k + 1 <= Buffered /\ k <= Buffered
            BY <1>7, <2>1, <2>4, SMT
        <3>2. SlotAt(k) \in Slots
            <4>1. k + 1 \in 1 .. Buffered
                BY <1>7, <2>1, <2>4, SMT
            <4> QED BY <1>1, <2>1, <4>1 DEF ContentsByElement
        <3>3. Contents'[k] = cbuf'[SlotAt(k)]
            BY <1>4, <2>3, <3>1
        <3> QED BY <1>4, <1>6, <2>2, <3>1, <3>2, <3>3
    <2>5. CASE k = Buffered
        <3>1. k \in 1 .. Buffered /\ ~(k + 1 <= Buffered) /\ k <= Buffered
              /\ (k + 1) - Buffered = 1
            BY <1>7, <2>1, <2>5, SMT
        <3>2. Contents[k + 1] = overflow[1]
            BY <2>2, <3>1
        <3>3. Contents'[k] = cbuf'[in]
            BY <1>5, <2>3, <2>5, <3>1
        <3>4. Head(overflow) = overflow[1]
            BY SMT DEF IInv, TypeOK
        <3> QED BY <1>6, <3>2, <3>3, <3>4
    <2>6. CASE k > Buffered
        <3>1. /\ ~(k <= Buffered) /\ ~(k + 1 <= Buffered)
              /\ k - Buffered \in 1 .. Len(overflow) - 1
              /\ (k + 1) - Buffered = k - Buffered + 1
            BY <1>7, <1>9, <2>1, <2>6, SMT
        <3>2. Tail(overflow)[k - Buffered] = overflow[k - Buffered + 1]
            BY <1>8, <3>1, HeadTailProperties DEF IInv, TypeOK
        <3> QED BY <2>2, <2>3, <3>1, <3>2
    <2> QED BY <1>7, <2>1, <2>4, <2>5, <2>6, SMT
<1>13. \A k \in 1 .. Len(Contents') : Contents'[k] = Tail(Contents)[k]
    BY <1>9, <1>11, <1>12
<1> QED BY <1>9, <1>11, <1>13, SeqEqual

\* The state queueinit() leaves.
FreshlyMade == in = 0 /\ out = 0 /\ overflow = <<>>

\* A queue just made holds nothing.
LEMMA EmptyContents == FreshlyMade => Contents = <<>>
<1> SUFFICES ASSUME FreshlyMade PROVE Contents = <<>>
    OBVIOUS
<1>1. Buffered = 0
    BY SMT DEF Buffered, FreshlyMade
<1>2. BufferContents = <<>>
    BY <1>1, SMT DEF BufferContents
<1> QED BY <1>2, SMT DEF Contents, FreshlyMade

\* Every step of the array and the list is a step of the abstract queue.
LEMMA StepImplements == IInv /\ IInv' /\ [Next]_vars => [Fifo!Next]_(Fifo!vars)
<1> SUFFICES ASSUME IInv, IInv', [Next]_vars
             PROVE  [Fifo!Next]_(Fifo!vars)
    OBVIOUS
<1>1. CASE QueueInit
    <2>1. FreshlyMade'
        BY <1>1 DEF QueueInit, FreshlyMade
    <2>2. (Contents = <<>>)'
        BY <2>1, EmptyContents, PTL
    <2> QED BY <1>1, <2>2 DEF QueueInit, Fifo!Next, Fifo!Create
<1>2. ASSUME NEW s \in States, EnqueueInBuffer(s)
      PROVE  Fifo!Next
    <2>1. Contents' = Append(Contents, s)
        BY <1>2, PutInBuffer DEF IInv
    <2> QED BY <1>2, <2>1 DEF EnqueueInBuffer, Fifo!Next, Fifo!Put
<1>3. ASSUME NEW s \in States, EnqueueInOverflow(s)
      PROVE  Fifo!Next
    <2>1. Contents' = Append(Contents, s)
        BY <1>3, PutInOverflow
    <2> QED BY <1>3, <2>1 DEF EnqueueInOverflow, Fifo!Next, Fifo!Put
<1>4. CASE Dequeue
    <2>1. Contents' = Tail(Contents)
        BY <1>4, TakeLast, TakeAndRefill DEF IInv
    <2>2. Contents # <<>> /\ Head(Contents) = cbuf[out]
        BY <1>4, TakenIsHead
    <2> QED BY <1>4, <2>1, <2>2 DEF Dequeue, Fifo!Next, Fifo!Take
<1>5. CASE QueueDestroy
    <2>1. overflow = <<>>
        BY <1>5, NextSlotMoves
        DEF QueueDestroy, queueempty, IInv, TypeOK, OverflowBehindFullBuffer,
            BufferFull
    <2>2. Buffered = 0
        BY <1>5, BufferedBounds DEF QueueDestroy, IInv
    <2>3. BufferContents = <<>>
        BY <2>2, SMT DEF BufferContents
    <2>4. Contents = <<>>
        BY <2>1, <2>3, SMT DEF Contents
    <2>5. Contents' = Contents
        BY <1>5 DEF QueueDestroy, Contents, BufferContents, Buffered, SlotAt
    <2> QED BY <1>5, <2>4, <2>5 DEF QueueDestroy, Fifo!Next, Fifo!Discard
<1>6. CASE UNCHANGED vars
    BY <1>6 DEF vars, Fifo!vars, Contents, BufferContents, Buffered, SlotAt
<1> QED BY <1>1, <1>2, <1>3, <1>4, <1>5, <1>6 DEF Next

\* The queue of cb.c is a first-in, first-out queue for every size of the
\* array: cb.c:46-47 leaves that size to a guess, and nothing but speed
\* depends on it.
THEOREM QueueImplementsFifo == Spec => ImplementsFifoQueue
<1>1. Init => Fifo!Init
    BY EmptyContents DEF Init, FreshlyMade, Fifo!Init
<1>2. QED
    BY <1>1, StepImplements, Invariance, PTL
    DEF Spec, ImplementsFifoQueue, Fifo!Spec
==============================================================================
