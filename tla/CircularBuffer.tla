---------------------------- MODULE CircularBuffer ----------------------------
(* The queue of cb.c: a fixed array used as a circular buffer, and a linked   *)
(* list that takes what the array has no room for.  The array keeps one slot  *)
(* free to tell full from empty.  None of enqueue(), dequeue() and            *)
(* queueempty() looks at both halves before it acts, so that the queue keeps  *)
(* its order, and its emptiness test is right, only while everything in the   *)
(* list is younger than a full array.                                         *)
(*                                                                            *)
(* The two callers, construct_failure() and construct_delta() of              *)
(* aho_corasick.c, use a queue in one way: they create it, put states in at   *)
(* any time, take one only after queueempty() said no, and destroy the queue  *)
(* when it said yes.                                                          *)
EXTENDS Integers, Sequences

CONSTANTS
    States,         \* the automaton states that are queued
    Garbage,        \* what malloc() leaves in a slot nothing was written to
    BufferSize,     \* CBUFSIZE
    OverflowCap     \* bound of the model on the length of the overflow list

ASSUME BufferAssumption ==
    /\ Garbage \notin States
    /\ BufferSize \in Nat /\ BufferSize >= 2
    /\ OverflowCap \in Nat

VARIABLES
    exists,         \* between queueinit() and queuedestroy()
    cbuf,           \* the array, indexed from 0
    in,             \* the slot the next element goes to
    out,            \* the slot of the oldest element
    overflow,       \* the list from ovfhead to ovftail
    returned        \* what the last dequeue() returned; <<>> before any

vars == <<exists, cbuf, in, out, overflow, returned>>

Slots == 0 .. BufferSize - 1

\* (i + 1) & CBUFMASK: the mask is one less than CBUFSIZE, a power of two.
NextSlot(i) == IF i + 1 = BufferSize THEN 0 ELSE i + 1

\* The caller's only test.
queueempty == in = out

BufferFull == NextSlot(in) = out

Init ==
    /\ exists = FALSE
    /\ cbuf = [i \in Slots |-> Garbage]
    /\ in = 0
    /\ out = 0
    /\ overflow = <<>>
    /\ returned = <<>>

QueueInit ==
    /\ ~exists
    /\ exists' = TRUE
    /\ cbuf' = [i \in Slots |-> Garbage]
    /\ in' = 0
    /\ out' = 0
    /\ overflow' = <<>>
    /\ returned' = <<>>

\* Plausible slip: the index is incremented and not masked.
EnqueueUnmasked(s) ==
    /\ exists
    /\ ~BufferFull
    /\ cbuf' = [cbuf EXCEPT ![in] = s]
    /\ in' = in + 1
    /\ UNCHANGED <<exists, out, overflow, returned>>

EnqueueInBuffer(s) ==
    /\ exists
    /\ ~BufferFull
    /\ cbuf' = [cbuf EXCEPT ![in] = s]
    /\ in' = NextSlot(in)
    /\ UNCHANGED <<exists, out, overflow, returned>>

\* Plausible slip: the new element becomes the head of the list.
OverflowAtHead(s) == <<s>> \o overflow

OverflowWith(s) == Append(overflow, s)

EnqueueInOverflow(s) ==
    /\ exists
    /\ BufferFull
    /\ Len(overflow) < OverflowCap
    /\ overflow' = OverflowWith(s)
    /\ UNCHANGED <<exists, cbuf, in, out, returned>>

\* Plausible slip: the list is left to a time when the array is empty.
RefillWhenEmpty ==
    IF overflow # <<>> /\ NextSlot(out) = in
      THEN /\ cbuf' = [cbuf EXCEPT ![in] = Head(overflow)]
           /\ in' = NextSlot(in)
           /\ overflow' = Tail(overflow)
      ELSE UNCHANGED <<cbuf, in, overflow>>

\* dequeue() moves the head of the list into the slot that was free, without
\* asking whether the array had room for it.
Refill ==
    IF overflow # <<>>
      THEN /\ cbuf' = [cbuf EXCEPT ![in] = Head(overflow)]
           /\ in' = NextSlot(in)
           /\ overflow' = Tail(overflow)
      ELSE UNCHANGED <<cbuf, in, overflow>>

Dequeue ==
    /\ exists
    /\ ~queueempty
    /\ returned' = <<cbuf[out]>>
    /\ out' = NextSlot(out)
    /\ Refill
    /\ UNCHANGED exists

QueueDestroy ==
    /\ exists
    /\ queueempty
    /\ exists' = FALSE
    /\ UNCHANGED <<cbuf, in, out, overflow, returned>>

Next ==
    \/ QueueInit
    \/ \E s \in States : EnqueueInBuffer(s) \/ EnqueueInOverflow(s)
    \/ Dequeue
    \/ QueueDestroy

Spec == Init /\ [][Next]_vars

------------------------------------------------------------------------------
(* Properties.                                                                *)

\* The types, and with them that both indices stay inside the array of
\* CBUFSIZE integers that queueinit() allocated.
TypeOK ==
    /\ exists \in BOOLEAN
    /\ cbuf \in [Slots -> States \cup {Garbage}]
    /\ in \in Slots
    /\ out \in Slots
    /\ overflow \in Seq(States)
    /\ returned \in {<<>>} \cup {<<s>> : s \in States \cup {Garbage}}

\* The list is in use only while the array is full.  enqueue() and dequeue()
\* both rest on it (cb.c:86 and 122-127) and neither tests it: without it a new
\* element could pass older ones, or queueempty() could hide the list.
OverflowBehindFullBuffer == overflow # <<>> => BufferFull

\* How many elements the array holds, and what they are, oldest first.
Buffered == IF in >= out THEN in - out ELSE in - out + BufferSize

SlotAt(k) == IF out + k < BufferSize THEN out + k ELSE out + k - BufferSize

BufferContents == [k \in 1 .. Buffered |-> cbuf[SlotAt(k - 1)]]

Contents == BufferContents \o overflow

Fifo == INSTANCE FifoQueue WITH queue <- Contents, taken <- returned

\* The array and the list together are a first-in, first-out queue, whatever
\* the order of the calls; in particular queueempty() never says yes while
\* the list holds something, so that queuedestroy() only ever frees an empty
\* queue, as its comment supposes (cb.c:142-146).
ImplementsFifoQueue == Fifo!Spec
==============================================================================
