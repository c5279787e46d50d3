----------------------------- MODULE ExpireHeap ------------------------------
(***************************************************************************)
(* expireHeap: the array of index entries and what container/heap does to  *)
(* it through its heap.Interface methods (cache/cache_heap.go).            *)
(***************************************************************************)
EXTENDS Integers, Sequences, FiniteSets

Less(h, i, j) == h[i].expiry < h[j].expiry

\* expireHeap.Push only appends: sifting up is heap.Push's work, and heapWorker
\* calls the method.
Push(h, e) == Append(h, e)

\* heap.Pop moves the last element to the root and sifts it down: at each place
\* the smaller child (the left one on a tie) moves up while it is smaller.
Child(h, i) ==
    IF 2 * i + 1 < Len(h) /\ Less(h, 2 * i + 1, 2 * i) THEN 2 * i + 1 ELSE 2 * i

Sinks(h, i) == Child(h, i) < Len(h) /\ Less(h, Child(h, i), Len(h))

\* The places it passes: the root, and with every place it leaves the next one.
OnPath(h, i) ==
    \A places \in SUBSET (1 .. Len(h) - 1) :
        1 \in places /\ (\A p \in places : Sinks(h, p) => Child(h, p) \in places)
            => i \in places

HeapPop(h) ==
    [i \in 1 .. Len(h) - 1 |->
        IF ~OnPath(h, i) THEN h[i] ELSE IF Sinks(h, i) THEN h[Child(h, i)] ELSE h[Len(h)]]

\* No child is Less than its parent in the array seen as a binary tree.
IsHeap(h) == \A i \in 2 .. Len(h) : ~Less(h, i, i \div 2)
=============================================================================
