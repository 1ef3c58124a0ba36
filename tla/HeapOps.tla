------------------------------- MODULE HeapOps -------------------------------
(***************************************************************************)
(* The heap algorithms of libstdc++ that make_plan applies to the vector   *)
(* nodes_by_load with the comparator nodes_cmp (tablet_allocator.cc, lines  *)
(* 256-291 and 331-333): std::make_heap, std::push_heap and std::pop_heap   *)
(* (__adjust_heap).  A vector is a sequence, its element i (from 0) being   *)
(* s[i + 1].  The key of an element is read through a function K when the   *)
(* algorithm compares, so a key that has changed since the last heap       *)
(* operation is seen with its new value, as in the code.  The sift loops   *)
(* are RECURSIVE operators; no module with a proof uses this one.          *)
(***************************************************************************)
EXTENDS Integers, Sequences

\* The element at index i of the vector a, and a with it replaced by v.
At(a, i) == a[i + 1]

Put(a, i, v) == [a EXCEPT ![i + 1] = v]

\* nodes_cmp (lines 260-262): a's avg_load is below b's; an avg_load is the
\* fraction <<tablets, shards>>.
KeyLess(K, a, b) == K[a][1] * K[b][2] < K[b][1] * K[a][2]

\* std::__push_heap: the value v moves up from index hole while its parent,
\* not above index top, compares below it.
RECURSIVE SiftUp(_, _, _, _, _)
SiftUp(a, hole, top, v, K) ==
    IF hole > top /\ KeyLess(K, At(a, (hole - 1) \div 2), v)
    THEN SiftUp(Put(a, hole, At(a, (hole - 1) \div 2)), (hole - 1) \div 2, top, v, K)
    ELSE Put(a, hole, v)

\* The descent of std::__adjust_heap: the hole moves to the larger child
\* (the right one unless it compares below the left) while it has two
\* children in the first len elements; returns the vector and the hole.
RECURSIVE Descend(_, _, _, _)
Descend(a, hole, len, K) ==
    IF hole < (len - 1) \div 2
    THEN LET right == 2 * (hole + 1)
             child == IF KeyLess(K, At(a, right), At(a, right - 1))
                      THEN right - 1 ELSE right
         IN  Descend(Put(a, hole, At(a, child)), child, len, K)
    ELSE <<a, hole>>

\* std::__adjust_heap(first, hole, len, v): descend, take a lone left child
\* at the end of an even-length range, then push v up to index hole.
AdjustHeap(a, hole, len, v, K) ==
    LET d    == Descend(a, hole, len, K)
        last == len % 2 = 0 /\ d[2] = (len - 2) \div 2
        b    == IF last THEN Put(d[1], d[2], At(d[1], 2 * d[2] + 1)) ELSE d[1]
        h    == IF last THEN 2 * d[2] + 1 ELSE d[2]
    IN  SiftUp(b, h, hole, v, K)

\* Mutant: the first and the last element are swapped, nothing is sifted.
PopHeapSwapOnly(a, K) ==
    IF Len(a) > 1 THEN Put(Put(a, Len(a) - 1, At(a, 0)), 0, At(a, Len(a) - 1)) ELSE a

\* std::pop_heap: the first element goes to the back and the old back
\* element is sifted into the first Len(a) - 1.
PopHeap(a, K) ==
    IF Len(a) > 1
    THEN AdjustHeap(Put(a, Len(a) - 1, At(a, 0)), 0, Len(a) - 1, At(a, Len(a) - 1), K)
    ELSE a

\* std::push_heap: the back element is sifted up.
PushHeap(a, K) == SiftUp(a, Len(a) - 1, 0, At(a, Len(a) - 1), K)

\* std::make_heap: __adjust_heap for every parent, the last one first.
RECURSIVE HeapifyFrom(_, _, _)
HeapifyFrom(a, p, K) ==
    LET b == AdjustHeap(a, p, Len(a), At(a, p), K)
    IN  IF p = 0 THEN b ELSE HeapifyFrom(b, p - 1, K)

MakeHeap(a, K) == IF Len(a) < 2 THEN a ELSE HeapifyFrom(a, (Len(a) - 2) \div 2, K)

\* The heap condition: no element compares above its parent.
IsHeap(a, K) ==
    \A i \in 1..(Len(a) - 1) : ~KeyLess(K, At(a, (i - 1) \div 2), At(a, i))
==============================================================================
