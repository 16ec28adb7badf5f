------------------------------ MODULE BinaryHeap ------------------------------
(***************************************************************************)
(* BinaryHeap.scala, in which the reliable server keeps the events that    *)
(* come too early.  `heap` is the part of the array in use; an element is  *)
(* the number its order compares.                                          *)
(***************************************************************************)
EXTENDS Integers, Sequences, FiniteSets

CONSTANTS
  Keys,     \* elements
  MaxHeap   \* bound: elements in the heap

ASSUME HeapAssumption == Keys \subseteq Int /\ MaxHeap \in Nat

VARIABLES
  heap,   \* array(1) .. array(sz)
  inside  \* history: how many of each element were enqueued and not dequeued

heapVars == <<heap, inside>>

HeapInit == heap = <<>> /\ inside = [k \in Keys |-> 0]

Swap(a, i, j) == [a EXCEPT ![i] = a[j], ![j] = a[i]]

\* A round of fixUp's loop: an element rises while its parent is greater.
Rise(s) ==
  IF s.pos > 1 /\ s.arr[s.pos \div 2] > s.arr[s.pos]
    THEN [arr |-> Swap(s.arr, s.pos, s.pos \div 2), pos |-> s.pos \div 2]
    ELSE s

\* fixUp(arr, from), which is over after `from` rounds at the latest.
FixUp(arr, from) ==
  LET rounds[n \in 0..from] ==
        IF n = 0 THEN [arr |-> arr, pos |-> from] ELSE Rise(rounds[n - 1])
  IN rounds[from].arr

\* A mutant: the left child is the one compared, whichever is less.
LeftChild(a, pos) == 2 * pos

\* The child that fixDown compares with, the lesser of the two.
LesserChild(a, pos) ==
  IF 2 * pos < Len(a) /\ a[2 * pos] > a[2 * pos + 1] THEN 2 * pos + 1 ELSE 2 * pos

\* A round of fixDown's loop: an element sinks while a child is less.
Sink(s) ==
  IF 2 * s.pos > Len(s.arr) \/ s.arr[s.pos] <= s.arr[LesserChild(s.arr, s.pos)]
    THEN s
    ELSE [arr |-> Swap(s.arr, s.pos, LesserChild(s.arr, s.pos)),
          pos |-> LesserChild(s.arr, s.pos)]

\* fixDown(arr, from, to), where `to` is the last place of arr.
FixDown(arr, from) ==
  LET rounds[n \in 0..Len(arr)] ==
        IF n = 0 THEN [arr |-> arr, pos |-> from] ELSE Sink(rounds[n - 1])
  IN rounds[Len(arr)].arr

HeapEnqueue(k) ==
  /\ Len(heap) < MaxHeap
  /\ heap' = FixUp(Append(heap, k), Len(heap) + 1)
  /\ inside' = [inside EXCEPT ![k] = @ + 1]

\* The last element takes the place of the first.
HeapDequeue ==
  /\ heap # <<>>
  /\ heap' = FixDown(SubSeq([heap EXCEPT ![1] = heap[Len(heap)]], 1, Len(heap) - 1), 1)
  /\ inside' = [inside EXCEPT ![heap[1]] = @ - 1]

HeapNext == (\E k \in Keys : HeapEnqueue(k)) \/ HeapDequeue

HeapSpec == HeapInit /\ [][HeapNext]_heapVars

\* Nothing is lost or doubled by the moves within the array, and the element
\* that comes out next is always a least one, whatever was enqueued and
\* dequeued before.
HeapGivesLeast ==
  /\ \A k \in Keys : inside[k] = Cardinality({i \in DOMAIN heap : heap[i] = k})
  /\ \A i \in DOMAIN heap : heap[1] <= heap[i]
=============================================================================
