------------------------------- MODULE MCParts -------------------------------
(***************************************************************************)
(* The data structures that the other modules take for granted, each one   *)
(* by itself: a behaviour is one of them in use.                           *)
(***************************************************************************)
EXTENDS UidGenerator, UnrolledRing, BinaryHeap, EventStream

\* Two threads share a counter, the third has one for itself.
MCSlotOf == [t \in UidThreads |-> IF t = 3 THEN 2 ELSE 1]

\* Small enough for five observers to reach a table, and to make it grow.
MCThresholds == <<2, 5, 11>>

\* Observers differ in nothing but their names.
MCSymmetry == Permutations(Observers)

VARIABLE part

mcVars == <<uidVars, ringVars, heapVars, streamVars, part>>

Init ==
  /\ UidInit /\ RingInit /\ HeapInit /\ StreamInit
  /\ part \in {"uids", "ring", "heap", "stream"}

Uids == part = "uids" /\ UidNext /\ UNCHANGED <<ringVars, heapVars, streamVars, part>>
Ring == part = "ring" /\ RingNext /\ UNCHANGED <<uidVars, heapVars, streamVars, part>>
Heap == part = "heap" /\ HeapNext /\ UNCHANGED <<uidVars, ringVars, streamVars, part>>
Stream == part = "stream" /\ StreamNext /\ UNCHANGED <<uidVars, ringVars, heapVars, part>>

Next == Uids \/ Ring \/ Heap \/ Stream

Spec == Init /\ [][Next]_mcVars
=============================================================================
