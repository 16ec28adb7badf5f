----------------------------- MODULE UnrolledRing -----------------------------
(***************************************************************************)
(* UnrolledRing.scala, the queue inside the default event queue, the event *)
(* buffers and the reliable client: a circular list of nodes, of which     *)
(* those from `start` to `end` hold the elements.  `nodes` is that list,   *)
(* from `start` on.  The n-th element enqueued is n.                       *)
(***************************************************************************)
EXTENDS Integers, Sequences, SequencesExt, FiniteSetsExt

CONSTANTS
  InitialLength,  \* INITIAL_NODE_LENGTH
  MaximumLength,  \* MAXIMUM_NODE_LENGTH
  MaxElems        \* bound: elements that are enqueued

ASSUME RingAssumption ==
  /\ InitialLength \in Nat \ {0, 1} /\ MaximumLength \in Nat
  /\ InitialLength <= MaximumLength /\ MaxElems \in Nat

VARIABLES
  nodes,     \* array.length, start and the elements up to until, of each node
  endAt,     \* the index of `end`
  enqueued,  \* how many elements were enqueued
  dequeued   \* the elements that dequeue has returned

ringVars == <<nodes, endAt, enqueued, dequeued>>

Node(length, from, items) == [length |-> length, from |-> from, items |-> items]

RingInit ==
  /\ nodes = <<Node(InitialLength, 0, <<>>)>>
  /\ endAt = 1
  /\ enqueued = 0 /\ dequeued = <<>>

EmptyNode(n) == n.items = <<>>
Until(n) == n.from + Len(n.items)
Reset(n) == Node(n.length, 0, <<>>)
With(n, x) == [n EXCEPT !.items = Append(@, x)]

Following(i) == IF i = Len(nodes) THEN 1 ELSE i + 1

\* Node.reserve: a node four times as long comes after `end`.
Reserved(ns) ==
  InsertAt(ns, endAt + 1,
    Node(Min({MaximumLength, 4 * ns[endAt].length}), 0, <<>>))

\* A mutant: an emptied node is used again while it is still the first one.
EmptiedNode(n) == EmptyNode(n)

\* next.isEmpty && next.start == 0, asked when the last node has just filled up.
FreshNode(n) == EmptyNode(n) /\ n.from = 0

\* Node.enqueue on the last node, which is left as soon as it is filled up.  The
\* branches for a last node that was full before are never taken (RingIsQueue).
EnqueueElem ==
  /\ enqueued < MaxElems
  /\ Until(nodes[endAt]) < nodes[endAt].length
  /\ enqueued' = enqueued + 1
  /\ LET added == [nodes EXCEPT ![endAt] = With(@, enqueued')]
         n == Following(endAt) IN
       IF Until(added[endAt]) < added[endAt].length
         THEN nodes' = added /\ UNCHANGED endAt
         ELSE IF FreshNode(added[n])
           THEN nodes' = [added EXCEPT ![n] = Reset(@)] /\ endAt' = n
           ELSE nodes' = Reserved(added) /\ endAt' = endAt + 1
  /\ UNCHANGED dequeued

\* The condition of `advance`.
Advances(ns) ==
  /\ EmptyNode(ns[1]) /\ endAt # 1
  /\ ~EmptyNode(ns[2])

\* advance: the first node is reset and becomes the last of the circle.
Advanced == IF Advances(nodes) THEN Append(Tail(nodes), Reset(nodes[1])) ELSE nodes

EndAdvanced == IF Advances(nodes) THEN endAt - 1 ELSE endAt

\* dequeue, which throws if the first node is then empty.
DequeueElem ==
  /\ ~EmptyNode(Advanced[1])
  /\ nodes' = [Advanced EXCEPT ![1].from = @ + 1, ![1].items = Tail(@)]
  /\ endAt' = EndAdvanced
  /\ dequeued' = Append(dequeued, Head(Advanced[1].items))
  /\ UNCHANGED enqueued

\* nonEmpty, isEmpty and head advance, too.
Ask ==
  /\ Advances(nodes)
  /\ nodes' = Advanced /\ endAt' = EndAdvanced
  /\ UNCHANGED <<enqueued, dequeued>>

RingNext == EnqueueElem \/ DequeueElem \/ Ask

RingSpec == RingInit /\ [][RingNext]_ringVars

\* What foreach visits: the elements of the nodes from `start` to `end`.
Contents == FlattenSeq([i \in 1..endAt |-> nodes[i].items])

\* The ring is a queue, as the event queues and buffers take it to be: elements
\* come out once each and in order, none is out of reach behind an emptied
\* node, and it says that it is empty exactly when it is.
RingIsQueue ==
  /\ dequeued \o Contents = [i \in 1..enqueued |-> i]
  /\ EmptyNode(Advanced[1]) <=> Contents = <<>>
  /\ Until(nodes[endAt]) < nodes[endAt].length
=============================================================================
