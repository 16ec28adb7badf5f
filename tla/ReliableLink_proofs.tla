------------------------- MODULE ReliableLink_proofs -------------------------
(***************************************************************************)
(* A reliable link keeps its window and is a FIFO link, for any window,    *)
(* number of events, and order of what is on its way.  The invariant says  *)
(* where each accepted event is: delivered, on the wire or in the heap     *)
(* under its own number as stamp, or in the client's queue.  The window    *)
(* then follows from what the client knows of the server: lastAck is never *)
(* ahead of what was delivered.                                            *)
(***************************************************************************)
EXTENDS ReliableLink, FiniteSetTheorems, TLAPS

-----------------------------------------------------------------------------
(* The inductive invariant *)

\* What the client has accepted is on its way up to lastStamp and waits in the
\* queue beyond it, where nothing waits while the window has room.
ClientShape ==
  /\ sent = lastStamp + Len(queue)
  /\ \A i \in 1..Len(queue) : queue[i] = lastStamp + i
  /\ policy = "fastReorder" => queue = <<>>
  /\ policy = "reorder" =>
       /\ Room(lastAck) >= 0
       /\ queue # <<>> => Room(lastAck) = 0

\* Every acknowledgement is of events that were delivered, and the client knows
\* of no other.
AckShape ==
  /\ mustSendAck => nextStamp > 1
  /\ lastAck < nextStamp
  /\ \A ack \in acks : ack < nextStamp
  /\ nextStamp <= lastStamp + 1

\* The n-th event has the stamp n; once stamped it is on its way, in the heap or behind
\* nextStamp, and nowhere twice.
Run(a, b) == {Stamped(s, s) : s \in a..b}

InTransit == Run(nextStamp, lastStamp)

WireShape ==
  /\ wire \ {None} \subseteq InTransit
  /\ heap \subseteq InTransit
  /\ wire \cap heap = {}

\* The user of the server was given the first events, all up to nextStamp while
\* the link was open.
DeliveredShape ==
  /\ Len(delivered) < nextStamp
  /\ \A i \in 1..Len(delivered) : delivered[i] = i
  /\ serverOpen => Len(delivered) = nextStamp - 1

LinkInv ==
  /\ TypeOK
  /\ ClientShape /\ AckShape /\ WireShape /\ DeliveredShape

-----------------------------------------------------------------------------
(* What the server takes out of the heap *)

\* Run(a, b) is the messages of the events from a to b.
LEMMA RunMember ==
  ASSUME NEW a \in Int, NEW b \in Int
  PROVE  /\ \A s \in a..b : Stamped(s, s) \in Run(a, b)
         /\ \A m \in Run(a, b) : /\ m.stamp \in a..b
                                 /\ m.x = m.stamp
                                 /\ m = Stamped(m.stamp, m.stamp)
BY DEF Run, Stamped

\* The loop that empties the heap takes the messages with consecutive stamps,
\* from n on, as many as there are.
LEMMA ReadyRun ==
  ASSUME NEW a \in Nat, NEW b \in Nat, NEW n \in Nat, NEW h \in SUBSET Run(a, b)
  PROVE  \E k \in Nat : /\ Ready(h, n) = Run(n, n + k - 1)
                        /\ Cardinality(Ready(h, n)) = k
<1> DEFINE R == Ready(h, n)
           S == Stamps(R)
           k == Cardinality(S)
<1>1. ASSUME NEW m \in R
      PROVE  /\ m \in h /\ m.stamp \in a..b /\ m.stamp >= n
             /\ m = Stamped(m.stamp, m.stamp)
  BY RunMember DEF Ready
<1>2. \A s \in S : Stamped(s, s) \in R /\ s \in n..b
  BY <1>1 DEF Stamps
<1>3. ASSUME NEW s \in S, NEW j \in n..s
      PROVE  j \in S
  <2>1. Stamped(s, s) \in R /\ s \in n..b /\ Stamped(s, s).stamp = s
    BY <1>2 DEF Stamped
  <2>2. \A i \in n..s : /\ i \in Stamps(h)
                        /\ \A o \in Stamps(h) : Compare(o, i) < 0 => o \in n..i
    BY <2>1 DEF Ready
  <2>3. PICK m \in h : m.stamp = j
    BY <2>2 DEF Stamps
  <2>4. \A i \in n..j : i \in n..s
    BY <2>1
  <2>5. m \in R
    BY <2>1, <2>2, <2>3, <2>4 DEF Ready
  <2> QED
    BY <2>3, <2>5 DEF Stamps
<1>4. IsFiniteSet(S) /\ k \in Nat
  <2>1. S \in SUBSET (n..b)
    BY <1>2
  <2>2. IsFiniteSet(n..b)
    BY FS_Interval
  <2> HIDE DEF S
  <2>3. IsFiniteSet(S)
    BY <2>1, <2>2, FS_Subset
  <2> QED
    BY <2>3, FS_CardinalityType
<1>5. ASSUME NEW s \in S PROVE s <= n + k - 1
  <2>1. n..s \in SUBSET S /\ s \in Int /\ s >= n
    BY <1>2, <1>3
  <2>2. Cardinality(n..s) = s - n + 1
    BY <2>1, FS_Interval
  <2>3. Cardinality(n..s) <= k
    BY <1>4, <2>1, FS_Subset
  <2> QED
    BY <1>4, <2>1, <2>2, <2>3
<1>6. S = n..(n + k - 1)
  <2>1. S \in SUBSET (n..(n + k - 1))
    BY <1>2, <1>4, <1>5
  <2>2. IsFiniteSet(n..(n + k - 1)) /\ Cardinality(n..(n + k - 1)) = k
    <3>1. k \in Nat
      BY <1>4
    <3> HIDE DEF k
    <3>2. n + k - 1 \in Int /\ (n > n + k - 1 <=> k = 0)
      BY <3>1
    <3> QED
      BY <3>1, <3>2, FS_Interval
  <2> HIDE DEF S
  <2> QED
    BY <2>1, <2>2, FS_Subset
<1>7. R = Run(n, n + k - 1)
  <2>1. \A m \in R : m \in Run(n, n + k - 1)
    <3>1. \A m \in R : m.stamp \in S
      BY DEF Stamps
    <3> QED
      BY <1>1, <1>6, <3>1 DEF Run
  <2>2. \A m \in Run(n, n + k - 1) : m \in R
    BY <1>2, <1>6 DEF Run
  <2> QED
    BY <2>1, <2>2
<1>8. Cardinality(R) = k
  <2> DEFINE f == [s \in S |-> Stamped(s, s)]
  <2>1. f \in Bijection(S, R)
    <3>1. f \in [S -> R]
      BY <1>2
    <3>2. \A i, j \in S : f[i] = f[j] => i = j
      BY DEF Stamped
    <3>3. \A m \in R : m.stamp \in S /\ f[m.stamp] = m
      BY <1>1 DEF Stamps
    <3> QED
      BY <3>1, <3>2, <3>3 DEF Bijection, Injection, Surjection, IsInjective
  <2> QED
    BY <1>4, <2>1, FS_Bijection DEF ExistsBijection
<1> QED
  BY <1>4, <1>7, <1>8

\* What the loop hands over is in order.
LEMMA ByStampRun ==
  ASSUME NEW n \in Nat, NEW k \in Nat, NEW run, run = Run(n, n + k - 1),
         Cardinality(run) = k
  PROVE  ByStamp(run, n) = [i \in 1..k |-> n + i - 1]
<1>1. ASSUME NEW i \in 1..k
      PROVE  (CHOOSE m \in run : m.stamp = n + i - 1).x = n + i - 1
  <2>1. n + i - 1 \in n..(n + k - 1)
    OBVIOUS
  <2>2. \E m \in run : m.stamp = n + i - 1
    <3>1. Stamped(n + i - 1, n + i - 1) \in run
      BY <2>1 DEF Run
    <3> QED
      BY <3>1 DEF Stamped
  <2>3. \A m \in run : m.stamp = n + i - 1 => m.x = n + i - 1
    BY RunMember
  <2> QED
    BY <2>2, <2>3
<1> QED
  BY <1>1 DEF ByStamp

\* A longer run has the messages of a shorter one.
LEMMA RunGrows ==
  ASSUME NEW a \in Int, NEW b \in Int, NEW c \in Int, NEW d \in Int, c <= a, b <= d
  PROVE  Run(a, b) \subseteq Run(c, d)
BY DEF Run

-----------------------------------------------------------------------------
(* Every step keeps the invariant *)

\* What the invariant says of the types of the variables.
LEMMA LinkTypes ==
  ASSUME LinkInv
  PROVE  /\ MaxSends \in Nat /\ Window \in Nat \ {0}
         /\ policy \in {"reorder", "fastReorder"} /\ policy \in Policies
         /\ sent \in 0..MaxSends /\ lastStamp \in 0..MaxSends
         /\ lastAck \in 0..MaxSends /\ queue \in Seq(Events) /\ Len(queue) \in Nat
         /\ clientOpen \in BOOLEAN /\ serverOpen \in BOOLEAN /\ mustSendAck \in BOOLEAN
         /\ acks \subseteq {-1} \cup (1..MaxSends)
         /\ nextStamp \in 1..(MaxSends + 1)
         /\ delivered \in Seq(Events) /\ Len(delivered) \in Nat
BY WindowAssumption DEF LinkInv, TypeOK, Events, CloseAck

\* The messages of a run are possible messages.
LEMMA WiredRun ==
  ASSUME NEW a \in 1..(MaxSends + 1), NEW b \in 0..MaxSends
  PROVE  Run(a, b) \subseteq Wired \ {None}
BY WindowAssumption DEF Run, Wired, Events, None, Stamped

\* The client accepts an event.
LEMMA ClientSendKeeps ==
  ASSUME LinkInv, ClientSend
  PROVE  LinkInv'
<1> USE DEF serverVars
<1>a. UNCHANGED <<policy, lastAck, clientOpen, acks, nextStamp, heap, mustSendAck,
                  delivered, serverOpen>>
  BY DEF ClientSend
<1>b. sent < MaxSends /\ sent' = sent + 1 /\ sent' \in Events /\ sent' \in 0..MaxSends
  BY LinkTypes DEF ClientSend, Events
<1>1. CASE policy = "fastReorder" \/ Room(lastAck) > 0
  <2>1. /\ lastStamp' = lastStamp + 1 /\ UNCHANGED queue
        /\ wire' = wire \cup {Stamped(sent', lastStamp')}
    BY <1>1 DEF ClientSend
  <2>2. queue = <<>> /\ Len(queue) = 0 /\ sent = lastStamp
    BY <1>1, LinkTypes DEF LinkInv, ClientShape
  <2>3. wire' = wire \cup {Stamped(lastStamp', lastStamp')}
    BY <1>b, <2>1, <2>2
  <2>4. lastStamp' \in 0..MaxSends /\ lastStamp' >= nextStamp
    BY <1>b, <2>1, <2>2, LinkTypes DEF LinkInv, AckShape
  <2>5. /\ InTransit \subseteq InTransit'
        /\ Stamped(lastStamp', lastStamp') \in InTransit'
        /\ Stamped(lastStamp', lastStamp') \notin InTransit
    BY <1>a, <2>1, <2>4, RunMember, RunGrows, LinkTypes DEF InTransit, Stamped
  <2>6. InTransit' \subseteq Wired \ {None}
    BY <1>a, <2>4, WiredRun, LinkTypes DEF InTransit
  <2>7. TypeOK'
    BY <1>a, <1>b, <2>1, <2>3, <2>4, <2>5, <2>6 DEF LinkInv, TypeOK
  <2>8. ClientShape'
    BY <1>1, <1>a, <1>b, <2>1, <2>2, LinkTypes DEF LinkInv, ClientShape, Room
  <2>9. AckShape' /\ DeliveredShape'
    BY <1>a, <2>1, LinkTypes DEF LinkInv, AckShape, DeliveredShape
  <2>10. WireShape'
    BY <1>a, <2>3, <2>5, <2>6 DEF LinkInv, WireShape
  <2> QED
    BY <2>7, <2>8, <2>9, <2>10 DEF LinkInv
<1>2. CASE ~(policy = "fastReorder" \/ Room(lastAck) > 0)
  <2>1. queue' = Append(queue, sent') /\ UNCHANGED <<lastStamp, wire>>
    BY <1>2 DEF ClientSend
  <2>2. TypeOK'
    BY <1>a, <1>b, <2>1, LinkTypes DEF LinkInv, TypeOK
  <2>3. ClientShape'
    BY <1>2, <1>a, <1>b, <2>1, LinkTypes, SMTT(30) DEF LinkInv, ClientShape, Room
  <2>4. AckShape' /\ DeliveredShape' /\ WireShape'
    BY <1>a, <2>1 DEF LinkInv, AckShape, DeliveredShape, WireShape, InTransit
  <2> QED
    BY <2>2, <2>3, <2>4 DEF LinkInv
<1> QED
  BY <1>1, <1>2

\* An acknowledgement arrives and sets queued events free.
LEMMA ClientAckKeeps ==
  ASSUME LinkInv, NEW ack \in acks, ClientAck(ack)
  PROVE  LinkInv'
<1> USE DEF serverVars
<1>a. /\ UNCHANGED <<policy, sent, nextStamp, heap, mustSendAck, delivered, serverOpen>>
      /\ acks' = acks \ {ack} /\ clientOpen' \in BOOLEAN
  BY DEF ClientAck
<1>b. ack \in {-1} \cup (1..MaxSends) /\ ack < nextStamp
  BY LinkTypes DEF LinkInv, AckShape
<1>1. CASE policy = "reorder"
  <2> DEFINE n == Released(lastAck')
             Farewells == IF ack = CloseAck THEN Farewell ELSE {}
  <2>1. /\ lastAck' = HighestAck(lastAck, ack)
        /\ lastStamp' = lastStamp + n
        /\ queue' = SubSeq(queue, n + 1, Len(queue))
        /\ wire' = wire \cup {Stamped(queue[i], lastStamp + i) : i \in 1..n} \cup Farewells
    BY <1>1 DEF ClientAck
  <2>2. /\ lastAck' \in 0..MaxSends /\ lastAck' >= lastAck /\ lastAck' < nextStamp
    BY <1>b, <2>1, LinkTypes DEF HighestAck, Larger, LinkInv, AckShape
  <2>3. /\ Room(lastAck') = Window - (lastStamp - lastAck') /\ Room(lastAck') >= 0
        /\ Room(lastAck') \in Int
    BY <1>1, <2>2, LinkTypes, SMTT(30) DEF Room, LinkInv, ClientShape
  <2>4. /\ n \in 0..Len(queue) /\ n <= Room(lastAck')
        /\ n = Len(queue) \/ n = Room(lastAck')
    BY <2>3, LinkTypes DEF Released, Larger, Smaller
  <2> HIDE DEF n
  <2>5. /\ Len(queue') = Len(queue) - n
        /\ \A i \in 1..Len(queue') : queue'[i] = queue[n + i]
        /\ queue' \in Seq(Events)
    BY <2>1, <2>4, LinkTypes
  <2>6. lastStamp' \in 0..MaxSends
    BY <2>1, <2>4, LinkTypes, SMTT(30) DEF LinkInv, ClientShape
  <2>7. \A i \in 1..n : queue[i] = lastStamp + i
    BY <2>4, LinkTypes DEF LinkInv, ClientShape
  <2>8. {Stamped(queue[i], lastStamp + i) : i \in 1..n} = Run(lastStamp + 1, lastStamp + n)
    <3> DEFINE F == {Stamped(queue[i], lastStamp + i) : i \in 1..n}
    <3>1. lastStamp \in Int /\ n \in Int
      BY <2>4, LinkTypes
    <3>2. ASSUME NEW i \in 1..n
          PROVE  Stamped(queue[i], lastStamp + i) \in Run(lastStamp + 1, lastStamp + n)
      <4>1. lastStamp + i \in (lastStamp + 1)..(lastStamp + n)
        BY <3>1
      <4> QED
        BY <2>7, <4>1 DEF Run
    <3>3. ASSUME NEW s \in (lastStamp + 1)..(lastStamp + n)
          PROVE  Stamped(s, s) \in F
      <4>1. s - lastStamp \in 1..n /\ lastStamp + (s - lastStamp) = s
        BY <3>1
      <4>2. Stamped(queue[s - lastStamp], lastStamp + (s - lastStamp)) \in F
        BY <4>1
      <4> QED
        BY <2>7, <4>1, <4>2
    <3> QED
      BY <3>2, <3>3, Zenon DEF Run
  <2>9. wire' \ {None} \subseteq (wire \ {None}) \cup Run(lastStamp + 1, lastStamp + n)
    BY <2>1, <2>8 DEF Farewell
  <2>10. /\ InTransit \subseteq InTransit'
         /\ Run(lastStamp + 1, lastStamp + n) \subseteq InTransit'
         /\ InTransit \cap Run(lastStamp + 1, lastStamp + n) = {}
    <3>1. InTransit \subseteq InTransit'
      BY <1>a, <2>1, <2>4, RunGrows, LinkTypes DEF InTransit
    <3>2. Run(lastStamp + 1, lastStamp + n) \subseteq InTransit'
      BY <1>a, <2>1, <2>4, RunGrows, LinkTypes DEF InTransit, LinkInv, AckShape
    <3>3. InTransit \cap Run(lastStamp + 1, lastStamp + n) = {}
      BY <2>4, RunMember, LinkTypes, SMTT(30) DEF InTransit
    <3> QED
      BY <3>1, <3>2, <3>3
  <2>11. InTransit' \subseteq Wired \ {None}
    BY <1>a, <2>6, WiredRun, LinkTypes DEF InTransit
  <2>12. WireShape'
    BY <1>a, <2>9, <2>10, <2>11, LinkTypes DEF LinkInv, WireShape, TypeOK
  <2>13. TypeOK'
    <3>1. wire' \subseteq Wired
      BY <2>9, <2>10, <2>11 DEF LinkInv, TypeOK, Wired
    <3> QED
      BY <1>a, <2>2, <2>5, <2>6, <3>1 DEF LinkInv, TypeOK
  <2>14. ClientShape'
    <3>1. sent' = lastStamp' + Len(queue')
      BY <1>a, <2>1, <2>4, <2>5, LinkTypes DEF LinkInv, ClientShape
    <3>2. \A i \in 1..Len(queue') : queue'[i] = lastStamp' + i
      <4>1. ASSUME NEW i \in 1..Len(queue')
            PROVE  queue'[i] = lastStamp' + i
        <5>1. n + i \in 1..Len(queue) /\ i \in Int /\ n \in Int
          BY <2>4, <2>5, LinkTypes
        <5>2. queue'[i] = queue[n + i] /\ queue[n + i] = lastStamp + (n + i)
          BY <2>5, <5>1 DEF LinkInv, ClientShape
        <5> QED
          BY <2>1, <5>1, <5>2, LinkTypes, SMTT(30)
      <4> QED
        BY <4>1
    <3>3. Room(lastAck)' = Room(lastAck') - n
      <4>1. Room(lastAck)' = Window - (lastStamp' - lastAck')
        BY DEF Room
      <4>2. n \in Int /\ lastStamp' = lastStamp + n
        BY <2>1, <2>4, LinkTypes
      <4>3. /\ Window \in Int /\ lastStamp \in Int /\ lastAck' \in Int
            /\ Room(lastAck') = Window - (lastStamp - lastAck')
        BY <2>2, <2>3, LinkTypes
      <4> QED
        BY <4>1, <4>2, <4>3
    <3>4. queue' # <<>> => Room(lastAck)' = 0
      BY <2>3, <2>4, <2>5, <3>3, LinkTypes
    <3> QED
      BY <1>1, <1>a, <2>3, <2>4, <3>1, <3>2, <3>3, <3>4 DEF ClientShape
  <2>15. AckShape' /\ DeliveredShape'
    BY <1>a, <2>1, <2>2, <2>4, LinkTypes, SMTT(30) DEF LinkInv, AckShape, DeliveredShape
  <2> QED
    BY <2>12, <2>13, <2>14, <2>15 DEF LinkInv
<1>2. CASE policy # "reorder"
  <2>1. UNCHANGED <<lastAck, lastStamp, queue, wire>>
    BY <1>2 DEF ClientAck
  <2>2. TypeOK'
    BY <1>a, <2>1 DEF LinkInv, TypeOK
  <2>3. ClientShape' /\ AckShape' /\ DeliveredShape' /\ WireShape'
    BY <1>a, <2>1 DEF LinkInv, ClientShape, AckShape, DeliveredShape, WireShape,
       InTransit, Room
  <2> QED
    BY <2>2, <2>3 DEF LinkInv
<1> QED
  BY <1>1, <1>2

\* The user of the client closes the link.
LEMMA ClientUnsubscribeKeeps ==
  ASSUME LinkInv, ClientUnsubscribe
  PROVE  LinkInv'
<1> USE DEF serverVars
<1>1. /\ UNCHANGED <<policy, sent, lastStamp, lastAck, queue, acks, serverVars>>
      /\ clientOpen' = FALSE /\ wire' \ {None} = wire \ {None}
  BY DEF ClientUnsubscribe, Farewell
<1>2. TypeOK'
  <2>1. wire' \subseteq Wired
    BY <1>1 DEF LinkInv, TypeOK, Wired
  <2> QED
    BY <1>1, <2>1 DEF LinkInv, TypeOK
<1>3. WireShape'
  <2>1. None \notin heap
    BY DEF LinkInv, TypeOK
  <2>2. wire' \cap heap = {}
    BY <1>1, <2>1 DEF LinkInv, WireShape
  <2> QED
    BY <1>1, <2>2 DEF LinkInv, WireShape, InTransit
<1>4. ClientShape' /\ AckShape' /\ DeliveredShape'
  BY <1>1 DEF LinkInv, ClientShape, AckShape, DeliveredShape, Room
<1> QED
  BY <1>2, <1>3, <1>4 DEF LinkInv

\* Late acknowledgements and late events are dropped.
LEMMA DropKeeps ==
  ASSUME LinkInv,
         (\E ack \in acks : ClientDrop(ack)) \/ (\E m \in wire : ServerDrop(m))
  PROVE  LinkInv'
<1> USE DEF serverVars, clientVars
<1>1. /\ UNCHANGED <<policy, sent, lastStamp, lastAck, queue, clientOpen, serverVars>>
      /\ acks' \subseteq acks /\ wire' \subseteq wire
  BY DEF ClientDrop, ServerDrop
<1>2. TypeOK'
  BY <1>1 DEF LinkInv, TypeOK
<1>3. ClientShape' /\ AckShape' /\ DeliveredShape' /\ WireShape'
  BY <1>1 DEF LinkInv, ClientShape, AckShape, DeliveredShape, WireShape, InTransit, Room
<1> QED
  BY <1>2, <1>3 DEF LinkInv

\* The server closes the link, or hears that the client has.
LEMMA ServerEndKeeps ==
  ASSUME LinkInv, ServerNone \/ ServerUnsubscribe
  PROVE  LinkInv'
<1> USE DEF clientVars
<1>1. /\ UNCHANGED <<policy, sent, lastStamp, lastAck, queue, clientOpen, nextStamp,
                     heap, mustSendAck, delivered>>
      /\ serverOpen' = FALSE /\ acks' = acks \cup {-1} /\ wire' \subseteq wire
  BY DEF ServerNone, ServerUnsubscribe, ServerEnds, CloseAck
<1>2. TypeOK'
  BY <1>1 DEF LinkInv, TypeOK, CloseAck
<1>3. ClientShape' /\ DeliveredShape' /\ WireShape'
  BY <1>1 DEF LinkInv, ClientShape, DeliveredShape, WireShape, InTransit, Room
<1>4. AckShape'
  BY <1>1, LinkTypes DEF LinkInv, AckShape
<1> QED
  BY <1>2, <1>3, <1>4 DEF LinkInv

\* The server acknowledges what it has delivered in the batch.
LEMMA ServerPreemptedKeeps ==
  ASSUME LinkInv, ServerPreempted
  PROVE  LinkInv'
<1> USE DEF clientVars
<1>1. /\ UNCHANGED <<policy, sent, lastStamp, lastAck, queue, clientOpen, wire, nextStamp,
                     heap, delivered, serverOpen>>
      /\ mustSendAck /\ mustSendAck' = FALSE /\ acks' = acks \cup {nextStamp - 1}
  BY DEF ServerPreempted
<1>2. nextStamp - 1 \in Events /\ nextStamp - 1 < nextStamp
  BY <1>1, LinkTypes DEF LinkInv, AckShape, Events
<1>3. TypeOK'
  BY <1>1, <1>2 DEF LinkInv, TypeOK
<1>4. ClientShape' /\ DeliveredShape' /\ WireShape' /\ AckShape'
  BY <1>1, <1>2 DEF LinkInv, ClientShape, DeliveredShape, WireShape, AckShape, InTransit,
     Room
<1> QED
  BY <1>3, <1>4 DEF LinkInv

\* An early event is stored.
LEMMA ServerStoreKeeps ==
  ASSUME LinkInv, NEW m \in wire, ServerStore(m)
  PROVE  LinkInv'
<1> USE DEF clientVars
<1>1. /\ UNCHANGED <<policy, sent, lastStamp, lastAck, queue, clientOpen, acks, nextStamp,
                     mustSendAck, delivered, serverOpen>>
      /\ m # None /\ wire' = wire \ {m} /\ heap' = heap \cup {m}
  BY DEF ServerStore
<1>2. TypeOK'
  BY <1>1 DEF LinkInv, TypeOK
<1>3. ClientShape' /\ DeliveredShape' /\ AckShape'
  BY <1>1 DEF LinkInv, ClientShape, DeliveredShape, AckShape, Room
<1>4. WireShape'
  BY <1>1 DEF LinkInv, WireShape, InTransit
<1> QED
  BY <1>2, <1>3, <1>4 DEF LinkInv

\* What a delivery does: k events, from nextStamp on, leave the wire and the
\* heap, and the user gets the first of them, or all.
DeliversSome(k, i) ==
  /\ nextStamp' = nextStamp + k /\ nextStamp + k <= lastStamp + 1
  /\ Stamped(nextStamp, nextStamp) \in wire
  /\ wire' = wire \ {Stamped(nextStamp, nextStamp)}
  /\ heap' = heap \ Run(nextStamp + 1, nextStamp + k - 1)
  /\ Run(nextStamp + 1, nextStamp + k - 1) \subseteq heap
  /\ Len(delivered') = Len(delivered) + i
  /\ \A j \in 1..Len(delivered) : delivered'[j] = delivered[j]
  /\ \A j \in 1..i : delivered'[Len(delivered) + j] = nextStamp + j - 1
  /\ delivered' \in Seq(Events)
  /\ \/ i = k /\ UNCHANGED <<acks, serverOpen>>
     \/ ServerEnds

\* An event with the expected stamp is delivered with the run that waited for it
\* in the heap, as far as the server's user goes on listening.
LEMMA ServerDelivers ==
  ASSUME LinkInv, NEW m \in wire, ServerDeliver(m)
  PROVE  \E k \in Nat \ {0} : \E i \in 1..k : DeliversSome(k, i)
<1> DEFINE n == nextStamp + 1
           run == Ready(heap, n)
           given == <<m.x>> \o ByStamp(run, n)
<1>1. /\ m = Stamped(nextStamp, nextStamp) /\ nextStamp \in 1..lastStamp
  <2>1. m \in InTransit /\ m.stamp = nextStamp
    BY DEF ServerDeliver, LinkInv, WireShape
  <2> QED
    BY <2>1, RunMember, LinkTypes DEF InTransit
<1>2. PICK l \in Nat : run = Run(n, n + l - 1) /\ Cardinality(run) = l
  <2>1. heap \in SUBSET Run(nextStamp, lastStamp)
    BY DEF LinkInv, WireShape, InTransit
  <2>2. nextStamp \in Nat /\ lastStamp \in Nat /\ n \in Nat
    BY LinkTypes
  <2> QED
    BY <2>1, <2>2, ReadyRun
<1>3. run \subseteq heap
  BY DEF Ready
<1>4. n + l - 1 <= lastStamp
  <2>1. CASE l = 0
    BY <1>1, <2>1, LinkTypes
  <2>2. CASE l > 0
    <3>1. Stamped(n + l - 1, n + l - 1) \in run
      BY <1>2, <2>2, LinkTypes, SMTT(30) DEF Run
    <3>2. Stamped(n + l - 1, n + l - 1) \in InTransit
      BY <1>3, <3>1 DEF LinkInv, WireShape
    <3> QED
      BY <3>2, RunMember, LinkTypes DEF InTransit, Stamped
  <2> QED
    BY <1>2, <2>1, <2>2
<1>5. ByStamp(run, n) = [i \in 1..l |-> n + i - 1]
  <2>1. n \in Nat
    BY LinkTypes
  <2> HIDE DEF n, run
  <2> QED
    BY <1>2, <2>1, ByStampRun
<1>6. /\ given \in Seq(Events) /\ Len(given) = l + 1
      /\ \A i \in 1..(l + 1) : given[i] = nextStamp + i - 1
  <2> DEFINE q == [i \in 1..l |-> n + i - 1]
  <2>1. \A i \in 1..l : n + i - 1 \in Events
    BY <1>4, LinkTypes DEF Events
  <2>2. q \in Seq(Events) /\ Len(q) = l /\ \A i \in 1..l : q[i] = n + i - 1
    BY <2>1
  <2>3. m.x = nextStamp /\ nextStamp \in Events /\ nextStamp \in Int
    BY <1>1, LinkTypes DEF Stamped, Events
  <2> HIDE DEF q
  <2>4. /\ <<m.x>> \o q \in Seq(Events) /\ Len(<<m.x>> \o q) = l + 1
        /\ \A i \in 1..(l + 1) : (<<m.x>> \o q)[i] = IF i = 1 THEN m.x ELSE q[i - 1]
    BY <2>2, <2>3
  <2>5. \A i \in 1..(l + 1) : (<<m.x>> \o q)[i] = nextStamp + i - 1
    BY <2>2, <2>3, <2>4
  <2> QED
    BY <1>5, <2>4, <2>5 DEF q
<1>7. /\ wire' = wire \ {m} /\ heap' = heap \ run /\ nextStamp' = nextStamp + Len(given)
      /\ \/ delivered' = delivered \o given /\ UNCHANGED <<acks, serverOpen>>
         \/ \E i \in 1..Len(given) :
              delivered' = delivered \o SubSeq(given, 1, i) /\ ServerEnds
  BY DEF ServerDeliver
<1> HIDE DEF given, run
<1>8. PICK i \in 1..(l + 1) :
        /\ delivered' = delivered \o SubSeq(given, 1, i)
        /\ \/ i = l + 1 /\ UNCHANGED <<acks, serverOpen>>
           \/ ServerEnds
  <2>1. SubSeq(given, 1, l + 1) = given
    BY <1>6
  <2>2. l + 1 \in 1..(l + 1)
    BY <1>2
  <2> QED
    BY <1>6, <1>7, <2>1, <2>2
<1>9. /\ Len(delivered') = Len(delivered) + i
      /\ \A j \in 1..Len(delivered) : delivered'[j] = delivered[j]
      /\ \A j \in 1..i : delivered'[Len(delivered) + j] = nextStamp + j - 1
      /\ delivered' \in Seq(Events)
  <2> DEFINE g == SubSeq(given, 1, i)
  <2>1. g \in Seq(Events) /\ Len(g) = i /\ \A j \in 1..i : g[j] = nextStamp + j - 1
    BY <1>6
  <2> HIDE DEF g
  <2>2. delivered' = delivered \o g
    BY <1>8 DEF g
  <2>3. i \in Nat /\ Len(delivered) \in Nat /\ delivered \in Seq(Events)
    BY <1>2, LinkTypes
  <2>4. delivered \o g \in Seq(Events) /\ Len(delivered \o g) = Len(delivered) + i
    BY <2>1, <2>3
  <2>5. \A j \in 1..Len(delivered) : (delivered \o g)[j] = delivered[j]
    BY <2>1, <2>3
  <2>6. \A j \in 1..i : (delivered \o g)[Len(delivered) + j] = g[j]
    BY <2>1, <2>3
  <2> QED
    BY <2>1, <2>2, <2>4, <2>5, <2>6
<1>10. DeliversSome(l + 1, i)
  <2>1. nextStamp + (l + 1) <= lastStamp + 1 /\ nextStamp' = nextStamp + (l + 1)
    BY <1>4, <1>6, <1>7, LinkTypes, SMTT(30)
  <2>2. n = nextStamp + 1 /\ n + l - 1 = nextStamp + (l + 1) - 1
    BY LinkTypes
  <2>3. run = Run(nextStamp + 1, nextStamp + (l + 1) - 1)
    BY <1>2, <2>2
  <2> QED
    BY <1>1, <1>3, <1>7, <1>8, <1>9, <2>1, <2>3, Zenon DEF DeliversSome
<1>11. l + 1 \in Nat \ {0}
  BY <1>2
<1> QED
  BY <1>10, <1>11

\* The server delivers.
LEMMA ServerDeliverKeeps ==
  ASSUME LinkInv, NEW m \in wire, ServerDeliver(m)
  PROVE  LinkInv'
<1> USE DEF clientVars
<1>0. PICK k \in Nat \ {0} : \E i \in 1..k : DeliversSome(k, i)
  BY ServerDelivers
<1>1. PICK i \in 1..k : DeliversSome(k, i)
  BY <1>0
<1>2. /\ UNCHANGED <<policy, sent, lastStamp, lastAck, queue, clientOpen>>
      /\ mustSendAck' \in BOOLEAN /\ serverOpen
  BY DEF ServerDeliver
<1>3. acks' \subseteq acks \cup {-1} /\ serverOpen' \in BOOLEAN
  BY <1>1, LinkTypes DEF DeliversSome, ServerEnds, CloseAck
<1>4. /\ nextStamp' = nextStamp + k /\ nextStamp' > nextStamp /\ nextStamp' > 1
      /\ nextStamp' <= lastStamp + 1 /\ nextStamp' \in 1..(MaxSends + 1)
  BY <1>1, LinkTypes, SMTT(30) DEF DeliversSome
<1>5. /\ wire' = wire \ {Stamped(nextStamp, nextStamp)}
      /\ heap' = heap \ Run(nextStamp + 1, nextStamp + k - 1)
      /\ Run(nextStamp + 1, nextStamp + k - 1) \subseteq heap
  BY <1>1 DEF DeliversSome
<1>6. TypeOK'
  BY <1>1, <1>2, <1>3, <1>4, <1>5 DEF LinkInv, TypeOK, DeliversSome, CloseAck
<1>7. ClientShape'
  BY <1>2 DEF LinkInv, ClientShape, Room
<1>8. AckShape'
  BY <1>2, <1>3, <1>4, LinkTypes, SMTT(30) DEF LinkInv, AckShape
<1>9. DeliveredShape'
  <2>1. /\ Len(delivered) = nextStamp - 1 /\ nextStamp \in Int
        /\ \A j \in 1..Len(delivered) : delivered[j] = j
    BY <1>2, LinkTypes DEF LinkInv, DeliveredShape
  <2>2. /\ Len(delivered') = Len(delivered) + i
        /\ \A j \in 1..Len(delivered) : delivered'[j] = delivered[j]
        /\ \A j \in 1..i : delivered'[Len(delivered) + j] = nextStamp + j - 1
        /\ i = k \/ serverOpen' = FALSE
    BY <1>1 DEF DeliversSome, ServerEnds
  <2>3. ASSUME NEW j \in 1..Len(delivered')
        PROVE  delivered'[j] = j
    <3>1. CASE j <= Len(delivered)
      BY <2>1, <2>2, <3>1
    <3>2. CASE j > Len(delivered)
      <4>1. /\ j - Len(delivered) \in 1..i
            /\ Len(delivered) + (j - Len(delivered)) = j
            /\ nextStamp + (j - Len(delivered)) - 1 = j
        BY <2>1, <2>2, <3>2
      <4> QED
        BY <2>2, <4>1
    <3> QED
      BY <2>1, <3>1, <3>2
  <2>4. /\ Len(delivered') < nextStamp'
        /\ serverOpen' => Len(delivered') = nextStamp' - 1
    BY <1>4, <2>1, <2>2
  <2> QED
    BY <2>3, <2>4 DEF DeliveredShape
<1>10. WireShape'
  <2>1. Run(nextStamp, lastStamp) \subseteq
          {Stamped(nextStamp, nextStamp)}
            \cup Run(nextStamp + 1, nextStamp + k - 1) \cup Run(nextStamp', lastStamp)
    <3>1. ASSUME NEW e \in Run(nextStamp, lastStamp)
          PROVE  \/ e = Stamped(nextStamp, nextStamp)
                 \/ e \in Run(nextStamp + 1, nextStamp + k - 1)
                 \/ e \in Run(nextStamp', lastStamp)
      <4>1. e.stamp \in nextStamp..lastStamp /\ e = Stamped(e.stamp, e.stamp)
        BY RunMember, LinkTypes
      <4>2. \/ e.stamp = nextStamp \/ e.stamp \in (nextStamp + 1)..(nextStamp + k - 1)
            \/ e.stamp \in nextStamp'..lastStamp
        BY <1>4, <4>1, LinkTypes, SMTT(30)
      <4> QED
        BY <4>1, <4>2, Zenon DEF Run
    <3> QED
      BY <3>1
  <2>2. wire' \ {None} \subseteq InTransit'
    BY <1>2, <1>5, <2>1 DEF LinkInv, WireShape, InTransit
  <2>3. heap' \subseteq InTransit'
    <3>1. Stamped(nextStamp, nextStamp) \in wire
      BY <1>1 DEF DeliversSome
    <3> QED
      BY <1>2, <1>5, <2>1, <3>1 DEF LinkInv, WireShape, InTransit
  <2> QED
    BY <1>5, <2>2, <2>3 DEF LinkInv, WireShape
<1> QED
  BY <1>6, <1>7, <1>8, <1>9, <1>10 DEF LinkInv

\* A new link satisfies the invariant.
LEMMA LinkInit ==
  ASSUME Init
  PROVE  LinkInv
<1>1. TypeOK
  <2>1. <<>> \in Seq(Events) /\ MaxSends \in Nat
    BY WindowAssumption
  <2>2. /\ sent \in 0..MaxSends /\ lastStamp \in 0..MaxSends /\ lastAck \in 0..MaxSends
        /\ nextStamp \in 1..(MaxSends + 1)
    BY <2>1 DEF Init
  <2>3. /\ wire \subseteq Wired /\ acks \subseteq {CloseAck} \cup Events
        /\ heap \subseteq Wired \ {None}
    BY DEF Init
  <2> QED
    BY <2>1, <2>2, <2>3 DEF Init, TypeOK
<1>2. ClientShape /\ AckShape /\ DeliveredShape
  BY WindowAssumption DEF Init, ClientShape, AckShape, DeliveredShape, Room
<1>3. WireShape
  BY DEF Init, WireShape
<1> QED
  BY <1>1, <1>2, <1>3 DEF LinkInv

\* Every step keeps the invariant.
LEMMA LinkStep ==
  ASSUME LinkInv, [Next]_vars
  PROVE  LinkInv'
<1>1. CASE ClientSend
  BY <1>1, ClientSendKeeps
<1>2. CASE ClientUnsubscribe
  BY <1>2, ClientUnsubscribeKeeps
<1>3. ASSUME NEW ack \in acks, ClientAck(ack) PROVE LinkInv'
  BY <1>3, ClientAckKeeps
<1>4. CASE (\E ack \in acks : ClientDrop(ack)) \/ (\E m \in wire : ServerDrop(m))
  BY <1>4, DropKeeps
<1>5. ASSUME NEW m \in wire, ServerDeliver(m) PROVE LinkInv'
  BY <1>5, ServerDeliverKeeps
<1>6. ASSUME NEW m \in wire, ServerStore(m) PROVE LinkInv'
  BY <1>6, ServerStoreKeeps
<1>7. CASE ServerNone \/ ServerUnsubscribe
  BY <1>7, ServerEndKeeps
<1>8. CASE ServerPreempted
  BY <1>8, ServerPreemptedKeeps
<1>9. CASE UNCHANGED vars
  <2>1. UNCHANGED <<policy, sent, lastStamp, lastAck, queue, clientOpen, wire, acks,
                    nextStamp, heap, mustSendAck, delivered, serverOpen>>
    BY <1>9 DEF vars, clientVars, serverVars
  <2>2. TypeOK'
    BY <2>1 DEF LinkInv, TypeOK
  <2> QED
    BY <2>1, <2>2 DEF LinkInv, ClientShape, AckShape, WireShape, DeliveredShape, InTransit,
       Room
<1> QED
  BY <1>1, <1>2, <1>3, <1>4, <1>5, <1>6, <1>7, <1>8, <1>9 DEF Next

-----------------------------------------------------------------------------
(* The theorems *)

\* LinkInv is an invariant of every link.
THEOREM LinkInvariant == Spec => []LinkInv
<1>1. Init => LinkInv
  BY LinkInit
<1>2. LinkInv /\ [Next]_vars => LinkInv'
  BY LinkStep
<1> QED
  BY <1>1, <1>2, PTL DEF Spec

\* The state of the link stays well-typed: no stamp passes MaxSends.
THEOREM LinkTypeCorrect == Spec => []TypeOK
<1>1. LinkInv => TypeOK
  BY DEF LinkInv
<1> QED
  BY <1>1, LinkInvariant, PTL

\* The receiver is never overflowed: what is on its way to it is ahead of what
\* was delivered by less than the window, in any order of arrival.
THEOREM WithinWindowHolds == Spec => []WithinWindow
<1>1. LinkInv => WithinWindow
  <2> SUFFICES ASSUME LinkInv, policy = "reorder", NEW m \in heap \cup (wire \ {None})
               PROVE  m.stamp - nextStamp \in 0..(Window - 1)
    BY DEF WithinWindow
  <2>1. m.stamp \in nextStamp..lastStamp
    BY RunMember, LinkTypes DEF LinkInv, WireShape, InTransit
  <2>2. lastStamp <= lastAck + Window /\ lastAck < nextStamp
    BY LinkTypes DEF LinkInv, ClientShape, AckShape, Room
  <2> QED
    BY <2>1, <2>2, LinkTypes, SMTT(30)
<1> QED
  BY <1>1, LinkInvariant, PTL

\* The n-th accepted event is n.
Accepted == [i \in 1..sent |-> i]

\* To a user, a step of the link is a step of the FIFO link, or none.
LEMMA RefinesStep ==
  ASSUME LinkInv, [Next]_vars
  PROVE  [Fifo!Next]_(Fifo!vars)
<1> USE DEF clientVars, serverVars
<1>1. CASE ClientSend
  <2>1. sent' = sent + 1 /\ sent' \in Events /\ UNCHANGED <<delivered, serverOpen>>
    BY <1>1, LinkTypes DEF ClientSend, Events
  <2>2. Accepted' = Append(Accepted, sent')
    BY <2>1, LinkTypes DEF Accepted
  <2>3. Fifo!Accept
    BY <2>1, <2>2 DEF Fifo!Accept, Accepted
  <2> QED
    BY <2>3 DEF Fifo!Next
<1>2. ASSUME NEW m \in wire, ServerDeliver(m)
      PROVE  Fifo!Next
  <2>1. PICK k \in Nat \ {0} : \E i \in 1..k : DeliversSome(k, i)
    BY <1>2, ServerDelivers
  <2>2. PICK i \in 1..k : DeliversSome(k, i)
    BY <2>1
  <2>3. sent' = sent /\ serverOpen = TRUE /\ serverOpen' \in BOOLEAN
    BY <1>2, <2>2, LinkTypes DEF ServerDeliver, DeliversSome, ServerEnds
  <2>4. /\ delivered' \in Seq(Events) /\ Len(delivered') > Len(delivered)
        /\ \A j \in 1..Len(delivered) : delivered[j] = delivered'[j]
    BY <2>2, LinkTypes DEF DeliversSome
  <2>5. /\ Len(delivered') <= sent
        /\ \A j \in 1..Len(delivered') : delivered'[j] = j
    <3>1. DeliveredShape'
      BY <1>2, ServerDeliverKeeps DEF LinkInv
    <3>2. nextStamp' <= lastStamp + 1 /\ lastStamp <= sent /\ nextStamp' \in Int
      <4>1. nextStamp' = nextStamp + k /\ nextStamp + k <= lastStamp + 1
        BY <2>2 DEF DeliversSome
      <4>2. sent = lastStamp + Len(queue)
        BY DEF LinkInv, ClientShape
      <4> QED
        BY <4>1, <4>2, LinkTypes
    <3>3. Len(delivered') \in Nat
      BY <2>4
    <3> QED
      BY <3>1, <3>2, <3>3, LinkTypes DEF DeliveredShape
  <2>6. /\ Len(Accepted) = sent /\ \A j \in 1..sent : Accepted[j] = j
        /\ Accepted' = Accepted
    BY <2>3, LinkTypes DEF Accepted
  <2>7. /\ Fifo!IsPrefixOf(delivered, delivered')
        /\ Fifo!IsPrefixOf(delivered', Accepted)
    BY <2>4, <2>5, <2>6, LinkTypes DEF Fifo!IsPrefixOf
  <2>8. Fifo!Deliver
    BY <2>3, <2>4, <2>6, <2>7 DEF Fifo!Deliver, Accepted
  <2> QED
    BY <2>8 DEF Fifo!Next
<1>3. CASE ServerNone \/ ServerUnsubscribe
  <2>1. /\ UNCHANGED <<sent, delivered>> /\ serverOpen = TRUE /\ serverOpen' = FALSE
    BY <1>3, LinkTypes DEF ServerNone, ServerUnsubscribe, ServerEnds
  <2>2. Fifo!End
    BY <2>1 DEF Fifo!End
  <2> QED
    BY <2>2 DEF Fifo!Next
<1>4. CASE \/ ClientUnsubscribe \/ ServerPreempted \/ UNCHANGED vars
           \/ \E ack \in acks : ClientAck(ack) \/ ClientDrop(ack)
           \/ \E m \in wire : ServerStore(m) \/ ServerDrop(m)
  <2>1. UNCHANGED <<sent, delivered, serverOpen>>
    BY <1>4 DEF ClientUnsubscribe, ServerPreempted, ClientAck, ClientDrop, ServerStore,
       ServerDrop, vars
  <2> QED
    BY <2>1 DEF Fifo!vars
<1> QED
  BY <1>1, <1>2, <1>3, <1>4 DEF Next

\* What the server gives to its user is a prefix of what the client took from
\* its own, for any delays, any window and at any closing.
THEOREM RefinesFifoHolds == Spec => RefinesFifo
<1>1. Init => Fifo!Init
  <2> SUFFICES ASSUME Init PROVE Fifo!Init
    OBVIOUS
  <2>1. sent = 0 /\ delivered = <<>> /\ serverOpen = TRUE
    BY DEF Init
  <2> QED
    BY <2>1 DEF Fifo!Init
<1>2. LinkInv /\ [Next]_vars => [Fifo!Next]_(Fifo!vars)
  BY RefinesStep
<1> QED
  BY <1>1, <1>2, LinkInvariant, PTL DEF Spec, RefinesFifo, Fifo!Spec
=============================================================================
