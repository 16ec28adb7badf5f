----------------------------- MODULE ReliableLink -----------------------------
(***************************************************************************)
(* One established one-way reliable link of reliable-protocols.scala: the  *)
(* client stamps the events it sends over a two-way link, the server puts  *)
(* them back into the order of their stamps and, under the `reorder`       *)
(* policy, acknowledges them, so that the client keeps at most Window of   *)
(* them on their way.  The transport is what both policies assume: it may  *)
(* delay and reorder, and neither loses nor duplicates.                    *)
(*                                                                         *)
(* Client and server are reactors, so each handler below is one step.      *)
(***************************************************************************)
EXTENDS Integers, Sequences, FiniteSets

CONSTANTS
  Policies,  \* the policies that are looked at, of "reorder" and "fastReorder"
  Window,    \* Reorder.window
  HalfInt,   \* 2^31: a difference of stamps is cut to an Int
  MaxSends   \* bound: events that the user of the link sends

ASSUME WindowAssumption ==
  /\ Policies \subseteq {"reorder", "fastReorder"}
  /\ Window \in Nat \ {0} /\ HalfInt \in Nat /\ Window <= HalfInt
  /\ MaxSends \in Nat /\ MaxSends <= HalfInt

VARIABLES
  policy,       \* the policy of this link, the same on both sides
  sent,         \* events accepted by the client; the n-th one is n
  lastStamp,    \* client: stamp of the last event on its way
  lastAck,      \* client: highest acknowledged stamp
  queue,        \* client: accepted events beyond the window (UnrolledRing)
  clientOpen,   \* client: the link's subscription is live
  wire,         \* stamped events on their way to the server
  acks,         \* acknowledgements on their way to the client
  nextStamp,    \* server: the stamp to deliver next
  heap,         \* server: events that came too early (BinaryHeap)
  mustSendAck,  \* server: something was delivered in this batch
  delivered,    \* server: what the user of the link was given
  serverOpen    \* server: the link's subscription is live

clientVars == <<lastStamp, lastAck, queue, clientOpen>>
serverVars == <<nextStamp, heap, mustSendAck, delivered, serverOpen>>
vars == <<policy, sent, clientVars, wire, acks, serverVars>>

Events == 1..MaxSends

\* Stamp.Some and Stamp.None, and the acknowledgement that closes the link.
Stamped(x, stamp) == [x |-> x, stamp |-> stamp]
None == Stamped(0, -1)
CloseAck == -1

Init ==
  /\ policy \in Policies
  /\ sent = 0
  /\ lastStamp = 0 /\ lastAck = 0 /\ queue = <<>> /\ clientOpen = TRUE
  /\ wire = {} /\ acks = {}
  /\ nextStamp = 1 /\ heap = {} /\ mustSendAck = FALSE
  /\ delivered = <<>> /\ serverOpen = TRUE

-----------------------------------------------------------------------------
(* The client. *)

\* How many events may still be stamped when `ack` is the highest known one.
Room(ack) == Window - (lastStamp - ack)

\* sends.onEvent: stamp the event, or keep it if the window is exhausted.
ClientSend ==
  /\ clientOpen
  /\ sent < MaxSends
  /\ sent' = sent + 1
  /\ IF policy = "fastReorder" \/ Room(lastAck) > 0
       THEN /\ lastStamp' = lastStamp + 1
            /\ wire' = wire \cup {Stamped(sent', lastStamp')}
            /\ UNCHANGED queue
       ELSE /\ queue' = Append(queue, sent')
            /\ UNCHANGED <<lastStamp, wire>>
  /\ UNCHANGED <<policy, lastAck, clientOpen, acks, serverVars>>

Larger(a, b) == IF a > b THEN a ELSE b
Smaller(a, b) == IF a < b THEN a ELSE b

\* A mutant: the last acknowledgement counts, not the highest one.
LastOne(a, b) == b

HighestAck(known, ack) == Larger(known, ack)

\* A mutant: the window is checked before the event is stamped, not after.
OneMoreReleased(ack) ==
  Larger(0, Smaller(Len(queue), Room(ack) + 1))

\* How many queued events the arrival of an acknowledgement sets free.
Released(ack) == Larger(0, Smaller(Len(queue), Room(ack)))

\* A mutant: the reorder policy says nothing either.
NoFarewell == {}

\* What closing leaves on the wire: fastReorder's client says nothing.
Farewell == IF policy = "reorder" THEN {None} ELSE {}

\* acks.onEvent, then, for -1, the subscription that closes the link.
ClientAck(ack) ==
  /\ ack \in acks
  /\ acks' = acks \ {ack}
  /\ clientOpen
  /\ clientOpen' = (ack # CloseAck)
  /\ IF policy = "reorder"
       THEN /\ lastAck' = HighestAck(lastAck, ack)
            /\ LET n == Released(lastAck') IN
                 /\ lastStamp' = lastStamp + n
                 /\ queue' = SubSeq(queue, n + 1, Len(queue))
                 /\ wire' = wire
                      \cup {Stamped(queue[i], lastStamp + i) : i \in 1..n}
                      \cup (IF ack = CloseAck THEN Farewell ELSE {})
       ELSE UNCHANGED <<lastAck, lastStamp, queue, wire>>
  /\ UNCHANGED <<policy, sent, serverVars>>

\* The user of the client closes the link: its channel is sealed, the handlers
\* are removed and the server is told.  What is in `queue` is never sent.
ClientUnsubscribe ==
  /\ clientOpen
  /\ clientOpen' = FALSE
  /\ wire' = wire \cup Farewell
  /\ UNCHANGED <<policy, sent, lastStamp, lastAck, queue, acks, serverVars>>

\* The two-way link's input is sealed: late acknowledgements are dropped.
ClientDrop(ack) ==
  /\ ack \in acks
  /\ ~clientOpen
  /\ acks' = acks \ {ack}
  /\ UNCHANGED <<policy, sent, clientVars, wire, serverVars>>

-----------------------------------------------------------------------------
(* The server. *)

\* Order((x, y) => (x.stamp - y.stamp).toInt): the difference as an Int.
Compare(a, b) == ((a - b + HalfInt) % (2 * HalfInt)) - HalfInt

Stamps(h) == {m.stamp : m \in h}

\* The loop that empties the heap from stamp n on: an element is taken when its
\* stamp is the next one and everything the heap puts before it has been taken.
Ready(h, n) ==
  {m \in h : /\ m.stamp >= n
             /\ \A s \in n..m.stamp :
                  /\ s \in Stamps(h)
                  /\ \A o \in Stamps(h) : Compare(o, s) < 0 => o \in n..s}

ByStamp(run, n) ==
  [i \in 1..Cardinality(run) |-> (CHOOSE m \in run : m.stamp = n + i - 1).x]

\* A server whose subscription ends tells the client.
ServerEnds == serverOpen' = FALSE /\ acks' = acks \cup {CloseAck}

\* The event has the stamp to deliver next: it goes to the user, and so does
\* the run of events behind it that waits in the heap.
\* The user's handler may close the link at one of them: the loop goes on, but
\* the channel it delivers to is sealed.
ServerDeliver(m) ==
  /\ m \in wire /\ m # None /\ serverOpen
  /\ m.stamp = nextStamp
  /\ wire' = wire \ {m}
  /\ LET run == Ready(heap, nextStamp + 1)
         given == <<m.x>> \o ByStamp(run, nextStamp + 1) IN
       /\ heap' = heap \ run
       /\ nextStamp' = nextStamp + Len(given)
       /\ \/ /\ delivered' = delivered \o given
             /\ UNCHANGED <<acks, serverOpen>>
          \/ \E i \in 1..Len(given) :
               /\ delivered' = delivered \o SubSeq(given, 1, i)
               /\ ServerEnds
  /\ mustSendAck' = (policy = "reorder")
  /\ UNCHANGED <<policy, sent, clientVars>>

\* A mutant: an early event is delivered when it comes.
ServerTakesAnyOrder(m) ==
  /\ m \in wire /\ m # None /\ serverOpen
  /\ m.stamp # nextStamp
  /\ wire' = wire \ {m}
  /\ delivered' = Append(delivered, m.x)
  /\ UNCHANGED <<policy, sent, clientVars, acks, nextStamp, heap, mustSendAck,
                 serverOpen>>

\* It has another stamp: it waits in the heap.
ServerStore(m) ==
  /\ m \in wire /\ m # None /\ serverOpen
  /\ m.stamp # nextStamp
  /\ wire' = wire \ {m}
  /\ heap' = heap \cup {m}
  /\ UNCHANGED <<policy, sent, clientVars, acks, nextStamp, mustSendAck,
                 delivered, serverOpen>>

\* The client's farewell closes the link, whatever is still on its way.
ServerNone ==
  /\ None \in wire /\ serverOpen
  /\ wire' = wire \ {None}
  /\ ServerEnds
  /\ UNCHANGED <<policy, sent, clientVars, nextStamp, heap, mustSendAck,
                 delivered>>

\* ReactorPreempted, at the end of each batch.
\* A mutant: it acknowledges the stamp that is expected.
ServerPreemptedEarly ==
  /\ serverOpen /\ mustSendAck
  /\ acks' = acks \cup {nextStamp}
  /\ mustSendAck' = FALSE
  /\ UNCHANGED <<policy, sent, clientVars, wire, nextStamp, heap, delivered,
                 serverOpen>>

ServerPreempted ==
  /\ serverOpen /\ mustSendAck
  /\ acks' = acks \cup {nextStamp - 1}
  /\ mustSendAck' = FALSE
  /\ UNCHANGED <<policy, sent, clientVars, wire, nextStamp, heap, delivered,
                 serverOpen>>

\* The user of the server closes the link.
ServerUnsubscribe ==
  /\ serverOpen
  /\ ServerEnds
  /\ UNCHANGED <<policy, sent, clientVars, wire, nextStamp, heap, mustSendAck,
                 delivered>>

\* The two-way link's output is sealed: late events are dropped.
ServerDrop(m) ==
  /\ m \in wire /\ ~serverOpen
  /\ wire' = wire \ {m}
  /\ UNCHANGED <<policy, sent, clientVars, acks, serverVars>>

-----------------------------------------------------------------------------
ServerReceive(m) == ServerDeliver(m) \/ ServerStore(m) \/ ServerDrop(m)
ClientReceive(ack) == ClientAck(ack) \/ ClientDrop(ack)

Next ==
  \/ ClientSend
  \/ ClientUnsubscribe
  \/ \E ack \in acks : ClientAck(ack) \/ ClientDrop(ack)
  \/ \E m \in wire : ServerDeliver(m) \/ ServerStore(m) \/ ServerDrop(m)
  \/ ServerNone
  \/ ServerPreempted
  \/ ServerUnsubscribe

Spec == Init /\ [][Next]_vars

\* The transport delivers everything in the end and every batch ends; nobody
\* is obliged to send or to close.
Wired == {Stamped(x, s) : x \in Events, s \in Events} \cup {None}

FairSpec ==
  /\ Spec
  /\ \A m \in Wired : WF_vars(ServerReceive(m))
  /\ WF_vars(ServerNone)
  /\ \A ack \in {CloseAck} \cup Events : WF_vars(ClientReceive(ack))
  /\ WF_vars(ServerPreempted)

-----------------------------------------------------------------------------
(* Properties. *)

TypeOK ==
  /\ policy \in Policies
  /\ sent \in 0..MaxSends
  /\ lastStamp \in 0..MaxSends
  /\ lastAck \in 0..MaxSends
  /\ queue \in Seq(Events)
  /\ clientOpen \in BOOLEAN
  /\ wire \subseteq Wired
  /\ acks \subseteq {CloseAck} \cup Events
  /\ nextStamp \in 1..(MaxSends + 1)
  /\ heap \subseteq Wired \ {None}
  /\ mustSendAck \in BOOLEAN
  /\ delivered \in Seq(Events)
  /\ serverOpen \in BOOLEAN

\* Every event on its way or waiting in the heap is ahead of what was delivered
\* by less than the window, whatever order events and acknowledgements arrive
\* in: the receiver is never overflowed, and no two stamps in the heap are so
\* far apart that their difference does not fit the comparison's Int.
WithinWindow ==
  policy = "reorder" /\ serverOpen =>
    \A m \in heap \cup (wire \ {None}) :
      m.stamp - nextStamp \in 0..(Window - 1)

\* The link is a FIFO link: what the server gives to its user is a prefix of
\* what the client took from its own, for any delays and at any closing.
Fifo == INSTANCE FifoLink WITH
  accepted <- [i \in 1..sent |-> i],
  ended <- ~serverOpen

RefinesFifo == Fifo!Spec

\* While nobody closes the link, everything accepted is delivered: neither the
\* window, nor a late acknowledgement, nor the heap holds an event for ever.
AllDelivered ==
  \A n \in Events :
    sent >= n ~> Len(delivered) >= n \/ ~clientOpen \/ ~serverOpen

\* Closing one end closes the other one.  The exception is the client of
\* fastReorder, which says nothing to its server.
ClosePropagates ==
  /\ ~serverOpen ~> ~clientOpen
  /\ ~clientOpen /\ policy = "reorder" ~> ~serverOpen
=============================================================================
