------------------------------ MODULE MultiValve ------------------------------
(***************************************************************************)
(* MultiValve.scala: a valve that passes each event on to all the valves   *)
(* attached to it, each at the pace of its own consumer.  Events that some *)
(* valve has not taken yet are kept in a ring of `Window` places; when it  *)
(* is full, the multi-valve itself is not available.                       *)
(*                                                                         *)
(* The valves are the producer's ends of backpressure links (module        *)
(* BackpressureLinks).  All of this runs in one reactor; the consumers are *)
(* reactors of their own.  The n-th event accepted by `out` is n.          *)
(***************************************************************************)
EXTENDS BackpressureLinks, FiniteSets, FiniteSetsExt, SequencesExt

CONSTANTS
  Window,   \* MultiValve.window
  MaxEmits  \* bound: events that the user of `out` emits

ASSUME MultiAssumption ==
  Window \in Nat \ {0} /\ MaxEmits \in Nat

VARIABLES
  next,      \* how many events were accepted
  oldest,    \* how many events the ring is past, as the multi-valve counts it
  ring,      \* the events kept (RRing over ArrayRing)
  attached,  \* the valves attached and not removed
  counted,   \* the valves whose position the signal aggregate counts
  pos,       \* the position of each valve: events it was passed
  joined,    \* the position at which the valve was attached
  flushing,  \* events are pending on the `flush` channel
  failed     \* a handler has thrown: the reactor is gone

multiVars == <<next, oldest, ring, attached, counted, pos, joined, flushing,
               failed>>
vars == <<linkVars, multiVars>>

Infinity == MaxEmits + 1  \* Long.MaxValue

MultiInit ==
  /\ next = 0 /\ oldest = 0 /\ ring = <<>>
  /\ attached = {} /\ counted = {}
  /\ pos = [v \in Valves |-> 0] /\ joined = [v \in Valves |-> 0]
  /\ flushing = FALSE /\ failed = FALSE

Init == LinkInit /\ MultiInit

-----------------------------------------------------------------------------
(* The slowest valve. *)

Least(S) == IF S = {} THEN Infinity ELSE Min(S)

\* A mutant: the fastest valve decides.
FastestOf(S, p) == IF S = {} THEN Infinity ELSE Max({p[v] : v \in S})

\* The minimum over the positions p of the valves in S.
SlowestOf(S, p) == Least({p[v] : v \in S})

\* valves.map(_._2).toSignalAggregate(Long.MaxValue)(math.min)
Slowest == SlowestOf(counted, pos)

\* What the aggregate counts after valve v was removed: the handler of
\* `removes` adds its signal, which is there already.
Uncount(v) == counted \cup {v}

-----------------------------------------------------------------------------
(* The loop `moving` of each attached valve.  Below, r is the ring that holds *)
(* the events up to the n-th, b the budgets and p the positions.              *)

\* A mutant: one event for each time that the valve becomes available.
MoveOne(b, n, p, v) == IF Available(b, v) /\ p[v] < n THEN 1 ELSE 0

\* How many events the loop of valve v passes on.
Moves(b, n, p, v) == Min({b[v], n - p[v]})

\* A mutant: each loop starts at the head of the ring.
ReadHead(r, p, k) == SubSeq(r, 1, k)

\* What the loop reads from the ring: k events from position p on, or those
\* before the end of the ring.
Read(r, p, k) == SubSeq(r, p - oldest + 1, Min({p - oldest + k, Len(r)}))

\* All these reads, ring(pos - oldest), are within the ring.
InRange(r, p, k) == k > 0 => p >= oldest /\ p - oldest + k <= Len(r)

\* A mutant: the flush is not asked for when the valve catches up.
FlushWhenBehind(C, p) == \E v \in C : p[v] < next /\ p[v] > oldest

\* Something can be dropped from the ring when the valves of C are at p.
Droppable(C, p) == SlowestOf(C, p) > oldest

\* The loops run for the valves of V.  Each one sends an event to the `flush`
\* channel if something can be dropped.  A read outside the ring throws: it is
\* the last thing that is done, after all the loops that came before.
Moving(r, b, n, p, V, C) ==
  LET k == [v \in Valves |-> IF v \in V THEN Moves(b, n, p, v) ELSE 0]
      stuck == {v \in V : ~InRange(r, p[v], k[v])} IN
  \E ran \in SUBSET V :
    LET out == [v \in Valves |-> IF v \in ran THEN Read(r, p[v], k[v]) ELSE <<>>]
        moved == [v \in Valves |-> p[v] + Len(out[v])] IN
    /\ IF stuck = {} THEN ran = V ELSE \E v \in V : ran \cap stuck = {v}
    /\ Push(b, out)
    /\ pos' = moved
    /\ flushing' = (flushing \/ (moved # p /\ Droppable(C, moved)))
    /\ failed' = (stuck # {})

-----------------------------------------------------------------------------
(* The multi-valve. *)

Room == Len(ring) < Window

\* forwarding: the event enters the ring, and `next` sets the loops in motion.
\* An event that comes before the first valve leaves the ring again, but is not
\* counted in `oldest`.
Emit ==
  /\ ~failed
  /\ Room
  /\ next < MaxEmits
  /\ next' = next + 1
  /\ Moving(Append(ring, next'), budget, next', pos, attached, counted)
  /\ ring' = IF Slowest > next' THEN ring ELSE Append(ring, next')
  /\ UNCHANGED <<buffer, consumerVars, grants, oldest, attached, counted,
                 joined>>

\* increments, then the loop if the valve becomes available.
GrantArrives(v) ==
  /\ ~failed
  /\ grants[v] # <<>>
  /\ grants' = [grants EXCEPT ![v] = Tail(@)]
  /\ LET awoken == IF Available(budget, v) THEN {} ELSE {v} \cap attached IN
       Moving(ring, Granted(v), next, pos, awoken, counted)
  /\ UNCHANGED <<buffer, consumerVars, next, oldest, ring, attached, counted,
                 joined>>

\* `+=`: the valve starts with the slowest one, and its loop runs at once if
\* the ring holds something for it.
Attach(v) ==
  /\ ~failed
  /\ v \notin counted
  /\ attached' = attached \cup {v}
  /\ counted' = counted \cup {v}
  /\ joined' = [joined EXCEPT ![v] = Min({Slowest, next})]
  /\ Moving(ring, budget, next, [pos EXCEPT ![v] = joined'[v]], {v}, counted')
  /\ UNCHANGED <<buffer, consumerVars, grants, next, oldest, ring>>

\* The subscription that `+=` returned: the loop ends, and the valve leaves
\* the set `valves`.
Detach(v) ==
  /\ ~failed
  /\ v \in attached
  /\ attached' = attached \ {v}
  /\ counted' = Uncount(v)
  /\ UNCHANGED <<linkVars, next, oldest, ring, pos, joined, flushing, failed>>

\* flush.events: drop from the ring what the slowest valve has taken.
Flush ==
  /\ ~failed
  /\ flushing
  /\ flushing' = FALSE
  /\ LET total == Slowest - oldest IN
       /\ oldest' = oldest + total
       /\ IF total <= Len(ring)
            THEN ring' = SubSeq(ring, total + 1, Len(ring)) /\ UNCHANGED failed
            ELSE failed' = TRUE /\ UNCHANGED ring
  /\ UNCHANGED <<linkVars, next, attached, counted, pos, joined>>

\* The consumers run on, whatever happens to the producer.
Consumer(v) == ConsumerStep(v) /\ UNCHANGED multiVars

Next ==
  \/ Emit
  \/ Flush
  \/ \E v \in Valves : GrantArrives(v) \/ Attach(v) \/ Detach(v)
  \/ \E v \in Valves :
       (Arrive(v) \/ Consume(v) \/ Preempted(v)) /\ UNCHANGED multiVars

Spec == Init /\ [][Next]_vars

\* Pending events and batches are handled, and the consumers go on consuming.
\* Nobody is obliged to emit, to attach or to detach.
FairSpec ==
  /\ Spec
  /\ WF_vars(Flush)
  /\ \A v \in Valves : /\ WF_vars(GrantArrives(v))
                       /\ WF_vars(Arrive(v) /\ UNCHANGED multiVars)
                       /\ WF_vars(Consume(v) /\ UNCHANGED multiVars)
                       /\ WF_vars(Preempted(v) /\ UNCHANGED multiVars)

-----------------------------------------------------------------------------
(* Properties. *)

Events == 1..MaxEmits

\* "Collection that stores `Valve` objects, and acts as a `Valve` itself"
\* (MultiValve.scala:12): it takes an event whenever it is available.  Once an
\* event was emitted without a valve, it may fail.
ActsAsValve == ~failed

\* No event was emitted before the first valve was attached.  The other
\* properties depend on it: `oldest` misses such an event, and the indices into
\* the ring are wrong from then on.
Attended == next > 0 => \E v \in counted : joined[v] = 0

\* What a valve's consumer was sent is a stretch of the emitted events without
\* gap or repetition, from the position at which the valve was attached.
EachInOrder ==
  Attended =>
    \A v \in counted :
      consumed[v] \o buffer[v] \o wire[v]
        = [i \in 1..(pos[v] - joined[v]) |-> joined[v] + i]

\* The ring holds exactly the events after `oldest`, never more than it has room
\* for, and with them all that an attached valve has not taken: no loop and no
\* flush ever reads outside it.
RingHoldsTheMissing ==
  /\ Len(ring) <= Window
  /\ Attended =>
       /\ ~failed
       /\ ring = [i \in 1..(next - oldest) |-> oldest + i]
       /\ \A v \in attached : pos[v] >= oldest

\* No event is kept from a valve for ever: what was emitted reaches the
\* consumer of each valve that stays attached.
AllConsumed ==
  \A v \in Valves : \A n \in Events :
    Attended /\ v \in attached /\ joined[v] < n /\ next >= n
      ~> v \notin attached \/ n \in ToSet(consumed[v])

\* A full ring has room again, unless a removed valve is behind.
RingReopens ==
  Attended /\ ~Room ~> Room \/ (\E v \in counted \ attached : pos[v] < next)

\* What the aggregate is documented to be: the minimum over the valves that the
\* multi-valve contains.
SlowestIsAttached == attached # {} => Slowest = SlowestOf(attached, pos)
=============================================================================
