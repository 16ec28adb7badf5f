----------------------------- MODULE EventStream -----------------------------
(***************************************************************************)
(* Events.Push, from which every source of events takes its observers:     *)
(* none, a reference, a FastBuffer or a FastHashTable of references, as    *)
(* there are more of them.  A subscription that ends clears its reference, *)
(* and the propagation of a later event takes it out.  Observers may       *)
(* subscribe others, end subscriptions and emit while they are called.     *)
(*                                                                         *)
(* A hash table is the set of its references, visited in any order, and    *)
(* those of them that findEntryImpl does not come to: when more than one   *)
(* cleared reference is taken out, removeEntryAt closes the gap of one     *)
(* only up to the next one, and leaves a hole before the references after  *)
(* it.  Which ones these are depends on the hash codes.                    *)
(***************************************************************************)
EXTENDS Integers, Sequences, FiniteSets, SequencesExt, Functions

CONSTANTS
  Observers,   \* observers, each of which subscribes once
  BufferSize,  \* FastBuffer.initialSize
  Upper,       \* bufferUpperBound
  Lower,       \* hashTableLowerBound
  Thresholds,  \* the sizes at which a table grows, one after another
  Uses,        \* what the observers do: "cancel", "grow" or "both"
  MaxEvents,   \* bound: events that are emitted
  MaxDepth,    \* bound: events being propagated at a time
  NoRef        \* null

ASSUME StreamAssumption ==
  /\ BufferSize \in Nat \ {0, 1} /\ Upper \in Nat /\ Lower \in 0..Upper
  /\ Thresholds \in Seq(Nat) /\ MaxEvents \in Nat /\ MaxDepth \in Nat
  /\ Uses \subseteq {"cancel", "grow", "both"}
  /\ \A o \in Observers : NoRef # o

VARIABLES
  use,      \* one of Uses
  status,   \* "new", then "live", then "gone", or "missed" if its reference
            \* was not found, for each observer
  demux,    \* "none", "ref", "buffer" or "table"
  single,   \* the Ref
  buffer,   \* the FastBuffer: its array, and its size
  table,    \* the FastHashTable: its references, its threshold, and the
            \* references that are lost behind a hole
  made,     \* how many tables were made or have grown
  cleared,  \* references without an observer
  stack,    \* reactAll, for each event being propagated
  events,   \* events emitted
  failed    \* an index was out of bounds

streamVars == <<use, status, demux, single, buffer, table, made, cleared,
                stack, events, failed>>
demuxVars == <<demux, single, buffer, table, made>>

\* A Ref is told from another one of its observer by when it was made.
Ref(o, n) == [who |-> o, made |-> n]

EmptyTable == [refs |-> {}, grow |-> 1, lost |-> {}]

StreamInit ==
  /\ use \in Uses
  /\ status = [o \in Observers |-> "new"]
  /\ demux = "none" /\ single = NoRef
  /\ buffer = [array |-> <<>>, size |-> 0]
  /\ table = EmptyTable
  /\ made = 0 /\ cleared = {}
  /\ stack = <<>> /\ events = 0 /\ failed = FALSE

Depth == Len(stack)
Top == stack[Depth]
Loops == Depth > 0 /\ Top.cur = NoRef

\* Handlers do what the use says; in "grow" no subscription ever ends.
MaySubscribe == Depth = 0 \/ use # "cancel"
MayUnsubscribe == use # "grow"
MayEmit == Depth = 0 \/ use # "cancel"

UserRuns == ~failed /\ ~Loops

-----------------------------------------------------------------------------
(* FastBuffer. *)

Padded(refs, length) == refs \o [i \in 1..(length - Len(refs)) |-> NoRef]

\* The references among the first `size` ones that have their observer.
Uncleared(b) ==
  LET kept[n \in 0..b.size] ==
        IF n = 0 THEN <<>>
        ELSE IF b.array[n] \in cleared THEN kept[n - 1]
        ELSE Append(kept[n - 1], b.array[n])
  IN kept[b.size]

\* growArray, if the array is full.
Grown(b) ==
  IF b.size < Len(b.array)
    THEN b
    ELSE [array |-> Padded(Uncleared(b), 2 * Len(b.array)),
          size |-> Len(Uncleared(b))]

Added(b, r) == [array |-> [b.array EXCEPT ![b.size + 1] = r], size |-> b.size + 1]

\* removeEntryAt: the last one takes the place.
Removed(b, i) ==
  [array |-> [b.array EXCEPT ![i] = b.array[b.size], ![b.size] = NoRef],
   size |-> b.size - 1]

\* checkBuffer, for a demux that may be another one by now.
CheckBuffer(b, now) ==
  /\ demux' = CASE b.size = 0 -> "none" [] b.size = 1 -> "ref" [] OTHER -> now
  /\ single' = IF b.size = 1 THEN b.array[1] ELSE NoRef

-----------------------------------------------------------------------------
(* Subscribing. *)

\* The entries of a table, moved to one that is large enough.
Rehashed(refs, g) ==
  LET room == {i \in g..Len(Thresholds) : Cardinality(refs) < Thresholds[i]} IN
  [refs |-> refs, grow |-> CHOOSE i \in room : \A j \in room : i <= j, lost |-> {}]

\* A loop keeps the array that the buffer grows out of, ...
KeepingArray(f) ==
  IF f.kind = "buffer" /\ f.old = <<>> THEN [f EXCEPT !.old = buffer.array] ELSE f

\* ... and one over a table's array may or may not come to a new reference.
Seeing(f, more) ==
  IF f.kind = "table" /\ f.made = made THEN [f EXCEPT !.todo = @ \cup more] ELSE f

\* demux becomes a buffer of the Ref and the new reference, or, if the buffer
\* is full, a table; the loops that run go on with what they have begun with.
Subscribe(o) ==
  /\ UserRuns /\ MaySubscribe
  /\ status[o] = "new"
  /\ status' = [status EXCEPT ![o] = "live"]
  /\ \/ /\ demux = "none"
        /\ demux' = "ref" /\ single' = Ref(o, made)
        /\ UNCHANGED <<buffer, table, made, stack>>
     \/ /\ demux = "ref"
        /\ demux' = "buffer"
        /\ buffer' = [array |-> Padded(<<single, Ref(o, made)>>, BufferSize), size |-> 2]
        /\ UNCHANGED <<single, table, made, stack>>
     \/ /\ demux = "buffer" /\ buffer.size < Upper
        /\ buffer' = Added(Grown(buffer), Ref(o, made))
        /\ stack' = IF Len(buffer'.array) = Len(buffer.array) THEN stack
                    ELSE [d \in 1..Depth |-> KeepingArray(stack[d])]
        /\ UNCHANGED <<demux, single, table, made>>
     \/ /\ demux = "buffer" /\ buffer.size >= Upper
        /\ demux' = "table"
        /\ made' = made + 1
        /\ table' = Rehashed({Ref(r.who, made') : r \in ToSet(Uncleared(buffer))}
                               \cup {Ref(o, made')}, 1)
        /\ UNCHANGED <<single, buffer, stack>>
     \/ /\ demux = "table"
        /\ LET refs == table.refs \cup {Ref(o, made)} IN
           IF Cardinality(refs) < Thresholds[table.grow]
             THEN /\ \E still \in SUBSET table.lost :  \* it may fill a hole
                       table' = [table EXCEPT !.refs = refs, !.lost = still]
                  /\ UNCHANGED made
             ELSE /\ made' = made + 1
                  /\ table' = Rehashed({Ref(r.who, made') : r \in refs \ cleared},
                                       table.grow + 1)
        /\ \E more \in SUBSET {Ref(o, made)} :
             stack' = [d \in 1..Depth |-> Seeing(stack[d], more)]
        /\ UNCHANGED <<demux, single, buffer>>
  /\ UNCHANGED <<use, cleared, events, failed>>

\* The references in demux.
Entries ==
  CASE demux = "none" -> {}
    [] demux = "ref" -> {single}
    [] demux = "buffer" -> ToSet(SubSeq(buffer.array, 1, buffer.size))
    [] demux = "table" -> table.refs

\* The references that invalidateEntry comes to.
Found == IF demux = "table" THEN Entries \ table.lost ELSE Entries

\* removeReaction: the observer's reference in demux is cleared, if it is found.
Unsubscribe(o) ==
  /\ UserRuns /\ MayUnsubscribe
  /\ status[o] = "live"
  /\ status' = [status EXCEPT ![o] =
                  IF \E r \in Entries \ Found : r.who = o THEN "missed" ELSE "gone"]
  /\ cleared' = cleared \cup {r \in Found : r.who = o}
  /\ UNCHANGED <<use, demuxVars, stack, events, failed>>

-----------------------------------------------------------------------------
(* Emitting: reactAll, bufferReactAll and tableReactAll. *)

\* reactAll over a part of demux.  `due` and `told` are history: who was
\* subscribed when the event was emitted, and who was called, subscribed or not.
Propagation ==
  [kind |-> demux, i |-> 1, until |-> buffer.size, old |-> <<>>,
   todo |-> CASE demux = "ref" -> {single} [] demux = "table" -> table.refs
              [] OTHER -> {},
   made |-> made, cur |-> NoRef,
   due |-> {o \in Observers : status[o] = "live"}, told |-> <<>>]

Emit ==
  /\ UserRuns /\ MayEmit
  /\ events < MaxEvents /\ Depth < MaxDepth
  /\ events' = events + 1
  /\ IF demux = "none" \/ (demux = "ref" /\ single \in cleared)
       THEN demux' = "none" /\ UNCHANGED stack
       ELSE stack' = Append(stack, Propagation) /\ UNCHANGED demux
  /\ UNCHANGED <<use, status, single, buffer, table, made, cleared, failed>>

InTop(f) == stack' = [stack EXCEPT ![Depth] = f]

Called(f, r) ==
  [f EXCEPT !.cur = r.who, !.told = Append(@, <<r.who, status[r.who] = "live">>)]

\* The array that the loop has read at its start.
ArrayOf(f) == IF f.old = <<>> THEN buffer.array ELSE f.old

CallFromBuffer ==
  /\ ~failed /\ Loops /\ Top.kind = "buffer" /\ Top.i <= Top.until
  /\ ArrayOf(Top)[Top.i] \notin cleared
  /\ InTop(Called(Top, ArrayOf(Top)[Top.i]))
  /\ UNCHANGED <<use, status, demuxVars, cleared, events, failed>>

\* A mutant: the loop goes on to the next place.
NextPlace(f) == [f EXCEPT !.i = @ + 1, !.until = @ - 1]

\* Another reference is at the same place now.
SamePlace(f) == [f EXCEPT !.until = @ - 1]

\* A cleared reference is taken out by the outermost propagation; others stay
\* at it for ever.
TakeOut ==
  /\ ~failed /\ Loops /\ Top.kind = "buffer" /\ Top.i <= Top.until
  /\ ArrayOf(Top)[Top.i] \in cleared
  /\ Depth = 1
  /\ IF Top.i <= buffer.size
       THEN /\ buffer' = Removed(buffer, Top.i)
            /\ InTop(SamePlace(Top))
            /\ UNCHANGED failed
       ELSE failed' = TRUE /\ UNCHANGED <<buffer, stack>>
  /\ UNCHANGED <<use, status, demux, single, table, made, cleared, events>>

\* The Ref, or an entry of the table's array.
CallFromTable ==
  /\ ~failed /\ Loops
  /\ \E r \in Top.todo \ cleared :
       InTop(Called([Top EXCEPT !.todo = @ \ {r}], r))
  /\ UNCHANGED <<use, status, demuxVars, cleared, events, failed>>

\* react returns.
Return ==
  /\ ~failed /\ Depth > 0 /\ Top.cur # NoRef
  /\ InTop([Top EXCEPT !.cur = NoRef, !.i = @ + 1])
  /\ UNCHANGED <<use, status, demuxVars, cleared, events, failed>>

AtEnd ==
  /\ Loops
  /\ IF Top.kind = "buffer" THEN Top.i > Top.until ELSE Top.todo \subseteq cleared

\* What may get lost when the cleared references are taken out of a table.
Losable == IF Cardinality(table.refs \cap cleared) > 1 THEN table.refs \ cleared ELSE {}

\* cleanHashTable has left `refs`.  checkHashTable: a small table becomes a
\* buffer, in the order of its array.
CheckTable(refs) ==
  IF Cardinality(refs) < Lower
    THEN /\ \E order \in SetToSeqs(refs) :
              buffer' = [array |-> Padded(order, Upper), size |-> Len(order)]
         /\ CheckBuffer(buffer', "buffer")
         /\ table' = EmptyTable
    ELSE /\ \E more \in SUBSET Losable :
              table' = [table EXCEPT !.refs = refs, !.lost = @ \cup more]
         /\ UNCHANGED <<demux, single, buffer>>

\* The end of the loop; the outermost one tidies up.
End ==
  /\ ~failed /\ AtEnd
  /\ stack' = Front(stack)
  /\ IF Depth > 1 \/ Top.kind = "ref"
       THEN UNCHANGED <<demux, single, buffer, table>>
       ELSE IF Top.kind = "buffer"
         THEN CheckBuffer(buffer, demux) /\ UNCHANGED <<buffer, table>>
         ELSE CheckTable(table.refs \ cleared)
  /\ UNCHANGED <<use, status, made, cleared, events, failed>>

StreamNext ==
  \/ \E o \in Observers : Subscribe(o) \/ Unsubscribe(o)
  \/ Emit \/ CallFromBuffer \/ TakeOut \/ CallFromTable \/ Return \/ End

StreamSpec == StreamInit /\ [][StreamNext]_streamVars

-----------------------------------------------------------------------------
\* An observer that is subscribed from the emission of an event to the end of
\* its propagation is called, nobody is called twice for one event, and nobody
\* after the end of its subscription, unless the table has lost its reference:
\* the buffer's shrinking and growing arrays, the table's clean-up and the
\* changes of demux in the middle of a propagation keep to Events.scala:44-46.
Propagated ==
  AtEnd =>
    /\ \A o \in Top.due : status[o] = "live" => <<o, TRUE>> \in Range(Top.told)
    /\ \A j, k \in DOMAIN Top.told : Top.told[j][1] = Top.told[k][1] => j = k
    /\ \A o \in Observers : <<o, FALSE>> \in Range(Top.told) => status[o] = "missed"

\* "The event source is from there on responsible for propagating events to
\* sink combinators until it either unreacts, [...] or the event sink gets
\* unsubscribed", Events.scala:44-46: nobody is called after the end of its
\* subscription.  It does not hold, as a FastHashTable loses references
\* (FastHashTable.scala:54-65).
UnsubscribedLeftAlone ==
  AtEnd => \A o \in Observers : <<o, FALSE>> \notin Range(Top.told)
=============================================================================
