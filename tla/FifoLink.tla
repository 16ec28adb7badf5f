------------------------------- MODULE FifoLink -------------------------------
(***************************************************************************)
(* What a reliable link promises its user: what one side accepts comes out *)
(* of the other side once each and in the order in which it was accepted,  *)
(* until one of the sides closes the link.  There is no wire here, and no  *)
(* stamp, window or acknowledgement.                                       *)
(***************************************************************************)
EXTENDS Naturals, Sequences

CONSTANT Events

VARIABLES
  accepted,   \* the events that the sending side has taken from its user
  delivered,  \* the events that the receiving side has given to its user
  ended       \* the receiving side has closed: nothing comes out any more

vars == <<accepted, delivered, ended>>

IsPrefixOf(s, t) == Len(s) <= Len(t) /\ \A i \in 1..Len(s) : s[i] = t[i]

Init == accepted = <<>> /\ delivered = <<>> /\ ended = FALSE

Accept ==
  /\ \E e \in Events : accepted' = Append(accepted, e)
  /\ UNCHANGED <<delivered, ended>>

\* The receiving side may hand over several events at a time, and its user may
\* close the link while it is given one of them.
Deliver ==
  /\ ~ended
  /\ delivered' \in Seq(Events)
  /\ Len(delivered') > Len(delivered)
  /\ IsPrefixOf(delivered, delivered')
  /\ IsPrefixOf(delivered', accepted)
  /\ ended' \in BOOLEAN
  /\ UNCHANGED accepted

End == ~ended /\ ended' = TRUE /\ UNCHANGED <<accepted, delivered>>

Next == Accept \/ Deliver \/ End

Spec == Init /\ [][Next]_vars
=============================================================================
