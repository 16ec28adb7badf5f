--------------------------- MODULE BackpressureLinks ---------------------------
(***************************************************************************)
(* Established backpressure links of backpressure-protocols.scala, one for *)
(* each valve.  The producer may send as many events as it holds pressure  *)
(* tokens; the consumer buffers what arrives and returns a token for every *)
(* event that it takes out of the buffer, at once under the sliding policy *)
(* and at the end of its batch under the batching policy.                  *)
(*                                                                         *)
(* The producer's part of a link, Push and Granted, is composed with the   *)
(* producer that drives it (module MultiValve).  Events and tokens travel  *)
(* over a two-way link, which is FIFO in both directions.                  *)
(***************************************************************************)
EXTENDS Integers, Sequences

CONSTANTS
  Valves,    \* the valves, one for each link
  Batching,  \* those of them whose link has the batching policy
  Size       \* the policy's `size`

ASSUME LinkAssumption ==
  /\ Batching \subseteq Valves
  /\ Size \in Nat \ {0}

VARIABLES
  budget,    \* producer: pressure tokens it may use
  wire,      \* events on their way to the consumer
  buffer,    \* consumer: the EventBuffer
  consumed,  \* consumer: the events taken out of the buffer
  tokens,    \* consumer: tokens that the batching policy keeps for later
  grants     \* tokens on their way to the producer

consumerVars == <<consumed, tokens>>
linkVars == <<budget, wire, buffer, consumerVars, grants>>

\* Both policies start by granting `size`.
LinkInit ==
  /\ budget = [v \in Valves |-> 0]
  /\ wire = [v \in Valves |-> <<>>]
  /\ buffer = [v \in Valves |-> <<>>]
  /\ consumed = [v \in Valves |-> <<>>]
  /\ tokens = [v \in Valves |-> 0]
  /\ grants = [v \in Valves |-> <<Size>>]

-----------------------------------------------------------------------------
(* The producer's side, defaultClient. *)

\* The valve's signal `available`.
Available(b, v) == b[v] > 0

\* forwarding: each valve v passes on the events out[v], and pays for them from
\* the tokens b[v].
Push(b, out) ==
  /\ budget' = [v \in Valves |-> b[v] - Len(out[v])]
  /\ wire' = [v \in Valves |-> wire[v] \o out[v]]

\* increments: the budget after the arrival of the oldest grant of valve v.
Granted(v) == [budget EXCEPT ![v] = @ + Head(grants[v])]

-----------------------------------------------------------------------------
(* The consumer's side. *)

\* events.toEventBuffer: an event arrives and is buffered.
Arrive(v) ==
  /\ wire[v] # <<>>
  /\ wire' = [wire EXCEPT ![v] = Tail(@)]
  /\ buffer' = [buffer EXCEPT ![v] = Append(@, Head(wire[v]))]
  /\ UNCHANGED <<budget, consumerVars, grants>>

\* A token for an event that was taken: policy.server on `pressure`.
Return(v) ==
  IF v \in Batching
    THEN /\ tokens' = [tokens EXCEPT ![v] = @ + 1]
         /\ UNCHANGED grants
    ELSE /\ grants' = [grants EXCEPT ![v] = Append(@, 1)]
         /\ UNCHANGED tokens

\* EventBuffer.dequeue, which with toPump sends the token.
Consume(v) ==
  /\ buffer[v] # <<>>
  /\ buffer' = [buffer EXCEPT ![v] = Tail(@)]
  /\ consumed' = [consumed EXCEPT ![v] = Append(@, Head(buffer[v]))]
  /\ Return(v)
  /\ UNCHANGED <<budget, wire>>

\* A mutant: the tokens are granted and kept.
PreemptedKeepingTokens(v) ==
  /\ tokens[v] > 0 /\ Len(grants[v]) <= Size
  /\ grants' = [grants EXCEPT ![v] = Append(@, tokens[v])]
  /\ UNCHANGED <<budget, wire, buffer, consumerVars>>

\* ReactorPreempted, under the batching policy.
Preempted(v) ==
  /\ tokens[v] > 0
  /\ grants' = [grants EXCEPT ![v] = Append(@, tokens[v])]
  /\ tokens' = [tokens EXCEPT ![v] = 0]
  /\ UNCHANGED <<budget, wire, buffer, consumed>>

\* The steps of the consumers.
ConsumerStep(v) == Arrive(v) \/ Consume(v) \/ Preempted(v)

-----------------------------------------------------------------------------
(* Properties of the links. *)

\* The tokens of the grants s.
SumOf(s) ==
  LET sum[i \in 0..Len(s)] == IF i = 0 THEN 0 ELSE sum[i - 1] + s[i]
  IN sum[Len(s)]

\* Each token is in exactly one place: no grant, however it races with sends,
\* is lost or counted twice.  The events that a consumer holds, buffered or on
\* their way, are thus never more than the policy's size, and a producer that
\* has no token has one coming as soon as its consumer has taken everything.
Conservation ==
  \A v \in Valves :
    budget[v] + SumOf(grants[v]) + tokens[v] + Len(wire[v]) + Len(buffer[v])
      = Size
=============================================================================
