----------------------------- MODULE UidGenerator -----------------------------
(***************************************************************************)
(* UidGenerator.scala, from which the frames map takes its unique ids:     *)
(* threads share counters, a counter hands out the ids of one chunk after  *)
(* another, and the chunks come from a main counter.  A step is one atomic *)
(* operation.                                                              *)
(***************************************************************************)
EXTENDS Integers, Sequences, Functions

CONSTANTS
  UidThreads,  \* threads that generate ids
  Slots,       \* localCounters
  SlotOf,      \* which of them a thread uses
  Chunk,       \* chunkSize
  MaxUids      \* bound: ids that are generated

ASSUME UidAssumption ==
  /\ SlotOf \in [UidThreads -> Slots]
  /\ Chunk \in Nat \ {0, 1} /\ MaxUids \in Nat

VARIABLES
  mainCounter,
  counters,   \* localCounters
  uidPc,      \* where in `generate` a thread is
  seen,       \* the local v
  fresh,      \* the local newStart
  given       \* the ids returned, in that order

uidVars == <<mainCounter, counters, uidPc, seen, fresh, given>>

UidInit ==
  /\ mainCounter = 0
  /\ counters = [s \in Slots |-> 0]
  /\ uidPc = [t \in UidThreads |-> "idle"]
  /\ seen = [t \in UidThreads |-> 0]
  /\ fresh = [t \in UidThreads |-> 0]
  /\ given = <<>>

Go(t, l) == uidPc' = [uidPc EXCEPT ![t] = l]

\* localCounters.get(pos), at the start of generate and of every retry.
Get(t) ==
  /\ uidPc[t] \in {"idle", "get"}
  /\ uidPc[t] = "get" \/ Len(given) < MaxUids
  /\ seen' = [seen EXCEPT ![t] = counters[SlotOf[t]]]
  /\ Go(t, IF seen'[t] % Chunk = 0 THEN "refill" ELSE "take")
  /\ UNCHANGED <<mainCounter, counters, fresh, given>>

\* mainCounter.getAndAdd(chunkSize)
Refill(t) ==
  /\ uidPc[t] = "refill"
  /\ fresh' = [fresh EXCEPT ![t] = mainCounter]
  /\ mainCounter' = mainCounter + Chunk
  /\ Go(t, "install")
  /\ UNCHANGED <<counters, seen, given>>

\* compareAndSet(pos, v, newStart + 1); if it fails, the chunk is lost.
Install(t) ==
  /\ uidPc[t] = "install"
  /\ counters' = IF counters[SlotOf[t]] = seen[t]
                   THEN [counters EXCEPT ![SlotOf[t]] = fresh[t] + 1]
                   ELSE counters
  /\ Go(t, "get")
  /\ UNCHANGED <<mainCounter, seen, fresh, given>>

\* A mutant: the counter is set without a comparison.
TakeBlindly(t) ==
  /\ uidPc[t] = "take"
  /\ counters' = [counters EXCEPT ![SlotOf[t]] = seen[t] + 1]
  /\ given' = Append(given, seen[t])
  /\ Go(t, "idle")
  /\ UNCHANGED <<mainCounter, seen, fresh>>

\* compareAndSet(pos, v, v + 1), and v is the id.
Take(t) ==
  /\ uidPc[t] = "take"
  /\ IF counters[SlotOf[t]] = seen[t]
       THEN /\ counters' = [counters EXCEPT ![SlotOf[t]] = seen[t] + 1]
            /\ given' = Append(given, seen[t])
            /\ Go(t, "idle")
       ELSE /\ Go(t, "get")
            /\ UNCHANGED <<counters, given>>
  /\ UNCHANGED <<mainCounter, seen, fresh>>

UidNext == \E t \in UidThreads : Get(t) \/ Refill(t) \/ Install(t) \/ Take(t)

UidSpec == UidInit /\ [][UidNext]_uidVars

\* No id is given twice, neither by two threads that share a counter nor by two
\* counters, however refills and comparisons interleave.
UidsUnique == IsInjective(given)
=============================================================================
