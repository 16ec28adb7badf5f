---------------------------- MODULE Parts_proofs ----------------------------
(***************************************************************************)
(* The data structures that the other modules take for granted, each one   *)
(* by itself: unique ids, the ring of a queue, the timer's heap and the    *)
(* observers of an event source.                                           *)
(*                                                                         *)
(* A loop of the code over an array is a recursive function in the model,  *)
(* and what it returns is shown by induction on its rounds.                *)
(***************************************************************************)
EXTENDS UidGenerator, UnrolledRing, BinaryHeap, EventStream, FiniteSetTheorems, TLAPS

\* Induction over the naturals, from the order of finite sets by inclusion.
LEMMA SetInduction ==
  ASSUME NEW S, 0 \in S, \A n \in Nat : n \in S => n + 1 \in S
  PROVE  Nat \subseteq S
  <1> SUFFICES ASSUME Nat \ S # {} PROVE FALSE
    OBVIOUS
  <1> DEFINE T == {0..n : n \in Nat \ S}
  <1>1. T \subseteq FiniteSubsetsOf(Nat) /\ T # {}
    <2>1. \A n \in Nat : IsFiniteSet(0..n)
      BY FS_Interval
    <2>2. QED
      BY <2>1 DEF FiniteSubsetsOf
  <1>2. PICK x \in T : \A y \in T : ~ (<<y, x>> \in StrictSubsetOrdering(Nat))
    <2> HIDE DEF T
    <2>1. QED
      BY <1>1, WFMin, FS_StrictSubsetOrderingWellFounded
  <1>3. PICK n \in Nat \ S : x = 0..n
    OBVIOUS
  <1>4. n - 1 \in Nat \ S
    <2>1. n # 0
      OBVIOUS
    <2>2. QED
      BY <2>1
  <1>5. <<0..(n - 1), 0..n>> \in StrictSubsetOrdering(Nat)
    <2>1. n \in 0..n /\ n \notin 0..(n - 1)
      OBVIOUS
    <2>2. 0..(n - 1) \subseteq 0..n /\ 0..(n - 1) # 0..n /\ 0..n \subseteq Nat
      BY <2>1
    <2>3. QED
      BY <2>2 DEF StrictSubsetOrdering
  <1>6. QED
    BY <1>2, <1>3, <1>4, <1>5

-----------------------------------------------------------------------------
(***************************************************************************)
(* UidGenerator: no id is generated twice, for any number of threads,      *)
(* counters and any chunk size. The argument: every counter that can still *)
(* hand out ids works inside a chunk of its own, the chunk a thread has    *)
(* fetched and not installed belongs to nobody yet, and inside a chunk a   *)
(* counter is ahead of every id already taken from it.                     *)
(***************************************************************************)

\* A number is a multiple of the chunk size and a remainder below it.
LEMMA Division ==
  ASSUME NEW C \in Nat \ {0}, NEW a \in Nat
  PROVE  /\ a % C \in 0..(C - 1)
         /\ a \div C \in Nat
         /\ a = C * (a \div C) + (a % C)
  <1>1. a % C \in 0..(C - 1)
    OBVIOUS
  <1>2. a = C * (a \div C) + (a % C) /\ a \div C \in Nat
    OBVIOUS
  <1>3. QED
    BY <1>1, <1>2

\* There is only one remainder.
LEMMA Remainder ==
  ASSUME NEW C \in Nat \ {0}, NEW a \in Nat, NEW q \in Nat, NEW r \in 0..(C - 1),
         a = C * q + r
  PROVE  a % C = r
  OBVIOUS

\* The start of the chunk after a chunk's start is a chunk's start.
LEMMA NextChunk ==
  ASSUME NEW C \in Nat \ {0}, NEW a \in Nat, a % C = 0
  PROVE  (a + C) % C = 0
  <1> DEFINE q == a \div C
  <1>1. a = C * q /\ q \in Nat
    BY Division
  <1> HIDE DEF q
  <1>2. a + C = C * (q + 1) + 0
    BY <1>1
  <1>3. a + C \in Nat /\ 0 \in 0..(C - 1) /\ q + 1 \in Nat
    BY <1>1
  <1>4. QED
    BY <1>2, <1>3, Remainder

\* The remainder of the successor: it starts a new chunk or stays in this one.
LEMMA Successor ==
  ASSUME NEW C \in Nat \ {0, 1}, NEW a \in Nat
  PROVE  (a + 1) % C = 0 \/ (a + 1) % C = (a % C) + 1
  <1> DEFINE q == a \div C
             r == a % C
  <1>1. a = C * q + r /\ q \in Nat /\ r \in 0..(C - 1)
    BY Division
  <1> HIDE DEF q, r
  <1>2. CASE r = C - 1
    <2>1. a + 1 = C * (q + 1) + 0
      BY <1>1, <1>2
    <2>2. a + 1 \in Nat /\ 0 \in 0..(C - 1) /\ q + 1 \in Nat
      BY <1>1
    <2>3. QED
      BY <2>1, <2>2, Remainder
  <1>3. CASE r # C - 1
    <2>1. a + 1 = C * q + (r + 1) /\ r + 1 \in 0..(C - 1)
      BY <1>1, <1>3
    <2>2. (a + 1) % C = r + 1
      BY <1>1, <2>1, Remainder
    <2>3. QED
      BY <2>2 DEF r
  <1>4. QED
    BY <1>2, <1>3

\* The first id of a chunk.
LEMMA FirstId ==
  ASSUME NEW C \in Nat \ {0, 1}, NEW a \in Nat, a % C = 0
  PROVE  (a + 1) % C = 1
  <1>1. a + 1 = C * (a \div C) + 1 /\ a \div C \in Nat
    BY Division
  <1>2. a + 1 \in Nat /\ 1 \in 0..(C - 1) /\ C \in Nat \ {0}
    OBVIOUS
  <1>3. QED
    BY <1>1, <1>2, Remainder

-----------------------------------------------------------------------------
(***************************************************************************)
(* The inductive invariant.                                                *)
(***************************************************************************)

\* Where the chunk of v begins; a counter at such a place hands out nothing
\* until it is refilled.
Start(v) == v - (v % Chunk)
Used(v) == v % Chunk # 0

UidTypeOK ==
  /\ mainCounter \in Nat /\ mainCounter % Chunk = 0
  /\ counters \in [Slots -> Nat]
  /\ uidPc \in [UidThreads -> {"idle", "get", "refill", "install", "take"}]
  /\ seen \in [UidThreads -> Nat]
  /\ fresh \in [UidThreads -> Nat]
  /\ given \in Seq(Nat)

\* What a thread read decides where it goes.
SeenUsed == \A t \in UidThreads : uidPc[t] = "take" => Used(seen[t])

\* Every chunk in use, and every id given, was taken from the main counter.
Below ==
  /\ \A s \in Slots : Used(counters[s]) => Start(counters[s]) < mainCounter
  /\ \A i \in DOMAIN given : Used(given[i]) /\ Start(given[i]) < mainCounter

\* Two counters never share a chunk.
OwnChunk ==
  \A s1, s2 \in Slots :
    Used(counters[s1]) /\ Used(counters[s2]) /\ s1 # s2
      => Start(counters[s1]) # Start(counters[s2])

\* A chunk that a thread fetched belongs to this thread alone.
FreshChunk ==
  \A t \in UidThreads : uidPc[t] = "install" =>
    /\ fresh[t] % Chunk = 0 /\ fresh[t] < mainCounter
    /\ \A u \in UidThreads : uidPc[u] = "install" /\ u # t => fresh[u] # fresh[t]
    /\ \A s \in Slots : Used(counters[s]) => Start(counters[s]) # fresh[t]
    /\ \A i \in DOMAIN given : Start(given[i]) # fresh[t]

\* A counter is ahead of the ids given from its chunk.
Ahead ==
  \A s \in Slots, i \in DOMAIN given :
    Used(counters[s]) /\ Start(given[i]) = Start(counters[s]) => given[i] < counters[s]

UidInv ==
  /\ UidTypeOK /\ SeenUsed /\ Below /\ OwnChunk /\ FreshChunk /\ Ahead
  /\ UidsUnique

-----------------------------------------------------------------------------

\* The initial state satisfies the invariant.
LEMMA UidInit_Inv == UidInit => UidInv
  <1> SUFFICES ASSUME UidInit PROVE UidInv
    OBVIOUS
  <1>1. 0 % Chunk = 0
    <2>1. 0 = Chunk * 0 + 0 /\ 0 \in Nat /\ 0 \in 0..(Chunk - 1) /\ Chunk \in Nat \ {0}
      BY UidAssumption
    <2>2. QED
      BY <2>1, Remainder
  <1>2. UidTypeOK
    BY <1>1, UidAssumption DEF UidInit, UidTypeOK
  <1>3. SeenUsed /\ Below /\ OwnChunk /\ FreshChunk /\ Ahead
    BY <1>1, UidAssumption DEF UidInit, SeenUsed, Below, OwnChunk, FreshChunk, Ahead, Used, Start
  <1>4. UidsUnique
    BY DEF UidInit, UidsUnique, IsInjective
  <1>5. QED
    BY <1>2, <1>3, <1>4 DEF UidInv

\* Reading a counter touches neither chunks nor ids.
LEMMA Get_Inv ==
  ASSUME UidInv, NEW t \in UidThreads, Get(t)
  PROVE  UidInv'
  <1> USE DEF UidInv
  <1>1. SlotOf[t] \in Slots /\ Chunk \in Nat \ {0, 1}
    BY UidAssumption
  <1>2. UidTypeOK'
    BY <1>1 DEF Get, Go, UidTypeOK
  <1>3. SeenUsed'
    BY <1>1 DEF Get, Go, UidTypeOK, SeenUsed, Used
  <1>4. Below' /\ OwnChunk' /\ Ahead' /\ UidsUnique'
    BY DEF Get, Below, OwnChunk, Ahead, UidsUnique, Used, Start
  <1>5. FreshChunk'
    BY DEF Get, Go, UidTypeOK, FreshChunk, Used, Start
  <1>6. QED
    BY <1>2, <1>3, <1>4, <1>5

\* A fetched chunk begins at the main counter, above every chunk in use.
LEMMA Refill_Inv ==
  ASSUME UidInv, NEW t \in UidThreads, Refill(t)
  PROVE  UidInv'
  <1> USE DEF UidInv
  <1>1. Chunk \in Nat \ {0, 1}
    BY UidAssumption
  <1>2. (mainCounter + Chunk) % Chunk = 0
    BY <1>1, NextChunk DEF UidTypeOK
  <1>3. UidTypeOK'
    BY <1>1, <1>2 DEF Refill, Go, UidTypeOK
  <1>4. SeenUsed' /\ OwnChunk' /\ Ahead' /\ UidsUnique'
    BY DEF Refill, Go, UidTypeOK, SeenUsed, OwnChunk, Ahead, UidsUnique, Used, Start
  <1>5. /\ \A s \in Slots : Start(counters[s]) \in Int
        /\ \A i \in DOMAIN given : Start(given[i]) \in Int
    <2>1. \A v \in Nat : v % Chunk \in Int
      BY <1>1, Division
    <2>2. \A v \in Nat : Start(v) \in Int
      BY <2>1 DEF Start
    <2>3. \A i \in DOMAIN given : given[i] \in Nat
      BY DEF UidTypeOK
    <2>4. QED
      BY <2>2, <2>3 DEF UidTypeOK
  <1>6. Below'
    BY <1>1, <1>5 DEF Refill, UidTypeOK, Below, Used, Start
  <1>7. FreshChunk'
    <2> SUFFICES ASSUME NEW u \in UidThreads, uidPc'[u] = "install"
                 PROVE  /\ fresh'[u] % Chunk = 0 /\ fresh'[u] < mainCounter'
                        /\ \A w \in UidThreads : uidPc'[w] = "install" /\ w # u
                                                   => fresh'[w] # fresh'[u]
                        /\ \A s \in Slots : Used(counters[s])
                                              => Start(counters[s]) # fresh'[u]
                        /\ \A i \in DOMAIN given : Start(given[i]) # fresh'[u]
      BY DEF Refill, FreshChunk, Used, Start
    <2>1. CASE u = t
      BY <2>1, <1>1, <1>5 DEF Refill, Go, UidTypeOK, FreshChunk, Below
    <2>2. CASE u # t
      BY <2>2, <1>1, <1>5 DEF Refill, Go, UidTypeOK, FreshChunk, Below
    <2>3. QED
      BY <2>1, <2>2
  <1>8. QED
    BY <1>3, <1>4, <1>6, <1>7

\* Installing a fetched chunk makes it the counter's own, or loses it.
LEMMA Install_Inv ==
  ASSUME UidInv, NEW t \in UidThreads, Install(t)
  PROVE  UidInv'
  <1> USE DEF UidInv
  <1>1. SlotOf[t] \in Slots /\ Chunk \in Nat \ {0, 1}
    BY UidAssumption
  <1>2. UidTypeOK' /\ SeenUsed' /\ UidsUnique'
    BY <1>1 DEF Install, Go, UidTypeOK, SeenUsed, UidsUnique, Used
  <1>3. Start(fresh[t] + 1) = fresh[t]
    BY <1>1, FirstId DEF Install, FreshChunk, UidTypeOK, Start
  <1>4. CASE counters[SlotOf[t]] # seen[t]
    BY <1>2, <1>4 DEF Install, Go, UidTypeOK, Below, OwnChunk, FreshChunk, Ahead, Used, Start
  <1>5. CASE counters[SlotOf[t]] = seen[t]
    <2>1. /\ uidPc[t] = "install" /\ uidPc' = [uidPc EXCEPT ![t] = "get"]
          /\ counters' = [counters EXCEPT ![SlotOf[t]] = fresh[t] + 1]
          /\ UNCHANGED <<mainCounter, fresh, given>>
      BY <1>5 DEF Install, Go
    <2>2. \A s \in Slots : Start(counters'[s]) = IF s = SlotOf[t] THEN fresh[t]
                                                                 ELSE Start(counters[s])
      BY <2>1, <1>1, <1>3 DEF UidTypeOK
    <2>3. \A s \in Slots : s # SlotOf[t] => counters'[s] = counters[s]
      BY <2>1, <1>1 DEF UidTypeOK
    <2>4. Below'
      BY <2>1, <2>2, <2>3 DEF Below, FreshChunk, Start, Used
    <2>5. OwnChunk'
      BY <2>1, <2>2, <2>3 DEF OwnChunk, FreshChunk
    <2>6. FreshChunk'
      BY <2>1, <2>2, <2>3 DEF FreshChunk, UidTypeOK, Used, Start
    <2>7. Ahead'
      BY <2>1, <2>2, <2>3 DEF Ahead, FreshChunk, Start
    <2>8. QED
      BY <1>2, <2>4, <2>5, <2>6, <2>7
  <1>6. QED
    BY <1>4, <1>5

\* Taking an id moves the counter past it, inside its chunk or to its end.
LEMMA Take_Inv ==
  ASSUME UidInv, NEW t \in UidThreads, Take(t)
  PROVE  UidInv'
  <1> USE DEF UidInv
  <1>1. SlotOf[t] \in Slots /\ Chunk \in Nat \ {0, 1}
    BY UidAssumption
  <1>2. CASE counters[SlotOf[t]] # seen[t]
    BY <1>2 DEF Take, Go, UidTypeOK, SeenUsed, Below, OwnChunk, FreshChunk, Ahead, UidsUnique,
                Used, Start
  <1>3. CASE counters[SlotOf[t]] = seen[t]
    <2> DEFINE v == seen[t]
    <2>1. /\ uidPc[t] = "take" /\ uidPc' = [uidPc EXCEPT ![t] = "idle"]
          /\ counters' = [counters EXCEPT ![SlotOf[t]] = v + 1]
          /\ given' = Append(given, v)
          /\ UNCHANGED <<mainCounter, seen, fresh>>
      BY <1>3 DEF Take, Go
    <2>2. /\ v \in Nat /\ Used(v) /\ counters[SlotOf[t]] = v
          /\ Used(v + 1) => Start(v + 1) = Start(v)
      BY <2>1, <1>1, <1>3, Successor DEF UidTypeOK, SeenUsed, Start, Used
    <2>3. UidTypeOK' /\ SeenUsed'
      BY <2>1, <2>2, <1>1 DEF UidTypeOK, SeenUsed, Used
    <2>4. /\ DOMAIN given' = DOMAIN given \cup {Len(given) + 1}
          /\ given'[Len(given) + 1] = v
          /\ Len(given) + 1 \notin DOMAIN given
          /\ \A i \in DOMAIN given : given'[i] = given[i]
      BY <2>1, <2>2 DEF UidTypeOK
    <2>5. \A s \in Slots : IF s = SlotOf[t] THEN counters'[s] = v + 1
                                            ELSE counters'[s] = counters[s]
      BY <2>1, <1>1 DEF UidTypeOK
    <2> HIDE DEF v
    <2>6. Below'
      <3> SUFFICES
            /\ \A s \in Slots : Used(counters'[s]) => Start(counters'[s]) < mainCounter
            /\ \A i \in DOMAIN given' : Used(given'[i]) /\ Start(given'[i]) < mainCounter
        BY <2>1 DEF Below, Used, Start
      <3>1. Start(v) < mainCounter
        BY <1>1, <2>2 DEF Below
      <3>2. QED
        BY <3>1, <2>2, <2>4, <2>5 DEF Below
    <2>7. OwnChunk'
      BY <1>1, <2>2, <2>5 DEF OwnChunk, Used, Start
    <2>8. FreshChunk'
      <3> SUFFICES ASSUME NEW u \in UidThreads, uidPc[u] = "install"
                   PROVE  /\ \A s \in Slots : Used(counters'[s]) => Start(counters'[s]) # fresh[u]
                          /\ \A i \in DOMAIN given' : Start(given'[i]) # fresh[u]
        BY <2>1 DEF FreshChunk, Used, Start, UidTypeOK
      <3>1. Start(v) # fresh[u]
        BY <1>1, <2>2 DEF FreshChunk
      <3>2. QED
        BY <3>1, <2>2, <2>4, <2>5 DEF FreshChunk
    <2>9. Ahead'
      <3> SUFFICES ASSUME NEW s \in Slots, NEW i \in DOMAIN given', Used(counters'[s]),
                          Start(given'[i]) = Start(counters'[s])
                   PROVE  given'[i] < counters'[s]
        BY DEF Ahead, Used, Start
      <3>1. CASE s = SlotOf[t] /\ i \in DOMAIN given
        BY <3>1, <1>1, <2>2, <2>4, <2>5 DEF Ahead, UidTypeOK
      <3>2. CASE s = SlotOf[t] /\ i \notin DOMAIN given
        BY <3>2, <2>2, <2>4, <2>5
      <3>3. CASE s # SlotOf[t] /\ i \in DOMAIN given
        BY <3>3, <2>4, <2>5 DEF Ahead
      <3>4. CASE s # SlotOf[t] /\ i \notin DOMAIN given
        BY <3>4, <1>1, <2>2, <2>4, <2>5 DEF OwnChunk
      <3>5. QED
        BY <3>1, <3>2, <3>3, <3>4
    <2>10. \A i \in DOMAIN given : given[i] # v
      BY <2>2, <1>1 DEF Ahead, UidTypeOK
    <2>11. UidsUnique'
      BY <2>4, <2>10 DEF UidsUnique, IsInjective
    <2>12. QED
      BY <2>3, <2>6, <2>7, <2>8, <2>9, <2>11
  <1>4. QED
    BY <1>2, <1>3

\* Every step keeps the invariant.
LEMMA UidNext_Inv == UidInv /\ [UidNext]_uidVars => UidInv'
  <1> SUFFICES ASSUME UidInv, [UidNext]_uidVars PROVE UidInv'
    OBVIOUS
  <1>1. CASE UNCHANGED uidVars
    BY <1>1 DEF uidVars, UidInv, UidTypeOK, SeenUsed, Below, OwnChunk, FreshChunk, Ahead,
                UidsUnique, Used, Start
  <1>2. ASSUME NEW t \in UidThreads, Get(t) \/ Refill(t) \/ Install(t) \/ Take(t)
        PROVE  UidInv'
    BY <1>2, Get_Inv, Refill_Inv, Install_Inv, Take_Inv
  <1>3. QED
    BY <1>1, <1>2 DEF UidNext

\* No id is given twice, whatever the number of threads and counters, however
\* threads share them, and for every chunk size from two (UidGenerator.generate).
THEOREM IdsAreUnique == UidSpec => []UidsUnique
  <1>1. UidInv => UidsUnique
    BY DEF UidInv
  <1>2. QED
    BY UidInit_Inv, UidNext_Inv, <1>1, PTL DEF UidSpec

-----------------------------------------------------------------------------
(***************************************************************************)
(* UnrolledRing: a queue, whatever the sizes of its nodes. The argument: the *)
(* elements are those of the nodes up to the one that is filled, joined in *)
(* their order, and only an empty ring begins with an empty node.          *)
(***************************************************************************)

\* f joins the first n sequences of ss, from the first on, as FlattenSeq does.
IsJoining(f, ss, n) ==
  f = [i \in 1..n |-> IF i = 1 THEN ss[i] ELSE f[i - 1] \o ss[i]]

\* Two sequences that begin alike are joined alike.
LEMMA JoinedAlike ==
  ASSUME NEW ss, NEW tt, NEW f, NEW g, NEW n \in Nat, NEW m \in Nat, n <= m,
         IsJoining(f, ss, n), IsJoining(g, tt, m),
         \A i \in 1..n : ss[i] = tt[i]
  PROVE  \A i \in 1..n : f[i] = g[i]
  <1> DEFINE S == {k \in Nat : k + 1 <= n => f[k + 1] = g[k + 1]}
  <1>1. \A i \in 1..n : /\ f[i] = IF i = 1 THEN ss[i] ELSE f[i - 1] \o ss[i]
                        /\ g[i] = IF i = 1 THEN tt[i] ELSE g[i - 1] \o tt[i]
    <2>1. \A i \in 1..n : f[i] = IF i = 1 THEN ss[i] ELSE f[i - 1] \o ss[i]
      BY DEF IsJoining
    <2>2. \A i \in 1..m : g[i] = IF i = 1 THEN tt[i] ELSE g[i - 1] \o tt[i]
      BY DEF IsJoining
    <2>3. QED
      BY <2>1, <2>2
  <1>2. 0 \in S
    BY <1>1
  <1>3. ASSUME NEW k \in Nat, k \in S
        PROVE  k + 1 \in S
    <2> SUFFICES ASSUME k + 2 <= n PROVE f[k + 2] = g[k + 2]
      OBVIOUS
    <2>1. f[k + 1] = g[k + 1]
      BY <1>3
    <2>2. k + 2 \in 1..n /\ k + 2 # 1 /\ (k + 2) - 1 = k + 1
      OBVIOUS
    <2>3. QED
      BY <1>1, <2>1, <2>2
  <1>4. Nat \subseteq S
    <2> HIDE DEF S
    <2>1. QED
      BY <1>2, <1>3, SetInduction
  <1>5. QED
    <2> TAKE i \in 1..n
    <2>1. i - 1 \in S /\ (i - 1) + 1 = i
      BY <1>4
    <2>2. QED
      BY <2>1

\* Sequences can be joined.
LEMMA JoiningExists ==
  ASSUME NEW T, NEW ss \in Seq(Seq(T)), NEW n \in Nat, n < Len(ss)
  PROVE  \E f \in [1..(n + 1) -> Seq(T)] : IsJoining(f, ss, n + 1)
  <1> DEFINE P(k) == k < Len(ss) => \E f \in [1..(k + 1) -> Seq(T)] : IsJoining(f, ss, k + 1)
             S == {k \in Nat : P(k)}
  <1>1. 0 \in S
    <2> DEFINE f == [i \in 1..1 |-> ss[1]]
    <2> SUFFICES ASSUME 0 < Len(ss)
                 PROVE  IsJoining(f, ss, 1) /\ f \in [1..1 -> Seq(T)]
      OBVIOUS
    <2>1. QED
      BY DEF IsJoining
  <1>2. ASSUME NEW k \in Nat, k \in S
        PROVE  k + 1 \in S
    <2> SUFFICES ASSUME k + 1 < Len(ss)
                 PROVE  \E f \in [1..(k + 2) -> Seq(T)] : IsJoining(f, ss, k + 2)
      OBVIOUS
    <2>1. PICK f \in [1..(k + 1) -> Seq(T)] : IsJoining(f, ss, k + 1)
      BY <1>2
    <2> DEFINE g == [i \in 1..(k + 2) |-> IF i = k + 2 THEN f[k + 1] \o ss[k + 2] ELSE f[i]]
    <2>2. \A i \in 1..(k + 1) : f[i] = IF i = 1 THEN ss[i] ELSE f[i - 1] \o ss[i]
      BY <2>1 DEF IsJoining
    <2>3. \A i \in 1..(k + 2) : g[i] = IF i = 1 THEN ss[i] ELSE g[i - 1] \o ss[i]
      <3> TAKE i \in 1..(k + 2)
      <3>1. CASE i = k + 2
        <4>1. i - 1 \in 1..(k + 2) /\ i - 1 # k + 2 /\ i - 1 = k + 1 /\ i # 1
          BY <3>1
        <4>2. g[i - 1] = f[k + 1] /\ g[i] = f[k + 1] \o ss[k + 2]
          BY <3>1, <4>1
        <4>3. QED
          BY <3>1, <4>1, <4>2
      <3>2. CASE i # k + 2
        <4>1. i \in 1..(k + 1) /\ g[i] = f[i] /\ (i # 1 => g[i - 1] = f[i - 1])
          BY <3>2
        <4>2. QED
          BY <4>1, <2>2
      <3>3. QED
        BY <3>1, <3>2
    <2>4. IsJoining(g, ss, k + 2)
      <3>1. g = [i \in 1..(k + 2) |-> g[i]]
        OBVIOUS
      <3> HIDE DEF g
      <3>2. QED
        BY <2>3, <3>1 DEF IsJoining
    <2>5. g \in [1..(k + 2) -> Seq(T)]
      <3>1. f[k + 1] \in Seq(T) /\ ss[k + 2] \in Seq(T)
        BY <2>1
      <3>2. f[k + 1] \o ss[k + 2] \in Seq(T)
        BY <3>1
      <3>3. \A i \in 1..(k + 2) : i # k + 2 => i \in 1..(k + 1)
        OBVIOUS
      <3>4. \A i \in 1..(k + 2) : g[i] \in Seq(T)
        BY <2>1, <3>2, <3>3
      <3>5. QED
        BY <3>4
    <2>6. QED
      BY <2>4, <2>5
  <1>3. Nat \subseteq S
    <2> HIDE DEF P
    <2>1. QED
      BY <1>1, <1>2, SetInduction
  <1>4. QED
    BY <1>3

\* FlattenSeq joins them all.
LEMMA Joining ==
  ASSUME NEW T, NEW ss \in Seq(Seq(T)), ss # <<>>
  PROVE  \E f \in [1..Len(ss) -> Seq(T)] :
            IsJoining(f, ss, Len(ss)) /\ FlattenSeq(ss) = f[Len(ss)]
  <1> DEFINE g == CHOOSE h : h = [i \in 1..Len(ss) |-> IF i = 1 THEN ss[i] ELSE h[i - 1] \o ss[i]]
  <1>1. Len(ss) - 1 \in Nat /\ Len(ss) \in Nat /\ Len(ss) \in 1..Len(ss)
    OBVIOUS
  <1>2. PICK f \in [1..Len(ss) -> Seq(T)] : IsJoining(f, ss, Len(ss))
    <2> DEFINE m == Len(ss) - 1
    <2>1. m + 1 = Len(ss) /\ m < Len(ss) /\ m \in Nat
      BY <1>1
    <2> HIDE DEF m
    <2>2. QED
      BY <2>1, JoiningExists
  <1>3. IsJoining(g, ss, Len(ss))
    BY <1>2 DEF IsJoining
  <1>4. FlattenSeq(ss) = g[Len(ss)]
    BY DEF FlattenSeq
  <1> HIDE DEF g
  <1>5. f[Len(ss)] = g[Len(ss)]
    BY <1>1, <1>2, <1>3, JoinedAlike
  <1>6. QED
    BY <1>2, <1>4, <1>5

\* What FlattenSeq makes of one sequence more at the end ...
LEMMA FlattenAppend ==
  ASSUME NEW T, NEW ss \in Seq(Seq(T)), NEW s \in Seq(T)
  PROVE  /\ FlattenSeq(ss) \in Seq(T)
         /\ FlattenSeq(Append(ss, s)) = FlattenSeq(ss) \o s
  <1> DEFINE tt == Append(ss, s)
  <1>1. tt \in Seq(Seq(T)) /\ tt # <<>> /\ Len(tt) = Len(ss) + 1 /\ tt[Len(tt)] = s
    <2>1. tt \in Seq(Seq(T)) /\ Len(tt) = Len(ss) + 1
      OBVIOUS
    <2>2. tt[Len(ss) + 1] = s
      OBVIOUS
    <2>3. QED
      BY <2>1, <2>2
  <1>2. \A i \in 1..Len(ss) : tt[i] = ss[i]
    OBVIOUS
  <1> HIDE DEF tt
  <1>3. PICK g \in [1..Len(tt) -> Seq(T)] :
          IsJoining(g, tt, Len(tt)) /\ FlattenSeq(tt) = g[Len(tt)]
    BY <1>1, Joining
  <1>4. g[Len(tt)] = IF Len(tt) = 1 THEN s ELSE g[Len(tt) - 1] \o s
    <2>1. Len(tt) \in 1..Len(tt)
      BY <1>1
    <2>2. QED
      BY <1>1, <1>3, <2>1 DEF IsJoining
  <1>5. CASE ss = <<>>
    <2>1. FlattenSeq(ss) = <<>>
      BY <1>5 DEF FlattenSeq
    <2>2. FlattenSeq(tt) = s
      BY <1>1, <1>3, <1>4, <1>5
    <2>3. <<>> \o s = s
      OBVIOUS
    <2>4. QED
      BY <2>1, <2>2, <2>3 DEF tt
  <1>6. CASE ss # <<>>
    <2>1. PICK f \in [1..Len(ss) -> Seq(T)] :
            IsJoining(f, ss, Len(ss)) /\ FlattenSeq(ss) = f[Len(ss)]
      BY <1>6, Joining
    <2>2. Len(ss) \in Nat /\ Len(tt) \in Nat /\ Len(ss) <= Len(tt) /\ Len(ss) \in 1..Len(ss)
      BY <1>1, <1>6
    <2>3. f[Len(ss)] = g[Len(ss)]
      <3>1. \A i \in 1..Len(ss) : ss[i] = tt[i]
        BY <1>2
      <3> DEFINE n == Len(ss)
                 m == Len(tt)
      <3>2. /\ n \in Nat /\ m \in Nat /\ n <= m
            /\ IsJoining(f, ss, n) /\ IsJoining(g, tt, m)
            /\ \A i \in 1..n : ss[i] = tt[i]
        BY <1>3, <2>1, <2>2, <3>1
      <3> HIDE DEF n, m
      <3>3. \A i \in 1..n : f[i] = g[i]
        BY <3>2, JoinedAlike
      <3>4. QED
        BY <2>2, <3>3 DEF n
    <2>4. Len(tt) # 1 /\ Len(tt) - 1 = Len(ss)
      BY <1>1, <2>2
    <2>5. f[Len(ss)] \in Seq(T)
      BY <2>1, <2>2
    <2>6. QED
      BY <1>3, <1>4, <2>1, <2>3, <2>4, <2>5 DEF tt
  <1>7. QED
    BY <1>5, <1>6

\* A sequence of sequences is its first ones and its last one.
LEMMA FrontAndLast ==
  ASSUME NEW T, NEW ss \in Seq(T), NEW n \in Nat, Len(ss) = n + 1
  PROVE  /\ SubSeq(ss, 1, n) \in Seq(T) /\ Len(SubSeq(ss, 1, n)) = n
         /\ ss[n + 1] \in T
         /\ ss = Append(SubSeq(ss, 1, n), ss[n + 1])
  OBVIOUS

\* ... and of one more at the beginning.
LEMMA FlattenCons ==
  ASSUME NEW T, NEW s \in Seq(T), NEW ss \in Seq(Seq(T))
  PROVE  FlattenSeq(<<s>> \o ss) = s \o FlattenSeq(ss)
  <1> DEFINE P(n) == \A tt \in Seq(Seq(T)) :
                        Len(tt) = n => FlattenSeq(<<s>> \o tt) = s \o FlattenSeq(tt)
             S == {n \in Nat : P(n)}
  <1>1. P(0)
    <2> SUFFICES ASSUME NEW tt \in Seq(Seq(T)), Len(tt) = 0
                 PROVE  FlattenSeq(<<s>> \o tt) = s \o FlattenSeq(tt)
      OBVIOUS
    <2>1. tt = <<>> /\ <<s>> \o tt = Append(<<>>, s) /\ <<>> \in Seq(Seq(T))
      OBVIOUS
    <2>2. FlattenSeq(<<>>) = <<>>
      BY DEF FlattenSeq
    <2>3. FlattenSeq(Append(<<>>, s)) = <<>> \o s
      BY <2>1, <2>2, FlattenAppend
    <2>4. <<>> \o s = s /\ s \o <<>> = s
      OBVIOUS
    <2>5. QED
      BY <2>1, <2>2, <2>3, <2>4
  <1>2. ASSUME NEW n \in Nat, P(n)
        PROVE  P(n + 1)
    <2> SUFFICES ASSUME NEW tt \in Seq(Seq(T)), Len(tt) = n + 1
                 PROVE  FlattenSeq(<<s>> \o tt) = s \o FlattenSeq(tt)
      OBVIOUS
    <2> DEFINE uu == SubSeq(tt, 1, n)
               u == tt[n + 1]
    <2>1. uu \in Seq(Seq(T)) /\ Len(uu) = n /\ u \in Seq(T) /\ tt = Append(uu, u)
      BY FrontAndLast
    <2> HIDE DEF uu, u
    <2>2. <<s>> \o Append(uu, u) = Append(<<s>> \o uu, u) /\ <<s>> \o uu \in Seq(Seq(T))
      BY <2>1
    <2>3. FlattenSeq(<<s>> \o tt) = FlattenSeq(<<s>> \o uu) \o u
      BY <2>1, <2>2, FlattenAppend
    <2>4. FlattenSeq(<<s>> \o uu) = s \o FlattenSeq(uu)
      BY <1>2, <2>1
    <2>5. FlattenSeq(tt) = FlattenSeq(uu) \o u /\ FlattenSeq(uu) \in Seq(T)
      BY <2>1, FlattenAppend
    <2>6. (s \o FlattenSeq(uu)) \o u = s \o (FlattenSeq(uu) \o u)
      BY <2>1, <2>5
    <2>7. QED
      BY <2>3, <2>4, <2>5, <2>6
  <1>3. Nat \subseteq S
    <2> HIDE DEF P
    <2>1. 0 \in S /\ \A n \in Nat : n \in S => n + 1 \in S
      BY <1>1, <1>2
    <2> HIDE DEF S
    <2>2. QED
      BY <2>1, SetInduction
  <1>4. QED
    <2>1. Len(ss) \in Nat /\ P(Len(ss))
      <3> HIDE DEF P
      <3>1. Len(ss) \in Nat
        OBVIOUS
      <3>2. QED
        BY <1>3, <3>1
    <2>2. QED
      BY <2>1

-----------------------------------------------------------------------------
(***************************************************************************)
(* The ring.                                                               *)
(***************************************************************************)

Nodes == [length : Nat \ {0}, from : Nat, items : Seq(Nat)]

\* The nodes before the last one are full, those behind it are unused.
RingShape(ns, e) ==
  /\ ns \in Seq(Nodes) /\ e \in 1..Len(ns)
  /\ \A i \in 1..(e - 1) : Until(ns[i]) = ns[i].length
  /\ \A i \in 2..(e - 1) : ~EmptyNode(ns[i])
  /\ Until(ns[e]) < ns[e].length
  /\ \A i \in (e + 1)..Len(ns) : FreshNode(ns[i])

\* The elements of the first e nodes, node by node.
ItemsOf(ns, e) == [i \in 1..e |-> ns[i].items]

\* What was dequeued, followed by what the ring holds, is what was enqueued.
InOrder == dequeued \o FlattenSeq(ItemsOf(nodes, endAt)) = [i \in 1..enqueued |-> i]

RingInv ==
  /\ RingShape(nodes, endAt)
  /\ enqueued \in Nat /\ dequeued \in Seq(Nat)
  /\ InOrder

\* A sequence without its first element.
LEMMA TwiceTail ==
  ASSUME NEW T, NEW s \in Seq(T), Len(s) # 0
  PROVE  Tail(s) \in Seq(T) /\ Len(Tail(s)) = Len(s) - 1
  OBVIOUS

\* Joining sequences is associative, and appending is joining.
LEMMA Associative ==
  ASSUME NEW T, NEW a \in Seq(T), NEW b \in Seq(T), NEW c \in Seq(T), NEW x \in T
  PROVE  /\ (a \o b) \o c = a \o (b \o c)
         /\ Append(a, x) = a \o <<x>>
         /\ <<x>> \in Seq(T) /\ a \o b \in Seq(T)
  <1>1. Append(a, x) = a \o <<x>>
    BY SMTT(30)
  <1>2. (a \o b) \o c = a \o (b \o c)
    BY SMTT(30)
  <1>3. <<x>> \in Seq(T) /\ a \o b \in Seq(T)
    BY SMTT(30)
  <1>4. QED
    BY <1>1, <1>2, <1>3

\* Appending to what was joined.
LEMMA AppendJoined ==
  ASSUME NEW T, NEW a \in Seq(T), NEW b \in Seq(T), NEW x \in T
  PROVE  a \o Append(b, x) = Append(a \o b, x)
  BY SMTT(30)

\* A node of which the first element was taken.
LEMMA NodeTaken ==
  ASSUME NEW n \in Nodes, Tail(n.items) \in Seq(Nat), n.from + 1 \in Nat
  PROVE  LET m == [n EXCEPT !.from = @ + 1, !.items = Tail(@)] IN
         m \in Nodes /\ m.from = n.from + 1 /\ m.items = Tail(n.items) /\ m.length = n.length
  <1> DEFINE m == [n EXCEPT !.from = @ + 1, !.items = Tail(@)]
             f == n.from + 1
             s == Tail(n.items)
  <1>1. m = [n EXCEPT !.from = f, !.items = s]
    OBVIOUS
  <1>2. f \in Nat /\ s \in Seq(Nat)
    OBVIOUS
  <1> HIDE DEF m, f, s
  <1>3. m \in Nodes /\ m.from = f /\ m.items = s /\ m.length = n.length
    BY <1>1, <1>2 DEF Nodes
  <1>4. QED
    BY <1>3 DEF m, f, s

\* A node to which an element was added.
LEMMA WithIs ==
  ASSUME NEW n \in Nodes, NEW x \in Nat
  PROVE  /\ With(n, x) \in Nodes /\ With(n, x).items = Append(n.items, x)
         /\ With(n, x).from = n.from /\ With(n, x).length = n.length
  <1> DEFINE s == Append(n.items, x)
  <1>1. s \in Seq(Nat)
    <2>1. n.items \in Seq(Nat)
      BY DEF Nodes
    <2>2. QED
      BY <2>1
  <1>2. With(n, x) = [n EXCEPT !.items = s]
    BY DEF With
  <1> HIDE DEF s
  <1>3. QED
    BY <1>1, <1>2 DEF Nodes, s

\* What a node has.
LEMMA NodeAt ==
  ASSUME NEW ns \in Seq(Nodes), NEW i \in 1..Len(ns)
  PROVE  /\ ns[i] \in Nodes /\ ns[i].items \in Seq(Nat)
         /\ ns[i].length \in Nat \ {0} /\ ns[i].from \in Nat
  <1>1. ns[i] \in Nodes
    OBVIOUS
  <1>2. QED
    BY <1>1 DEF Nodes

\* The elements, node by node, are sequences.
LEMMA ItemsTypes ==
  ASSUME NEW ns \in Seq(Nodes), NEW e \in Nat, e <= Len(ns)
  PROVE  /\ ItemsOf(ns, e) \in Seq(Seq(Nat))
         /\ FlattenSeq(ItemsOf(ns, e)) \in Seq(Nat)
  <1>1. ItemsOf(ns, e) \in Seq(Seq(Nat))
    <2>1. \A i \in 1..e : ns[i].items \in Seq(Nat)
      <3> TAKE i \in 1..e
      <3>1. i \in 1..Len(ns)
        OBVIOUS
      <3>2. QED
        BY <3>1, NodeAt
    <2>2. QED
      BY <2>1 DEF ItemsOf
  <1>2. <<>> \in Seq(Nat)
    OBVIOUS
  <1>3. QED
    BY <1>1, <1>2, FlattenAppend

\* The last node's elements come last.
LEMMA ItemsLast ==
  ASSUME NEW ns \in Seq(Nodes), NEW e \in Nat, e < Len(ns)
  PROVE  FlattenSeq(ItemsOf(ns, e + 1)) = FlattenSeq(ItemsOf(ns, e)) \o ns[e + 1].items
  <1>1. ItemsOf(ns, e + 1) = Append(ItemsOf(ns, e), ns[e + 1].items)
    BY DEF ItemsOf
  <1>2. ns[e + 1].items \in Seq(Nat)
    <2>1. e + 1 \in 1..Len(ns)
      OBVIOUS
    <2>2. QED
      BY <2>1, NodeAt
  <1>3. ItemsOf(ns, e) \in Seq(Seq(Nat))
    BY ItemsTypes
  <1>4. QED
    BY <1>1, <1>2, <1>3, FlattenAppend

\* The first node's elements come first, and those of the others after them.
LEMMA ItemsFirst ==
  ASSUME NEW ns \in Seq(Nodes), NEW e \in Nat, e < Len(ns)
  PROVE  FlattenSeq(ItemsOf(ns, e + 1)) = ns[1].items \o FlattenSeq(ItemsOf(Tail(ns), e))
  <1>1. Tail(ns) \in Seq(Nodes) /\ Len(Tail(ns)) = Len(ns) - 1 /\ ns # <<>>
    OBVIOUS
  <1>2. ItemsOf(Tail(ns), e) \in Seq(Seq(Nat))
    <2>1. e <= Len(Tail(ns))
      BY <1>1
    <2>2. QED
      BY <1>1, <2>1, ItemsTypes
  <1>3. ns[1].items \in Seq(Nat)
    <2>1. 1 \in 1..Len(ns)
      BY <1>1
    <2>2. QED
      BY <2>1, NodeAt
  <1>4. ItemsOf(ns, e + 1) = <<ns[1].items>> \o ItemsOf(Tail(ns), e)
    BY <1>1 DEF ItemsOf
  <1>5. QED
    BY <1>2, <1>3, <1>4, FlattenCons

\* Nodes that hold the same elements.
LEMMA ItemsSame ==
  ASSUME NEW ns, NEW ms, NEW e \in Nat, \A i \in 1..e : ns[i].items = ms[i].items
  PROVE  ItemsOf(ns, e) = ItemsOf(ms, e)
  BY DEF ItemsOf

\* The first node is empty in a ring that is empty, and only there.
LEMMA EmptyRing ==
  ASSUME RingShape(nodes, endAt)
  PROVE  EmptyNode(Advanced[1]) <=> FlattenSeq(ItemsOf(nodes, endAt)) = <<>>
  <1> DEFINE e == endAt - 1
             rest == FlattenSeq(ItemsOf(Tail(nodes), e))
  <1>1. e \in Nat /\ e < Len(nodes) /\ e + 1 = endAt
    BY DEF RingShape
  <1>2. /\ nodes \in Seq(Nodes) /\ Len(nodes) \in Nat
        /\ Tail(nodes) \in Seq(Nodes) /\ Len(Tail(nodes)) = Len(nodes) - 1
    BY <1>1 DEF RingShape
  <1>3. FlattenSeq(ItemsOf(nodes, endAt)) = nodes[1].items \o rest
    BY <1>1, ItemsFirst DEF RingShape
  <1>4. rest \in Seq(Nat) /\ nodes[1].items \in Seq(Nat)
    <2>1. e <= Len(Tail(nodes)) /\ 1 \in 1..Len(nodes)
      BY <1>1, <1>2
    <2> HIDE DEF e
    <2>2. QED
      BY <1>1, <1>2, <2>1, ItemsTypes, NodeAt DEF RingShape
  <1>5. CASE ~EmptyNode(nodes[1])
    <2>1. Advanced = nodes
      BY <1>5 DEF Advanced, Advances
    <2>2. nodes[1].items \o rest # <<>>
      <3> HIDE DEF rest
      <3>1. QED
        BY <1>4, <1>5 DEF EmptyNode
    <2>3. QED
      BY <1>3, <1>5, <2>1, <2>2
  <1>6. CASE EmptyNode(nodes[1]) /\ endAt = 1
    <2>1. Advanced = nodes
      BY <1>6 DEF Advanced, Advances
    <2>2. rest = <<>>
      <3>1. ItemsOf(Tail(nodes), 0) = <<>>
        BY DEF ItemsOf
      <3>2. QED
        BY <1>6, <3>1 DEF FlattenSeq
    <2>3. QED
      BY <1>3, <1>6, <2>1, <2>2 DEF EmptyNode
  <1>7. CASE EmptyNode(nodes[1]) /\ endAt # 1
    <2> DEFINE d == e - 1
               others == FlattenSeq(ItemsOf(Tail(Tail(nodes)), d))
    <2>1. d \in Nat /\ d < Len(Tail(nodes)) /\ d + 1 = e /\ Len(nodes) >= 2
      BY <1>1, <1>2, <1>7 DEF RingShape
    <2>2. rest = Tail(nodes)[1].items \o others
      BY <1>2, <2>1, ItemsFirst
    <2>3. Tail(nodes)[1] = nodes[2]
      BY <2>1 DEF RingShape
    <2>4. nodes[2].items \in Seq(Nat) /\ Tail(Tail(nodes)) \in Seq(Nodes)
      <3>1. 2 \in 1..Len(nodes) /\ Len(Tail(nodes)) # 0
        <4> HIDE DEF d, e
        <4>1. QED
          BY <1>2, <2>1
      <3>2. Tail(Tail(nodes)) \in Seq(Nodes)
        BY <1>2, <3>1, TwiceTail
      <3>3. QED
        BY <1>2, <3>1, <3>2, NodeAt
    <2>5. Len(Tail(Tail(nodes))) = Len(nodes) - 2
      <3> HIDE DEF d, e
      <3>1. Len(Tail(nodes)) # 0
        BY <1>2, <2>1
      <3>2. Len(Tail(Tail(nodes))) = Len(Tail(nodes)) - 1
        BY <1>2, <3>1, TwiceTail
      <3>3. QED
        BY <1>2, <3>2
    <2>6. others \in Seq(Nat)
      <3>1. d <= Len(Tail(Tail(nodes)))
        BY <1>2, <2>1, <2>5
      <3> HIDE DEF d
      <3>2. QED
        BY <2>1, <2>4, <3>1, ItemsTypes
    <2>7. CASE EmptyNode(nodes[2])
      <3>1. endAt = 2
        BY <1>1, <1>7, <2>7 DEF RingShape
      <3>2. Advanced = nodes
        BY <2>7 DEF Advanced, Advances
      <3>3. others = <<>>
        <4>1. ItemsOf(Tail(Tail(nodes)), 0) = <<>>
          BY DEF ItemsOf
        <4>2. d = 0
          BY <3>1
        <4>3. QED
          BY <4>1, <4>2 DEF FlattenSeq
      <3>4. rest = <<>>
        <4> HIDE DEF others, rest
        <4>1. <<>> \o <<>> = <<>>
          OBVIOUS
        <4>2. QED
          BY <2>2, <2>3, <2>7, <3>3, <4>1 DEF EmptyNode
      <3>5. QED
        BY <1>3, <1>7, <3>2, <3>4 DEF EmptyNode
    <2>8. CASE ~EmptyNode(nodes[2])
      <3>1. Advanced[1] = nodes[2]
        BY <1>2, <1>7, <2>1, <2>3, <2>8 DEF Advanced, Advances, RingShape
      <3>2. rest # <<>>
        <4> HIDE DEF others, rest
        <4>1. nodes[2].items # <<>>
          BY <2>8 DEF EmptyNode
        <4>2. QED
          BY <2>2, <2>3, <2>4, <2>6, <4>1
      <3>3. <<>> \o rest = rest
        BY <1>4
      <3>4. QED
        BY <1>3, <1>7, <2>8, <3>1, <3>2, <3>3 DEF EmptyNode
    <2>9. QED
      BY <2>7, <2>8
  <1>8. QED
    BY <1>5, <1>6, <1>7

\* advance keeps the shape and what the ring holds.
LEMMA AdvanceKeeps ==
  ASSUME RingShape(nodes, endAt)
  PROVE  /\ RingShape(Advanced, EndAdvanced)
         /\ FlattenSeq(ItemsOf(Advanced, EndAdvanced)) = FlattenSeq(ItemsOf(nodes, endAt))
  <1>1. CASE ~Advances(nodes)
    BY <1>1 DEF Advanced, EndAdvanced
  <1>2. CASE Advances(nodes)
    <2> DEFINE e == endAt - 1
               new == Reset(nodes[1])
               ns == Append(Tail(nodes), new)
    <2>1. Advanced = ns /\ EndAdvanced = e
      BY <1>2 DEF Advanced, EndAdvanced
    <2>2. /\ nodes \in Seq(Nodes) /\ e \in Nat /\ e + 1 = endAt /\ e < Len(nodes)
          /\ e # 0 /\ Len(nodes) \in Nat /\ nodes # <<>>
      BY <1>2 DEF RingShape, Advances
    <2>3. new \in Nodes /\ FreshNode(new)
      <3>1. 1 \in 1..Len(nodes)
        BY <2>2
      <3>2. nodes[1].length \in Nat \ {0}
        BY <2>2, <3>1, NodeAt
      <3>3. QED
        BY <3>2 DEF Nodes, Reset, Node, FreshNode, EmptyNode
    <2> HIDE DEF e, new
    <2>4. /\ ns \in Seq(Nodes) /\ Len(ns) = Len(nodes)
          /\ \A i \in 1..(Len(nodes) - 1) : ns[i] = nodes[i + 1]
          /\ ns[Len(nodes)] = new
      BY <2>2, <2>3
    <2> HIDE DEF ns
    <2>5. RingShape(ns, e)
      <3>1. e \in 1..Len(ns)
        BY <2>2, <2>4
      <3>2. \A i \in 1..e : ns[i] = nodes[i + 1] /\ i + 1 \in 2..endAt
        BY <2>2, <2>4
      <3>3. Until(ns[e]) < ns[e].length
        BY <2>2, <3>1, <3>2 DEF RingShape
      <3>4. \A i \in 1..(e - 1) : Until(ns[i]) = ns[i].length
        <4> TAKE i \in 1..(e - 1)
        <4>1. ns[i] = nodes[i + 1] /\ i + 1 \in 1..(endAt - 1)
          BY <2>2, <2>4
        <4>2. QED
          BY <4>1 DEF RingShape
      <3>5. \A i \in 2..(e - 1) : ~EmptyNode(ns[i])
        <4> TAKE i \in 2..(e - 1)
        <4>1. ns[i] = nodes[i + 1] /\ i + 1 \in 2..(endAt - 1)
          BY <2>2, <2>4
        <4>2. QED
          BY <4>1 DEF RingShape
      <3>6. \A i \in (e + 1)..Len(ns) : FreshNode(ns[i])
        <4> TAKE i \in (e + 1)..Len(ns)
        <4>1. CASE i = Len(ns)
          BY <2>3, <2>4, <4>1
        <4>2. CASE i # Len(ns)
          <5>1. ns[i] = nodes[i + 1] /\ i + 1 \in (endAt + 1)..Len(nodes)
            BY <2>2, <2>4, <4>2
          <5>2. QED
            BY <5>1 DEF RingShape
        <4>3. QED
          BY <4>1, <4>2
      <3>7. QED
        BY <2>4, <3>1, <3>3, <3>4, <3>5, <3>6 DEF RingShape
    <2>6. FlattenSeq(ItemsOf(ns, e)) = FlattenSeq(ItemsOf(nodes, endAt))
      <3>1. ItemsOf(ns, e) = ItemsOf(Tail(nodes), e)
        <4>1. \A i \in 1..e : ns[i].items = Tail(nodes)[i].items
          BY <2>2, <2>4
        <4>2. QED
          BY <2>2, <4>1, ItemsSame
      <3>2. FlattenSeq(ItemsOf(nodes, endAt)) = nodes[1].items \o FlattenSeq(ItemsOf(Tail(nodes), e))
        BY <2>2, ItemsFirst
      <3>3. nodes[1].items = <<>>
        BY <1>2 DEF Advances, EmptyNode
      <3>4. FlattenSeq(ItemsOf(Tail(nodes), e)) \in Seq(Nat)
        <4>1. Tail(nodes) \in Seq(Nodes) /\ e <= Len(Tail(nodes))
          BY <2>2
        <4>2. QED
          BY <2>2, <4>1, ItemsTypes
      <3>5. <<>> \o FlattenSeq(ItemsOf(Tail(nodes), e)) = FlattenSeq(ItemsOf(Tail(nodes), e))
        BY <3>4
      <3>6. QED
        BY <3>1, <3>2, <3>3, <3>5
    <2>7. QED
      BY <2>1, <2>5, <2>6
  <1>3. QED
    BY <1>1, <1>2

\* An empty ring.
LEMMA RingInit_Inv == RingInit => RingInv
  <1> SUFFICES ASSUME RingInit PROVE RingInv
    OBVIOUS
  <1> DEFINE n == Node(InitialLength, 0, <<>>)
  <1>1. n \in Nodes /\ Until(n) < n.length
    BY RingAssumption DEF Node, Nodes, Until
  <1>2. nodes = <<n>> /\ endAt = 1
    BY DEF RingInit
  <1> HIDE DEF n
  <1>3. RingShape(nodes, endAt)
    BY <1>1, <1>2 DEF RingShape
  <1>4. InOrder
    <2>1. ItemsOf(nodes, 1) = Append(<<>>, <<>>)
      BY <1>2 DEF ItemsOf, RingInit, Node
    <2>2. FlattenSeq(Append(<<>>, <<>>)) = FlattenSeq(<<>>) \o <<>>
      <3>1. <<>> \in Seq(Seq(Nat)) /\ <<>> \in Seq(Nat)
        OBVIOUS
      <3>2. QED
        BY <3>1, FlattenAppend
    <2>3. FlattenSeq(<<>>) = <<>>
      BY DEF FlattenSeq
    <2>4. <<>> \o (<<>> \o <<>>) = [i \in 1..0 |-> i]
      OBVIOUS
    <2>5. QED
      BY <1>2, <2>1, <2>2, <2>3, <2>4 DEF InOrder, RingInit
  <1>5. QED
    BY <1>3, <1>4 DEF RingInv, RingInit

\* dequeue gives what is first in the ring.
LEMMA DequeueElem_Inv == RingInv /\ DequeueElem => RingInv'
  <1> SUFFICES ASSUME RingInv, DequeueElem PROVE RingInv'
    OBVIOUS
  <1> DEFINE ns == Advanced
             e == EndAdvanced
             d == e - 1
             n == ns[1]
             rest == FlattenSeq(ItemsOf(Tail(ns), d))
  <1>1. /\ RingShape(ns, e)
        /\ FlattenSeq(ItemsOf(ns, e)) = FlattenSeq(ItemsOf(nodes, endAt))
    BY AdvanceKeeps DEF RingInv
  <1>2. /\ ~EmptyNode(n)
        /\ nodes' = [ns EXCEPT ![1].from = @ + 1, ![1].items = Tail(@)]
        /\ endAt' = e
        /\ dequeued' = Append(dequeued, Head(n.items))
        /\ enqueued' = enqueued
    BY DEF DequeueElem
  <1> HIDE DEF ns, e
  <1>3. /\ ns \in Seq(Nodes) /\ Len(ns) \in Nat /\ 1 \in 1..Len(ns) /\ ns # <<>>
        /\ e \in 1..Len(ns) /\ d \in Nat /\ d + 1 = e /\ d < Len(ns) /\ d <= Len(Tail(ns))
        /\ Tail(ns) \in Seq(Nodes)
    BY <1>1 DEF RingShape
  <1>4. n \in Nodes /\ n.items \in Seq(Nat) /\ n.items # <<>> /\ n.from \in Nat /\ n.length \in Nat \ {0}
    BY <1>2, <1>3, NodeAt DEF EmptyNode
  <1> DEFINE m == [n EXCEPT !.from = @ + 1, !.items = Tail(@)]
  <1>5. /\ m \in Nodes /\ m.items = Tail(n.items) /\ Until(m) = Until(n) /\ m.length = n.length
    <2>1. Tail(n.items) \in Seq(Nat) /\ Len(Tail(n.items)) = Len(n.items) - 1
      BY <1>4
    <2>2. Len(n.items) \in Nat
      BY <1>4
    <2>3. m \in Nodes /\ m.from = n.from + 1 /\ m.items = Tail(n.items) /\ m.length = n.length
      <3>1. n.from + 1 \in Nat
        BY <1>4
      <3> HIDE DEF n
      <3>2. QED
        BY <1>4, <2>1, <3>1, NodeTaken, Zenon
    <2> HIDE DEF m, n
    <2>4. QED
      BY <1>4, <2>1, <2>2, <2>3 DEF Until
  <1> HIDE DEF m, d
  <1>6. nodes' = [ns EXCEPT ![1] = m]
    BY <1>2, <1>3, <1>4 DEF m
  <1>7. /\ nodes' \in Seq(Nodes) /\ Len(nodes') = Len(ns) /\ nodes'[1] = m
        /\ \A i \in 2..Len(ns) : nodes'[i] = ns[i]
    BY <1>3, <1>5, <1>6
  <1>8. RingShape(nodes', endAt')
    <2>1. \A i \in 1..(e - 1) : Until(nodes'[i]) = nodes'[i].length
      <3> TAKE i \in 1..(e - 1)
      <3>1. Until(ns[i]) = ns[i].length
        BY <1>1 DEF RingShape
      <3>2. i \in 2..Len(ns) \/ i = 1
        BY <1>3
      <3>3. QED
        BY <1>5, <1>7, <3>1, <3>2
    <2>2. Until(nodes'[e]) < nodes'[e].length
      <3>1. Until(ns[e]) < ns[e].length
        BY <1>1 DEF RingShape
      <3>2. e \in 2..Len(ns) \/ e = 1
        BY <1>3
      <3>3. QED
        BY <1>5, <1>7, <3>1, <3>2
    <2>3. \A i \in 2..(e - 1) : ~EmptyNode(nodes'[i])
      <3> TAKE i \in 2..(e - 1)
      <3>1. nodes'[i] = ns[i]
        BY <1>3, <1>7
      <3>2. QED
        BY <1>1, <3>1 DEF RingShape
    <2>4. \A i \in (e + 1)..Len(ns) : FreshNode(nodes'[i])
      <3> TAKE i \in (e + 1)..Len(ns)
      <3>1. nodes'[i] = ns[i]
        BY <1>3, <1>7
      <3>2. QED
        BY <1>1, <3>1 DEF RingShape
    <2>5. QED
      BY <1>2, <1>3, <1>7, <2>1, <2>2, <2>3, <2>4 DEF RingShape
  <1>9. FlattenSeq(ItemsOf(ns, e)) = n.items \o rest
    BY <1>3, ItemsFirst
  <1>10. FlattenSeq(ItemsOf(nodes', endAt')) = Tail(n.items) \o rest
    <2>1. FlattenSeq(ItemsOf(nodes', d + 1)) = nodes'[1].items \o FlattenSeq(ItemsOf(Tail(nodes'), d))
      BY <1>3, <1>7, ItemsFirst
    <2>2. Tail(nodes') = Tail(ns)
      BY <1>3, <1>6
    <2>3. QED
      BY <1>2, <1>3, <1>5, <1>7, <2>1, <2>2
  <1>11. rest \in Seq(Nat)
    BY <1>3, ItemsTypes
  <1>12. InOrder'
    <2> HIDE DEF rest, n
    <2>1. dequeued \in Seq(Nat)
      BY DEF RingInv
    <2>2. Append(dequeued, Head(n.items)) \o (Tail(n.items) \o rest) = dequeued \o (n.items \o rest)
      <3>1. n.items = <<Head(n.items)>> \o Tail(n.items) /\ Head(n.items) \in Nat /\ Tail(n.items) \in Seq(Nat)
        BY <1>4
      <3> DEFINE h == Head(n.items)
                 t == Tail(n.items)
      <3> HIDE DEF h, t
      <3>2. Append(dequeued, h) \o (t \o rest) = dequeued \o ((<<h>> \o t) \o rest)
        <4>1. h \in Nat /\ t \in Seq(Nat) /\ <<h>> \in Seq(Nat)
          BY <3>1 DEF h, t
        <4>2. t \o rest \in Seq(Nat)
          BY <1>11, <4>1, Associative
        <4>3. Append(dequeued, h) \o (t \o rest) = dequeued \o (<<h>> \o (t \o rest))
          BY <2>1, <4>1, <4>2, Associative
        <4>4. <<h>> \o (t \o rest) = (<<h>> \o t) \o rest
          BY <1>11, <4>1, Associative, SMTT(30)
        <4>5. QED
          BY <4>3, <4>4
      <3>3. QED
        BY <3>1, <3>2 DEF h, t
    <2>3. QED
      BY <1>1, <1>2, <1>9, <1>10, <2>2 DEF RingInv, InOrder
  <1>13. Head(n.items) \in Nat
    BY <1>4
  <1>14. QED
    BY <1>2, <1>8, <1>12, <1>13 DEF RingInv

\* Asking moves no element.
LEMMA Ask_Inv == RingInv /\ Ask => RingInv'
  <1> SUFFICES ASSUME RingInv, Ask PROVE RingInv'
    OBVIOUS
  <1>1. /\ RingShape(Advanced, EndAdvanced)
        /\ FlattenSeq(ItemsOf(Advanced, EndAdvanced)) = FlattenSeq(ItemsOf(nodes, endAt))
    BY AdvanceKeeps DEF RingInv
  <1>2. nodes' = Advanced /\ endAt' = EndAdvanced /\ UNCHANGED <<enqueued, dequeued>>
    BY DEF Ask
  <1>3. QED
    BY <1>1, <1>2 DEF RingInv, InOrder

\* The least of two lengths.
LEMMA LengthOfNext ==
  ASSUME NEW n \in Nat \ {0}
  PROVE  Min({MaximumLength, 4 * n}) \in Nat \ {0}
  <1> DEFINE S == {MaximumLength, 4 * n}
  <1>1. \E x \in S : \A y \in S : x <= y
    <2>1. MaximumLength <= 4 * n \/ 4 * n <= MaximumLength
      BY RingAssumption
    <2>2. QED
      BY <2>1, RingAssumption
  <1>2. Min(S) \in S
    BY <1>1 DEF Min
  <1>3. QED
    BY <1>2, RingAssumption

\* enqueue adds an element behind all others.
LEMMA EnqueueElem_Inv == RingInv /\ EnqueueElem => RingInv'
  <1> SUFFICES ASSUME RingInv, EnqueueElem PROVE RingInv'
    OBVIOUS
  <1> DEFINE x == enqueued + 1
             added == [nodes EXCEPT ![endAt] = With(@, x)]
             n == Following(endAt)
             d == endAt - 1
             m == With(nodes[endAt], x)
  <1>1. /\ nodes \in Seq(Nodes) /\ endAt \in 1..Len(nodes) /\ Len(nodes) \in Nat
        /\ enqueued \in Nat /\ x \in Nat /\ dequeued \in Seq(Nat)
        /\ d \in Nat /\ d + 1 = endAt /\ d < Len(nodes)
    BY DEF RingInv, RingShape
  <1>2. /\ nodes[endAt] \in Nodes /\ nodes[endAt].items \in Seq(Nat)
        /\ nodes[endAt].length \in Nat \ {0} /\ nodes[endAt].from \in Nat
        /\ Until(nodes[endAt]) < nodes[endAt].length
    BY <1>1, NodeAt DEF RingInv, RingShape
  <1>3. /\ m \in Nodes /\ m.items = Append(nodes[endAt].items, x) /\ m.from = nodes[endAt].from
        /\ m.length = nodes[endAt].length /\ Until(m) = Until(nodes[endAt]) + 1
        /\ m.items # <<>> /\ Until(m) <= m.length
    <2>1. /\ m \in Nodes /\ m.items = Append(nodes[endAt].items, x) /\ m.from = nodes[endAt].from
          /\ m.length = nodes[endAt].length
      <3> DEFINE k == nodes[endAt]
      <3>1. k \in Nodes
        BY <1>2
      <3> HIDE DEF k, x
      <3>2. QED
        BY <1>1, <3>1, WithIs DEF k
    <2>2. Len(m.items) = Len(nodes[endAt].items) + 1 /\ Len(nodes[endAt].items) \in Nat /\ m.items # <<>>
      BY <1>1, <1>2, <2>1
    <2> HIDE DEF m, x, d, n, added
    <2>3. Until(m) = Until(nodes[endAt]) + 1
      <3>1. nodes[endAt].from \in Nat /\ m.from = nodes[endAt].from
        BY <1>2, <2>1
      <3>2. QED
        BY <2>2, <3>1 DEF Until
    <2>4. Until(nodes[endAt]) \in Nat
      BY <1>2, <2>2 DEF Until
    <2>5. QED
      BY <1>2, <2>1, <2>2, <2>3, <2>4
  <1> HIDE DEF m, x, d
  <1>4. /\ added \in Seq(Nodes) /\ Len(added) = Len(nodes) /\ added[endAt] = m
        /\ \A i \in 1..Len(nodes) : i # endAt => added[i] = nodes[i]
    BY <1>1, <1>3 DEF m
  <1>5. /\ enqueued' = x /\ dequeued' = dequeued
        /\ IF Until(added[endAt]) < added[endAt].length
             THEN nodes' = added /\ endAt' = endAt
             ELSE IF FreshNode(added[n])
               THEN nodes' = [added EXCEPT ![n] = Reset(@)] /\ endAt' = n
               ELSE nodes' = Reserved(added) /\ endAt' = endAt + 1
    BY DEF EnqueueElem, x
  <1> HIDE DEF added, n
  <1>6. FlattenSeq(ItemsOf(added, endAt)) = Append(FlattenSeq(ItemsOf(nodes, endAt)), x)
    <2>1. FlattenSeq(ItemsOf(nodes, endAt)) = FlattenSeq(ItemsOf(nodes, d)) \o nodes[endAt].items
      BY <1>1, ItemsLast
    <2>2. FlattenSeq(ItemsOf(added, endAt)) = FlattenSeq(ItemsOf(added, d)) \o added[endAt].items
      BY <1>1, <1>4, ItemsLast
    <2>3. ItemsOf(added, d) = ItemsOf(nodes, d)
      <3>1. \A i \in 1..d : added[i].items = nodes[i].items
        BY <1>1, <1>4
      <3>2. QED
        BY <1>1, <3>1, ItemsSame
    <2>4. FlattenSeq(ItemsOf(nodes, d)) \in Seq(Nat)
      BY <1>1, ItemsTypes
    <2> DEFINE f == FlattenSeq(ItemsOf(nodes, d))
               its == nodes[endAt].items
    <2> HIDE DEF f, its
    <2>5. f \o Append(its, x) = Append(f \o its, x)
      <3>1. f \in Seq(Nat) /\ its \in Seq(Nat)
        BY <1>2, <2>4 DEF f, its
      <3>2. x \in Nat
        BY <1>1
      <3>3. QED
        BY <3>1, <3>2, AppendJoined
    <2>6. QED
      BY <1>3, <1>4, <2>1, <2>2, <2>3, <2>5 DEF f, its
  <1>7. dequeued \o Append(FlattenSeq(ItemsOf(nodes, endAt)), x) = [i \in 1..x |-> i]
    <2> DEFINE f == FlattenSeq(ItemsOf(nodes, endAt))
    <2>1. f \in Seq(Nat)
      BY <1>1, ItemsTypes
    <2>2. dequeued \o f = [i \in 1..enqueued |-> i]
      BY DEF RingInv, InOrder
    <2> HIDE DEF f
    <2>3. dequeued \o Append(f, x) = Append(dequeued \o f, x)
      BY <1>1, <2>1, AppendJoined
    <2>4. Append([i \in 1..enqueued |-> i], x) = [i \in 1..x |-> i]
      BY <1>1 DEF x
    <2>5. QED
      BY <2>2, <2>3, <2>4 DEF f
  <1>8. \A i \in 1..(endAt - 1) : /\ added[i] = nodes[i] /\ Until(added[i]) = added[i].length
                                  /\ i # 1 => ~EmptyNode(added[i])
    <2> TAKE i \in 1..(endAt - 1)
    <2>1. added[i] = nodes[i]
      BY <1>1, <1>4
    <2>2. i # 1 => i \in 2..(endAt - 1)
      OBVIOUS
    <2>3. QED
      BY <2>1, <2>2 DEF RingInv, RingShape
  <1>9. \A i \in (endAt + 1)..Len(nodes) : added[i] = nodes[i] /\ FreshNode(added[i])
    <2> TAKE i \in (endAt + 1)..Len(nodes)
    <2>1. added[i] = nodes[i]
      BY <1>1, <1>4
    <2>2. QED
      BY <2>1 DEF RingInv, RingShape
  <1>10. ~EmptyNode(added[endAt])
    BY <1>3, <1>4 DEF EmptyNode
  \* The last node has room left.
  <1>11. CASE Until(added[endAt]) < added[endAt].length
    <2>1. nodes' = added /\ endAt' = endAt
      BY <1>5, <1>11
    <2>2. RingShape(nodes', endAt')
      BY <1>1, <1>4, <1>8, <1>9, <1>11, <2>1 DEF RingShape
    <2>3. InOrder'
      BY <1>5, <1>6, <1>7, <2>1 DEF InOrder
    <2>4. QED
      BY <1>1, <1>5, <2>2, <2>3 DEF RingInv
  \* It is full now: the end moves to the node behind it, `new`.
  <1>12. CASE ~(Until(added[endAt]) < added[endAt].length)
    <2> SUFFICES /\ nodes' \in Seq(Nodes) /\ Len(nodes') >= Len(nodes) /\ endAt' = endAt + 1
                 /\ endAt + 1 <= Len(nodes')
                 /\ \A i \in 1..endAt : nodes'[i] = added[i]
                 /\ \A i \in (endAt + 1)..Len(nodes') : FreshNode(nodes'[i])
      <3>1. \A i \in 1..endAt : Until(nodes'[i]) = nodes'[i].length
        <4>1. Until(added[endAt]) = added[endAt].length
          <5>1. Until(m) \in Int /\ m.length \in Int
            <6>1. Len(m.items) \in Nat /\ m.from \in Nat /\ m.length \in Nat
              BY <1>2, <1>3
            <6>2. QED
              BY <6>1 DEF Until
          <5>2. QED
            BY <1>3, <1>4, <1>12, <5>1
        <4>2. \A i \in 1..endAt : i = endAt \/ i \in 1..(endAt - 1)
          BY <1>1
        <4>3. QED
          BY <1>8, <4>1, <4>2
      <3>2. \A i \in 2..endAt : ~EmptyNode(nodes'[i])
        <4>1. \A i \in 2..endAt : i \in 1..endAt /\ (i = endAt \/ (i \in 1..(endAt - 1) /\ i # 1))
          BY <1>1
        <4>2. QED
          BY <1>8, <1>10, <4>1
      <3>3. FreshNode(nodes'[endAt + 1]) /\ endAt + 1 \in 1..Len(nodes')
        BY <1>1
      <3>4. nodes'[endAt + 1].items = <<>> /\ Until(nodes'[endAt + 1]) < nodes'[endAt + 1].length
        <4>1. nodes'[endAt + 1].length \in Nat \ {0}
          BY <3>3, NodeAt
        <4>2. QED
          BY <3>3, <4>1 DEF FreshNode, EmptyNode, Until
      <3>5. RingShape(nodes', endAt')
        <4>1. (endAt + 1) - 1 = endAt
          BY <1>1
        <4>2. \A i \in (endAt + 2)..Len(nodes') : FreshNode(nodes'[i])
          <5> TAKE i \in (endAt + 2)..Len(nodes')
          <5>1. Len(nodes') \in Nat
            OBVIOUS
          <5>2. i \in (endAt + 1)..Len(nodes')
            BY <1>1, <5>1
          <5>3. QED
            BY <5>2
        <4>3. /\ nodes' \in Seq(Nodes) /\ endAt' \in 1..Len(nodes')
              /\ endAt' = endAt + 1 /\ endAt' - 1 = endAt /\ endAt' + 1 = endAt + 2
          BY <1>1, <3>3
        <4>4. QED
          BY <3>1, <3>2, <3>4, <4>2, <4>3 DEF RingShape
      <3>6. FlattenSeq(ItemsOf(nodes', endAt')) = FlattenSeq(ItemsOf(added, endAt))
        <4>1. FlattenSeq(ItemsOf(nodes', endAt + 1))
                = FlattenSeq(ItemsOf(nodes', endAt)) \o nodes'[endAt + 1].items
          <5>1. endAt \in Nat /\ endAt < Len(nodes')
            BY <1>1, <3>3
          <5>2. QED
            BY <5>1, ItemsLast
        <4>2. ItemsOf(nodes', endAt) = ItemsOf(added, endAt)
          BY <1>1, ItemsSame
        <4>3. FlattenSeq(ItemsOf(added, endAt)) \in Seq(Nat)
          BY <1>1, <1>4, ItemsTypes
        <4>4. FlattenSeq(ItemsOf(added, endAt)) \o <<>> = FlattenSeq(ItemsOf(added, endAt))
          BY <4>3
        <4>5. QED
          BY <3>4, <4>1, <4>2, <4>4
      <3>7. QED
        BY <1>1, <1>5, <1>6, <1>7, <3>5, <3>6 DEF RingInv, InOrder
    <2>1. CASE endAt < Len(nodes)
      <3>1. n = endAt + 1 /\ n \in (endAt + 1)..Len(nodes) /\ n \in 1..Len(nodes)
        BY <1>1, <2>1 DEF n, Following
      <3>2. FreshNode(added[n])
        BY <1>9, <3>1
      <3>3. nodes' = [added EXCEPT ![n] = Reset(@)] /\ endAt' = n
        BY <1>5, <1>12, <3>2
      <3>4. Reset(added[n]) \in Nodes /\ FreshNode(Reset(added[n]))
        <4>1. added[n].length \in Nat \ {0}
          BY <1>4, <3>1, NodeAt
        <4>2. QED
          BY <4>1 DEF Reset, Node, Nodes, FreshNode, EmptyNode
      <3>5. /\ nodes' \in Seq(Nodes) /\ Len(nodes') = Len(nodes) /\ nodes'[n] = Reset(added[n])
            /\ \A i \in 1..Len(nodes) : i # n => nodes'[i] = added[i]
        <4> DEFINE r == Reset(added[n])
        <4>1. nodes' = [added EXCEPT ![n] = r] /\ r \in Nodes
          BY <3>3, <3>4
        <4> HIDE DEF r
        <4>2. QED
          BY <1>4, <3>1, <4>1 DEF r
      <3>6. \A i \in (endAt + 1)..Len(nodes') : FreshNode(nodes'[i])
        <4> TAKE i \in (endAt + 1)..Len(nodes')
        <4>1. i = n \/ nodes'[i] = added[i]
          BY <1>1, <3>5
        <4>2. QED
          BY <1>9, <3>4, <3>5, <4>1
      <3>7. \A i \in 1..endAt : nodes'[i] = added[i]
        BY <1>1, <3>1, <3>5
      <3>8. QED
        BY <1>1, <3>1, <3>3, <3>5, <3>6, <3>7
    <2>2. CASE endAt = Len(nodes)
      <3>1. n = 1 /\ 1 \in 1..Len(nodes)
        BY <1>1, <2>2 DEF n, Following
      <3>2. ~FreshNode(added[1])
        <4>1. CASE endAt = 1
          BY <1>10, <4>1 DEF FreshNode
        <4>2. CASE endAt # 1
          <5>1. Until(added[1]) = added[1].length
            BY <1>1, <1>8, <4>2
          <5>2. added[1].length \in Nat \ {0} /\ added[1].items \in Seq(Nat)
            BY <1>4, <3>1, NodeAt
          <5>3. SUFFICES ASSUME FreshNode(added[1]) PROVE FALSE
            OBVIOUS
          <5>4. QED
            BY <5>1, <5>2, <5>3 DEF FreshNode, EmptyNode, Until
        <4>3. QED
          BY <4>1, <4>2
      <3> DEFINE new == Node(Min({MaximumLength, 4 * added[endAt].length}), 0, <<>>)
      <3>3. nodes' = InsertAt(added, endAt + 1, new) /\ endAt' = endAt + 1
        BY <1>5, <1>12, <3>1, <3>2 DEF Reserved
      <3>4. new \in Nodes /\ FreshNode(new)
        <4>1. Min({MaximumLength, 4 * added[endAt].length}) \in Nat \ {0}
          BY <1>2, <1>3, <1>4, LengthOfNext
        <4>2. QED
          BY <4>1 DEF Node, Nodes, FreshNode, EmptyNode
      <3> HIDE DEF new
      <3>5. nodes' = SubSeq(added, 1, endAt) \o <<new>> \o SubSeq(added, endAt + 1, endAt)
        BY <1>1, <1>4, <2>2, <3>3 DEF InsertAt
      <3>6. SubSeq(added, 1, endAt) = added /\ SubSeq(added, endAt + 1, endAt) = <<>>
        BY <1>1, <1>4, <2>2
      <3>7. nodes' = Append(added, new)
        <4>1. nodes' = (added \o <<new>>) \o <<>>
          BY <3>5, <3>6
        <4>2. added \in Seq(Nodes) /\ new \in Nodes /\ <<new>> \in Seq(Nodes)
          BY <1>4, <3>4
        <4>3. added \o <<new>> \in Seq(Nodes)
          BY <4>2
        <4>4. (added \o <<new>>) \o <<>> = added \o <<new>>
          BY <4>3
        <4>5. QED
          BY <4>1, <4>2, <4>4, Associative
      <3>8. /\ nodes' \in Seq(Nodes) /\ Len(nodes') = endAt + 1
            /\ nodes'[endAt + 1] = new /\ \A i \in 1..endAt : nodes'[i] = added[i]
        BY <1>1, <1>4, <2>2, <3>4, <3>7
      <3>9. \A i \in (endAt + 1)..Len(nodes') : FreshNode(nodes'[i])
        <4>1. (endAt + 1)..Len(nodes') = {endAt + 1}
          BY <1>1, <3>8
        <4>2. QED
          BY <3>4, <3>8, <4>1
      <3>10. Len(nodes') >= Len(nodes) /\ endAt + 1 <= Len(nodes')
        BY <1>1, <2>2, <3>8
      <3>11. QED
        BY <3>3, <3>8, <3>9, <3>10
    <2>3. QED
      BY <1>1, <2>1, <2>2
  <1>13. QED
    BY <1>11, <1>12

\* Every step keeps the invariant.
LEMMA RingNext_Inv == RingInv /\ [RingNext]_ringVars => RingInv'
  <1> SUFFICES ASSUME RingInv, [RingNext]_ringVars PROVE RingInv'
    OBVIOUS
  <1>1. CASE EnqueueElem
    BY <1>1, EnqueueElem_Inv
  <1>2. CASE DequeueElem
    BY <1>2, DequeueElem_Inv
  <1>3. CASE Ask
    BY <1>3, Ask_Inv
  <1>4. CASE UNCHANGED ringVars
    BY <1>4 DEF ringVars, RingInv, InOrder
  <1>5. QED
    BY <1>1, <1>2, <1>3, <1>4 DEF RingNext

\* UnrolledRing is a queue, whatever the sizes of its nodes and however often
\* they were emptied and filled: elements come out once each and in order, and
\* the ring says that it is empty exactly when it is.
THEOREM RingIsQueueHolds == RingSpec => []RingIsQueue
  <1>1. RingInv => RingIsQueue
    BY EmptyRing DEF RingInv, RingIsQueue, RingShape, InOrder, Contents, ItemsOf
  <1>2. QED
    BY <1>1, RingInit_Inv, RingNext_Inv, PTL DEF RingSpec

-----------------------------------------------------------------------------
(***************************************************************************)
(* BinaryHeap: the element at the root is a least one. The argument: fixUp *)
(* keeps the array ordered but for the one element that rises, and fixDown *)
(* but for the one that sinks, and each exchange keeps the elements.       *)
(***************************************************************************)

Arrays == Seq(Keys)

\* The parent's place.
LEMMA Halves ==
  ASSUME NEW i \in Nat, i > 1
  PROVE  /\ i \div 2 \in Nat /\ i \div 2 >= 1 /\ i \div 2 < i
         /\ i = 2 * (i \div 2) \/ i = 2 * (i \div 2) + 1
  OBVIOUS

\* No element is less than its parent.
Ordered(a) == \A i \in 2..Len(a) : a[i \div 2] <= a[i]

\* The same, except that the element at p may be less than its parent; that it
\* may rise, its parent is not greater than its children.
OrderedBut(a, p) ==
  /\ \A i \in 2..Len(a) : i # p => a[i \div 2] <= a[i]
  /\ \A i \in 2..Len(a) : i \div 2 = p /\ p > 1 => a[p \div 2] <= a[i]

\* The same for an element at p that may be greater than its children.
OrderedAbove(a, p) ==
  /\ \A i \in 2..Len(a) : i \div 2 # p => a[i \div 2] <= a[i]
  /\ \A i \in 2..Len(a) : i \div 2 = p /\ p > 1 => a[p \div 2] <= a[i]

\* The places that hold k.
PlacesOf(a, k) == {i \in 1..Len(a) : a[i] = k}

\* a holds each element as often as b.
SameElements(a, b) ==
  \A k \in Keys : /\ IsFiniteSet(PlacesOf(a, k)) /\ IsFiniteSet(PlacesOf(b, k))
                  /\ Cardinality(PlacesOf(a, k)) = Cardinality(PlacesOf(b, k))

\* Places are finitely many.
LEMMA PlacesFinite ==
  ASSUME NEW a \in Arrays, NEW k
  PROVE  IsFiniteSet(PlacesOf(a, k)) /\ Cardinality(PlacesOf(a, k)) \in Nat
  <1>1. IsFiniteSet(1..Len(a))
    BY FS_Interval DEF Arrays
  <1>2. PlacesOf(a, k) \in SUBSET (1..Len(a))
    BY DEF PlacesOf
  <1>3. QED
    BY <1>1, <1>2, FS_Subset, FS_CardinalityType

\* Elements are numbers.
LEMMA ElementsAre ==
  ASSUME NEW a \in Arrays
  PROVE  Len(a) \in Nat /\ \A i \in 1..Len(a) : a[i] \in Keys /\ a[i] \in Int
  <1>1. \A i \in 1..Len(a) : a[i] \in Keys
    BY DEF Arrays
  <1>2. Keys \subseteq Int
    BY HeapAssumption
  <1>3. Len(a) \in Nat
    BY DEF Arrays
  <1>4. \A i \in 1..Len(a) : a[i] \in Int
    BY <1>1, <1>2, Zenon
  <1>5. QED
    BY <1>1, <1>3, <1>4, Zenon

\* An exchange of two elements.
LEMMA SwapIs ==
  ASSUME NEW a \in Arrays, NEW i \in 1..Len(a), NEW j \in 1..Len(a)
  PROVE  /\ Swap(a, i, j) \in Arrays /\ Len(Swap(a, i, j)) = Len(a)
         /\ \A x \in 1..Len(a) :
              Swap(a, i, j)[x] = IF x = i THEN a[j] ELSE IF x = j THEN a[i] ELSE a[x]
  BY DEF Swap, Arrays

\* It loses nothing and doubles nothing.
LEMMA SwapKeeps ==
  ASSUME NEW a \in Arrays, NEW i \in 1..Len(a), NEW j \in 1..Len(a)
  PROVE  SameElements(Swap(a, i, j), a)
  <1> DEFINE b == Swap(a, i, j)
  <1>1. /\ b \in Arrays /\ Len(b) = Len(a)
        /\ \A x \in 1..Len(a) : b[x] = IF x = i THEN a[j] ELSE IF x = j THEN a[i] ELSE a[x]
    BY SwapIs
  <1> HIDE DEF b
  <1> SUFFICES ASSUME NEW k \in Keys
               PROVE  Cardinality(PlacesOf(a, k)) = Cardinality(PlacesOf(b, k))
    BY <1>1, PlacesFinite DEF SameElements, b
  <1> DEFINE f == [x \in PlacesOf(a, k) |-> IF x = i THEN j ELSE IF x = j THEN i ELSE x]
  <1>2. f \in Bijection(PlacesOf(a, k), PlacesOf(b, k))
    <2>1. \A x \in PlacesOf(a, k) : f[x] \in PlacesOf(b, k)
      BY <1>1 DEF PlacesOf
    <2>2. \A x, y \in PlacesOf(a, k) : f[x] = f[y] => x = y
      OBVIOUS
    <2>3. \A y \in PlacesOf(b, k) : \E x \in PlacesOf(a, k) : f[x] = y
      <3> TAKE y \in PlacesOf(b, k)
      <3> DEFINE x == IF y = i THEN j ELSE IF y = j THEN i ELSE y
      <3>1. x \in PlacesOf(a, k)
        BY <1>1 DEF PlacesOf
      <3>2. f[x] = y
        BY <3>1
      <3>3. QED
        BY <3>1, <3>2
    <2>4. f \in Injection(PlacesOf(a, k), PlacesOf(b, k))
      BY <2>1, <2>2 DEF Injection, IsInjective
    <2>5. f \in Surjection(PlacesOf(a, k), PlacesOf(b, k))
      BY <2>1, <2>3 DEF Surjection
    <2>6. QED
      BY <2>4, <2>5 DEF Bijection
  <1>3. QED
    BY <1>2, PlacesFinite, FS_Bijection DEF ExistsBijection

-----------------------------------------------------------------------------
(* fixUp. *)

Rounds == [arr : Arrays, pos : Nat]

\* A round keeps the order but for the place that it has come to.
LEMMA RiseKeeps ==
  ASSUME NEW s \in Rounds, s.pos \in 1..Len(s.arr), OrderedBut(s.arr, s.pos)
  PROVE  /\ Rise(s) \in Rounds /\ Len(Rise(s).arr) = Len(s.arr)
         /\ Rise(s).pos \in 1..Len(s.arr)
         /\ OrderedBut(Rise(s).arr, Rise(s).pos)
         /\ SameElements(Rise(s).arr, s.arr)
         /\ Rise(s) = s \/ Rise(s).pos < s.pos
         /\ Rise(s) = s => Ordered(s.arr)
  <1> DEFINE a == s.arr
             p == s.pos
             q == p \div 2
             b == Swap(a, p, q)
  <1>1. a \in Arrays /\ p \in 1..Len(a) /\ Len(a) \in Nat /\ OrderedBut(a, p) /\ p \in Nat
    BY DEF Rounds, Arrays
  <1>2. \A i \in 1..Len(a) : a[i] \in Int
    <2> HIDE DEF a
    <2>1. QED
      BY <1>1, ElementsAre
  <1>3. CASE ~(p > 1 /\ a[q] > a[p])
    <2>1. Rise(s) = s
      BY <1>3 DEF Rise
    <2>2. Ordered(a)
      <3> SUFFICES ASSUME NEW i \in 2..Len(a) PROVE a[i \div 2] <= a[i]
        BY DEF Ordered
      <3>1. CASE i # p
        BY <1>1, <3>1 DEF OrderedBut
      <3>2. CASE i = p
        <4>1. q \in 1..Len(a) /\ p > 1
          BY <1>1, <3>2, Halves
        <4>2. QED
          BY <1>1, <1>2, <1>3, <3>2, <4>1
      <3>3. QED
        BY <3>1, <3>2
    <2>3. SameElements(a, a)
      BY <1>1, PlacesFinite DEF SameElements
    <2>4. QED
      BY <1>1, <2>1, <2>2, <2>3
  <1>4. CASE p > 1 /\ a[q] > a[p]
    <2>1. Rise(s) = [arr |-> b, pos |-> q]
      BY <1>4 DEF Rise
    <2>2. q \in 1..Len(a) /\ q < p /\ q \in Nat /\ q >= 1 /\ (p = 2 * q \/ p = 2 * q + 1)
      <3> HIDE DEF a, p
      <3>1. p \in Nat /\ p > 1
        BY <1>1, <1>4
      <3>2. q \in Nat /\ q >= 1 /\ q < p /\ (p = 2 * q \/ p = 2 * q + 1)
        BY <3>1, Halves
      <3> HIDE DEF q
      <3>3. QED
        BY <1>1, <3>2
    <2> HIDE DEF a, p, q, b
    <2>3. /\ b \in Arrays /\ Len(b) = Len(a)
          /\ \A x \in 1..Len(a) : b[x] = IF x = p THEN a[q] ELSE IF x = q THEN a[p] ELSE a[x]
      BY <1>1, <2>2, SwapIs DEF b
    <2>4. OrderedBut(b, q)
      <3> SUFFICES ASSUME NEW i \in 2..Len(a)
                   PROVE  /\ i # q => b[i \div 2] <= b[i]
                          /\ i \div 2 = q /\ q > 1 => b[q \div 2] <= b[i]
        BY <2>3 DEF OrderedBut
      <3> DEFINE h == i \div 2
                 r == q \div 2
      <3>1. h \in 1..Len(a) /\ i \in 1..Len(a) /\ h < i /\ h \in Nat
        BY Halves, <1>1
      <3>2. q > 1 => r \in 1..Len(a) /\ r < q /\ r \in Nat /\ q \in 2..Len(a)
        BY <1>1, <2>2, Halves
      <3>3. i # p => a[h] <= a[i]
        BY <1>1 DEF OrderedBut
      <3>4. h = p => a[q] <= a[i]
        BY <1>1, <1>4 DEF OrderedBut, q
      <3>5. q > 1 => a[r] <= a[q]
        BY <1>1, <2>2, <3>2 DEF OrderedBut
      <3>6. p \div 2 = q
        BY DEF q
      <3> HIDE DEF h, r
      <3>7. i = p => h = q
        BY <3>6 DEF h
      <3>8. i # q => b[h] <= b[i]
        BY <1>1, <1>2, <1>4, <2>2, <2>3, <3>1, <3>3, <3>4, <3>7
      <3>9. h = q /\ q > 1 => b[r] <= b[i]
        BY <1>1, <1>2, <1>4, <2>2, <2>3, <3>1, <3>2, <3>3, <3>5
      <3>10. QED
        BY <3>8, <3>9 DEF h, r
    <2>5. SameElements(b, a)
      BY <1>1, <2>2, SwapKeeps DEF b
    <2>6. QED
      <3>1. Rise(s) # s
        BY <2>1, <2>2 DEF p
      <3>2. Rise(s).arr = b /\ Rise(s).pos = q
        BY <2>1
      <3>3. Rise(s) \in Rounds
        BY <2>1, <2>2, <2>3 DEF Rounds
      <3>4. QED
        BY <2>2, <2>3, <2>4, <2>5, <3>1, <3>2, <3>3 DEF a, p
  <1>5. QED
    BY <1>3, <1>4

\* f is made of n rounds of fixUp's loop, from s on.
IsRising(f, s, n) == f = [i \in 0..n |-> IF i = 0 THEN s ELSE Rise(f[i - 1])]

\* There is such a function.
LEMMA RisingExists ==
  ASSUME NEW s, NEW n \in Nat
  PROVE  \E f : IsRising(f, s, n)
  <1> DEFINE S == {k \in Nat : \E f : IsRising(f, s, k)}
  <1>1. 0 \in S
    <2> DEFINE f == [i \in 0..0 |-> s]
    <2>1. IsRising(f, s, 0)
      BY DEF IsRising
    <2>2. QED
      BY <2>1
  <1>2. ASSUME NEW k \in Nat, k \in S
        PROVE  k + 1 \in S
    <2>1. PICK f : IsRising(f, s, k)
      BY <1>2
    <2> DEFINE g == [i \in 0..(k + 1) |-> IF i = k + 1 THEN Rise(f[k]) ELSE f[i]]
    <2>2. \A i \in 0..k : f[i] = IF i = 0 THEN s ELSE Rise(f[i - 1])
      BY <2>1 DEF IsRising
    <2>3. \A i \in 0..(k + 1) : g[i] = IF i = 0 THEN s ELSE Rise(g[i - 1])
      <3> TAKE i \in 0..(k + 1)
      <3>1. CASE i = k + 1
        <4>1. i - 1 \in 0..(k + 1) /\ i - 1 # k + 1 /\ i - 1 = k /\ i # 0
          BY <3>1
        <4>2. g[i - 1] = f[k] /\ g[i] = Rise(f[k])
          BY <3>1, <4>1
        <4>3. QED
          BY <3>1, <4>1, <4>2
      <3>2. CASE i # k + 1
        <4>1. i \in 0..k /\ g[i] = f[i] /\ (i # 0 => g[i - 1] = f[i - 1])
          BY <3>2
        <4>2. QED
          BY <4>1, <2>2
      <3>3. QED
        BY <3>1, <3>2
    <2>4. IsRising(g, s, k + 1)
      <3>1. g = [i \in 0..(k + 1) |-> g[i]]
        OBVIOUS
      <3> HIDE DEF g
      <3>2. QED
        BY <2>3, <3>1 DEF IsRising
    <2>5. QED
      BY <2>4
  <1>3. Nat \subseteq S
    <2> HIDE DEF S
    <2>1. QED
      BY <1>1, <1>2, SetInduction
  <1>4. QED
    BY <1>3

\* fixUp restores the order, and the array holds what it held.
LEMMA FixUpRestores ==
  ASSUME NEW a \in Arrays, NEW p \in 1..Len(a), OrderedBut(a, p)
  PROVE  /\ FixUp(a, p) \in Arrays /\ Len(FixUp(a, p)) = Len(a)
         /\ Ordered(FixUp(a, p)) /\ SameElements(FixUp(a, p), a)
  <1> DEFINE s == [arr |-> a, pos |-> p]
             f == CHOOSE g : g = [n \in 0..p |->
                    IF n = 0 THEN [arr |-> a, pos |-> p] ELSE Rise(g[n - 1])]
             Q(k) == /\ f[k] \in Rounds /\ f[k].pos \in 1..Len(a)
                     /\ Len(f[k].arr) = Len(a)
                     /\ OrderedBut(f[k].arr, f[k].pos)
                     /\ SameElements(f[k].arr, a)
                     /\ Rise(f[k]) = f[k] \/ f[k].pos + k <= p
             S == {k \in Nat : k <= p => Q(k)}
  <1>1. FixUp(a, p) = f[p].arr
    BY DEF FixUp
  <1>2. p \in Nat /\ s \in Rounds /\ s.arr = a /\ s.pos = p /\ Len(a) \in Nat
    BY DEF Rounds, Arrays
  <1>3. IsRising(f, s, p)
    BY <1>2, RisingExists DEF IsRising
  <1> HIDE DEF f, s
  <1>4. f[0] = s /\ \A k \in Nat : k + 1 <= p => f[k + 1] = Rise(f[k])
    <2>1. \A i \in 0..p : f[i] = IF i = 0 THEN s ELSE Rise(f[i - 1])
      BY <1>3 DEF IsRising
    <2>2. f[0] = s
      BY <1>2, <2>1
    <2>3. ASSUME NEW k \in Nat, k + 1 <= p
          PROVE  f[k + 1] = Rise(f[k])
      <3>1. k + 1 \in 0..p /\ k + 1 # 0 /\ (k + 1) - 1 = k
        BY <1>2, <2>3
      <3>2. QED
        BY <2>1, <3>1
    <2>4. QED
      BY <2>2, <2>3
  <1>5. 0 \in S
    <2>1. SameElements(a, a)
      BY PlacesFinite DEF SameElements
    <2>2. QED
      BY <1>2, <1>4, <2>1
  <1>6. ASSUME NEW k \in Nat, k \in S
        PROVE  k + 1 \in S
    <2> SUFFICES ASSUME k + 1 <= p PROVE Q(k + 1)
      BY <1>6
    <2> DEFINE t == f[k]
               u == Rise(f[k])
    <2>1. Q(k)
      BY <1>2, <1>6
    <2>2. f[k + 1] = u
      BY <1>4
    <2>3. /\ u \in Rounds /\ Len(u.arr) = Len(a) /\ u.pos \in 1..Len(a)
          /\ OrderedBut(u.arr, u.pos)
          /\ SameElements(u.arr, t.arr)
          /\ u = t \/ u.pos < t.pos
      <3>1. t \in Rounds /\ t.pos \in 1..Len(t.arr) /\ OrderedBut(t.arr, t.pos)
        BY <2>1
      <3>2. Len(t.arr) = Len(a)
        BY <2>1
      <3>3. QED
        BY <3>1, <3>2, RiseKeeps
    <2>4. SameElements(u.arr, a)
      BY <2>1, <2>3 DEF SameElements
    <2>5. Rise(u) = u \/ u.pos + (k + 1) <= p
      <3>1. CASE u = t
        BY <3>1
      <3>2. CASE u # t
        <4>1. t.pos + k <= p /\ u.pos < t.pos /\ t.pos \in Nat /\ u.pos \in Nat
          BY <2>1, <2>3, <3>2
        <4>2. QED
          BY <1>2, <4>1
      <3>3. QED
        BY <3>1, <3>2
    <2>6. QED
      BY <2>2, <2>3, <2>4, <2>5
  <1>7. Q(p)
    <2> HIDE DEF Q
    <2>1. Nat \subseteq S
      <3> HIDE DEF S
      <3>1. QED
        BY <1>5, <1>6, SetInduction
    <2>2. QED
      BY <1>2, <2>1
  <1>8. Ordered(f[p].arr)
    <2>1. f[p].pos + p > p
      BY <1>2, <1>7
    <2>2. Rise(f[p]) = f[p]
      BY <1>2, <1>7, <2>1
    <2>3. f[p] \in Rounds /\ f[p].pos \in 1..Len(f[p].arr) /\ OrderedBut(f[p].arr, f[p].pos)
      BY <1>7
    <2>4. QED
      BY <2>2, <2>3, RiseKeeps
  <1>9. QED
    BY <1>1, <1>7, <1>8 DEF Rounds
-----------------------------------------------------------------------------
(* fixDown. *)

\* The child that may rise.
LEMMA LesserChildIs ==
  ASSUME NEW a \in Arrays, NEW p \in 1..Len(a), 2 * p <= Len(a)
  PROVE  /\ LesserChild(a, p) \in 2..Len(a) /\ LesserChild(a, p) \div 2 = p
         /\ LesserChild(a, p) > p
         /\ \A i \in 2..Len(a) : i \div 2 = p => a[LesserChild(a, p)] <= a[i]
  <1> DEFINE c == LesserChild(a, p)
  <1>1. p \in Nat /\ p >= 1 /\ Len(a) \in Nat /\ \A i \in 1..Len(a) : a[i] \in Int
    BY ElementsAre
  <1>2. c \in 2..Len(a) /\ (c = 2 * p \/ c = 2 * p + 1)
    BY <1>1 DEF LesserChild
  <1>3. c \div 2 = p /\ c > p
    <2> HIDE DEF c
    <2>1. QED
      BY <1>1, <1>2
  <1>4. ASSUME NEW i \in 2..Len(a), i \div 2 = p
        PROVE  a[c] <= a[i]
    <2>1. i = 2 * p \/ i = 2 * p + 1
      BY <1>4, Halves
    <2>2. CASE 2 * p < Len(a) /\ a[2 * p] > a[2 * p + 1]
      <3>1. c = 2 * p + 1
        BY <2>2 DEF LesserChild
      <3>2. 2 * p \in 1..Len(a) /\ 2 * p + 1 \in 1..Len(a)
        BY <1>1, <2>2
      <3> HIDE DEF c
      <3>3. a[2 * p] \in Int /\ a[2 * p + 1] \in Int
        BY <1>1, <3>2
      <3>4. QED
        BY <2>1, <2>2, <3>1, <3>3
    <2>3. CASE ~(2 * p < Len(a) /\ a[2 * p] > a[2 * p + 1])
      <3>1. c = 2 * p
        BY <2>3 DEF LesserChild
      <3> HIDE DEF c
      <3>2. a[2 * p] \in Int
        BY <1>1
      <3>3. CASE i = 2 * p
        BY <3>1, <3>2, <3>3
      <3>4. CASE i = 2 * p + 1
        <4>1. 2 * p < Len(a) /\ 2 * p + 1 \in 1..Len(a)
          BY <1>1, <3>4
        <4>2. a[2 * p + 1] \in Int /\ ~(a[2 * p] > a[2 * p + 1])
          BY <1>1, <2>3, <4>1
        <4>3. QED
          BY <3>1, <3>2, <3>4, <4>2
      <3>5. QED
        BY <2>1, <3>3, <3>4
    <2>4. QED
      BY <2>2, <2>3
  <1>5. QED
    BY <1>2, <1>3, <1>4

\* A round keeps the order but for the place that it has come to.
LEMMA SinkKeeps ==
  ASSUME NEW s \in Rounds, s.pos \in 1..Len(s.arr), OrderedAbove(s.arr, s.pos)
  PROVE  /\ Sink(s) \in Rounds /\ Len(Sink(s).arr) = Len(s.arr)
         /\ Sink(s).pos \in 1..Len(s.arr)
         /\ OrderedAbove(Sink(s).arr, Sink(s).pos)
         /\ SameElements(Sink(s).arr, s.arr)
         /\ Sink(s) = s \/ Sink(s).pos > s.pos
         /\ Sink(s) = s => Ordered(s.arr)
  <1> DEFINE a == s.arr
             p == s.pos
             c == LesserChild(a, p)
             b == Swap(a, p, c)
  <1>1. a \in Arrays /\ p \in 1..Len(a) /\ Len(a) \in Nat /\ OrderedAbove(a, p) /\ p \in Nat
    BY DEF Rounds, Arrays
  <1>2. \A i \in 1..Len(a) : a[i] \in Int
    <2> HIDE DEF a
    <2>1. QED
      BY <1>1, ElementsAre
  <1>3. 2 * p <= Len(a) =>
          /\ c \in 2..Len(a) /\ c \div 2 = p /\ c > p
          /\ \A i \in 2..Len(a) : i \div 2 = p => a[c] <= a[i]
    <2> HIDE DEF a, p
    <2>1. QED
      BY <1>1, LesserChildIs
  <1>4. CASE 2 * p > Len(a) \/ a[p] <= a[c]
    <2>1. Sink(s) = s
      BY <1>4 DEF Sink
    <2>2. Ordered(a)
      <3> HIDE DEF a, p, c
      <3> SUFFICES ASSUME NEW i \in 2..Len(a) PROVE a[i \div 2] <= a[i]
        BY DEF Ordered
      <3>1. CASE i \div 2 # p
        BY <1>1, <3>1 DEF OrderedAbove
      <3>2. CASE i \div 2 = p
        <4>1. i >= 2 * p
          BY <1>1, <3>2, Halves
        <4>2. 2 * p <= Len(a) /\ a[p] <= a[c]
          BY <1>1, <1>4, <4>1
        <4>3. a[c] <= a[i] /\ a[p] \in Int /\ a[c] \in Int /\ a[i] \in Int
          BY <1>1, <1>2, <1>3, <3>2, <4>2
        <4>4. QED
          BY <3>2, <4>2, <4>3
      <3>3. QED
        BY <3>1, <3>2
    <2>3. SameElements(a, a)
      BY <1>1, PlacesFinite DEF SameElements
    <2>4. QED
      BY <1>1, <2>1, <2>2, <2>3
  <1>5. CASE ~(2 * p > Len(a)) /\ ~(a[p] <= a[c])
    <2>1. Sink(s) = [arr |-> b, pos |-> c]
      BY <1>5 DEF Sink
    <2> HIDE DEF a, p, c, b
    <2>2. 2 * p <= Len(a)
      BY <1>1, <1>5
    <2>3. /\ c \in 1..Len(a) /\ c \in 2..Len(a) /\ c > p /\ c \in Nat /\ c \div 2 = p
          /\ \A i \in 2..Len(a) : i \div 2 = p => a[c] <= a[i]
      BY <1>1, <1>3, <2>2
    <2>4. /\ b \in Arrays /\ Len(b) = Len(a)
          /\ \A x \in 1..Len(a) : b[x] = IF x = p THEN a[c] ELSE IF x = c THEN a[p] ELSE a[x]
      BY <1>1, <2>3, SwapIs DEF b
    <2>5. OrderedAbove(b, c)
      <3> SUFFICES ASSUME NEW i \in 2..Len(a)
                   PROVE  /\ i \div 2 # c => b[i \div 2] <= b[i]
                          /\ i \div 2 = c /\ c > 1 => b[c \div 2] <= b[i]
        BY <2>4 DEF OrderedAbove
      <3> DEFINE h == i \div 2
                 g == p \div 2
      <3>1. h \in 1..Len(a) /\ i \in 1..Len(a) /\ h < i /\ h \in Nat
        BY Halves, <1>1
      <3>2. h # p => a[h] <= a[i]
        BY <1>1 DEF OrderedAbove
      <3>3. h = p => a[c] <= a[i]
        BY <2>3
      <3>4. i = p => a[h] <= a[c]
        BY <1>1, <2>3 DEF OrderedAbove
      <3>5. i = c => h = p
        BY <2>3
      <3> HIDE DEF h, g
      <3>6. a[p] > a[c] /\ a[p] \in Int /\ a[c] \in Int /\ a[h] \in Int /\ a[i] \in Int
        BY <1>1, <1>2, <1>5, <2>3, <3>1
      <3>7. h # c => b[h] <= b[i]
        BY <1>1, <2>3, <2>4, <3>1, <3>2, <3>3, <3>4, <3>5, <3>6
      <3>8. h = c => b[p] <= b[i]
        BY <1>1, <2>3, <2>4, <3>1, <3>2, <3>6
      <3>9. QED
        BY <2>3, <3>7, <3>8 DEF h
    <2>6. SameElements(b, a)
      BY <1>1, <2>3, SwapKeeps DEF b
    <2>7. QED
      <3>1. Sink(s) # s
        BY <1>1, <2>1, <2>3 DEF p
      <3>2. Sink(s).arr = b /\ Sink(s).pos = c
        BY <2>1
      <3>3. Sink(s) \in Rounds
        BY <2>1, <2>3, <2>4 DEF Rounds
      <3>4. QED
        BY <2>3, <2>4, <2>5, <2>6, <3>1, <3>2, <3>3 DEF a, p
  <1>6. QED
    BY <1>4, <1>5

\* f is made of n rounds of fixDown's loop, from s on.
IsSinking(f, s, n) == f = [i \in 0..n |-> IF i = 0 THEN s ELSE Sink(f[i - 1])]

\* There is such a function.
LEMMA SinkingExists ==
  ASSUME NEW s, NEW n \in Nat
  PROVE  \E f : IsSinking(f, s, n)
  <1> DEFINE S == {k \in Nat : \E f : IsSinking(f, s, k)}
  <1>1. 0 \in S
    <2> DEFINE f == [i \in 0..0 |-> s]
    <2>1. IsSinking(f, s, 0)
      BY DEF IsSinking
    <2>2. QED
      BY <2>1
  <1>2. ASSUME NEW k \in Nat, k \in S
        PROVE  k + 1 \in S
    <2>1. PICK f : IsSinking(f, s, k)
      BY <1>2
    <2> DEFINE g == [i \in 0..(k + 1) |-> IF i = k + 1 THEN Sink(f[k]) ELSE f[i]]
    <2>2. \A i \in 0..k : f[i] = IF i = 0 THEN s ELSE Sink(f[i - 1])
      BY <2>1 DEF IsSinking
    <2>3. \A i \in 0..(k + 1) : g[i] = IF i = 0 THEN s ELSE Sink(g[i - 1])
      <3> TAKE i \in 0..(k + 1)
      <3>1. CASE i = k + 1
        <4>1. i - 1 \in 0..(k + 1) /\ i - 1 # k + 1 /\ i - 1 = k /\ i # 0
          BY <3>1
        <4>2. g[i - 1] = f[k] /\ g[i] = Sink(f[k])
          BY <3>1, <4>1
        <4>3. QED
          BY <3>1, <4>1, <4>2
      <3>2. CASE i # k + 1
        <4>1. i \in 0..k /\ g[i] = f[i] /\ (i # 0 => g[i - 1] = f[i - 1])
          BY <3>2
        <4>2. QED
          BY <4>1, <2>2
      <3>3. QED
        BY <3>1, <3>2
    <2>4. IsSinking(g, s, k + 1)
      <3>1. g = [i \in 0..(k + 1) |-> g[i]]
        OBVIOUS
      <3> HIDE DEF g
      <3>2. QED
        BY <2>3, <3>1 DEF IsSinking
    <2>5. QED
      BY <2>4
  <1>3. Nat \subseteq S
    <2> HIDE DEF S
    <2>1. QED
      BY <1>1, <1>2, SetInduction
  <1>4. QED
    BY <1>3

\* fixDown restores the order, and the array holds what it held.
LEMMA FixDownRestores ==
  ASSUME NEW a \in Arrays, NEW p \in 1..Len(a), OrderedAbove(a, p)
  PROVE  /\ FixDown(a, p) \in Arrays /\ Len(FixDown(a, p)) = Len(a)
         /\ Ordered(FixDown(a, p)) /\ SameElements(FixDown(a, p), a)
  <1> DEFINE s == [arr |-> a, pos |-> p]
             f == CHOOSE g : g = [n \in 0..Len(a) |->
                    IF n = 0 THEN [arr |-> a, pos |-> p] ELSE Sink(g[n - 1])]
             Q(k) == /\ f[k] \in Rounds /\ f[k].pos \in 1..Len(a)
                     /\ Len(f[k].arr) = Len(a)
                     /\ OrderedAbove(f[k].arr, f[k].pos)
                     /\ SameElements(f[k].arr, a)
                     /\ Sink(f[k]) = f[k] \/ f[k].pos > k
             S == {k \in Nat : k <= Len(a) => Q(k)}
  <1>1. FixDown(a, p) = f[Len(a)].arr
    BY DEF FixDown
  <1>2. p \in Nat /\ s \in Rounds /\ s.arr = a /\ s.pos = p /\ Len(a) \in Nat
    BY DEF Rounds, Arrays
  <1>3. IsSinking(f, s, Len(a))
    BY <1>2, SinkingExists DEF IsSinking
  <1> HIDE DEF f, s
  <1>4. f[0] = s /\ \A k \in Nat : k + 1 <= Len(a) => f[k + 1] = Sink(f[k])
    <2>1. \A i \in 0..Len(a) : f[i] = IF i = 0 THEN s ELSE Sink(f[i - 1])
      BY <1>3 DEF IsSinking
    <2>2. f[0] = s
      BY <1>2, <2>1
    <2>3. ASSUME NEW k \in Nat, k + 1 <= Len(a)
          PROVE  f[k + 1] = Sink(f[k])
      <3>1. k + 1 \in 0..Len(a) /\ k + 1 # 0 /\ (k + 1) - 1 = k
        BY <1>2, <2>3
      <3>2. QED
        BY <2>1, <3>1
    <2>4. QED
      BY <2>2, <2>3
  <1>5. 0 \in S
    <2>1. SameElements(a, a)
      BY PlacesFinite DEF SameElements
    <2>2. QED
      BY <1>2, <1>4, <2>1
  <1>6. ASSUME NEW k \in Nat, k \in S
        PROVE  k + 1 \in S
    <2> SUFFICES ASSUME k + 1 <= Len(a) PROVE Q(k + 1)
      BY <1>6
    <2> DEFINE t == f[k]
               u == Sink(f[k])
    <2>1. Q(k)
      BY <1>2, <1>6
    <2>2. f[k + 1] = u
      BY <1>4
    <2>3. /\ u \in Rounds /\ Len(u.arr) = Len(a) /\ u.pos \in 1..Len(a)
          /\ OrderedAbove(u.arr, u.pos)
          /\ SameElements(u.arr, t.arr)
          /\ u = t \/ u.pos > t.pos
      <3>1. t \in Rounds /\ t.pos \in 1..Len(t.arr) /\ OrderedAbove(t.arr, t.pos)
        BY <2>1
      <3>2. Len(t.arr) = Len(a)
        BY <2>1
      <3>3. QED
        BY <3>1, <3>2, SinkKeeps
    <2>4. SameElements(u.arr, a)
      BY <2>1, <2>3 DEF SameElements
    <2>5. Sink(u) = u \/ u.pos > k + 1
      <3>1. CASE u = t
        BY <3>1
      <3>2. CASE u # t
        <4>1. t.pos > k /\ u.pos > t.pos /\ t.pos \in Nat /\ u.pos \in Nat
          BY <2>1, <2>3, <3>2
        <4>2. QED
          BY <1>2, <4>1
      <3>3. QED
        BY <3>1, <3>2
    <2>6. QED
      BY <2>2, <2>3, <2>4, <2>5
  <1>7. Q(Len(a))
    <2> HIDE DEF Q
    <2>1. Nat \subseteq S
      <3> HIDE DEF S
      <3>1. QED
        BY <1>5, <1>6, SetInduction
    <2>2. QED
      BY <1>2, <2>1
  <1>8. Ordered(f[Len(a)].arr)
    <2>1. ~(f[Len(a)].pos > Len(a))
      BY <1>2, <1>7
    <2>2. Sink(f[Len(a)]) = f[Len(a)]
      BY <1>2, <1>7, <2>1
    <2>3. f[Len(a)] \in Rounds /\ f[Len(a)].pos \in 1..Len(f[Len(a)].arr) /\ OrderedAbove(f[Len(a)].arr, f[Len(a)].pos)
      BY <1>7
    <2>4. QED
      BY <2>2, <2>3, SinkKeeps
  <1>9. QED
    BY <1>1, <1>7, <1>8 DEF Rounds
-----------------------------------------------------------------------------
(* The heap's operations. *)

\* The root is a least element.
LEMMA RootIsLeast ==
  ASSUME NEW a \in Arrays, Ordered(a)
  PROVE  \A i \in 1..Len(a) : a[1] <= a[i]
  <1> DEFINE S == {n \in Nat : \A i \in 1..Len(a) : i <= n => a[1] <= a[i]}
  <1>1. Len(a) \in Nat /\ \A i \in 1..Len(a) : a[i] \in Int
    BY ElementsAre
  <1>2. 0 \in S
    BY <1>1
  <1>3. ASSUME NEW n \in Nat, n \in S
        PROVE  n + 1 \in S
    <2> SUFFICES ASSUME NEW i \in 1..Len(a), i = n + 1
                 PROVE  a[1] <= a[i]
      BY <1>3
    <2>1. CASE i = 1
      BY <1>1, <2>1
    <2>2. CASE i # 1
      <3> DEFINE h == i \div 2
      <3>1. i \in 2..Len(a) /\ h \in Nat /\ h >= 1 /\ h < i
        BY <1>1, <2>2, Halves
      <3>2. a[h] <= a[i]
        BY <3>1 DEF Ordered
      <3> HIDE DEF h
      <3>3. h \in 1..Len(a) /\ h <= n
        BY <1>1, <3>1
      <3>4. a[1] <= a[h]
        BY <1>3, <3>3
      <3>5. 1 \in 1..Len(a)
        BY <1>1, <3>1
      <3>6. a[1] \in Int /\ a[h] \in Int /\ a[i] \in Int
        BY <1>1, <3>3, <3>5
      <3>7. QED
        BY <3>2, <3>4, <3>6
    <2>3. QED
      BY <2>1, <2>2
  <1>4. Nat \subseteq S
    <2> HIDE DEF S
    <2>1. QED
      BY <1>2, <1>3, SetInduction
  <1>5. QED
    BY <1>1, <1>4

\* One element more.
LEMMA OneMore ==
  ASSUME NEW a \in Arrays, NEW k \in Keys
  PROVE  /\ Append(a, k) \in Arrays /\ Len(Append(a, k)) = Len(a) + 1
         /\ \A i \in 1..Len(a) : Append(a, k)[i] = a[i]
         /\ Append(a, k)[Len(a) + 1] = k
         /\ \A x \in Keys : Cardinality(PlacesOf(Append(a, k), x)) =
              IF x = k THEN Cardinality(PlacesOf(a, x)) + 1 ELSE Cardinality(PlacesOf(a, x))
  <1> DEFINE b == Append(a, k)
             n == Len(a)
  <1>1. /\ b \in Arrays /\ Len(b) = n + 1 /\ n \in Nat
        /\ \A i \in 1..n : b[i] = a[i]
        /\ b[n + 1] = k
    BY DEF Arrays
  <1> HIDE DEF b, n
  <1>2. ASSUME NEW x \in Keys
        PROVE  Cardinality(PlacesOf(b, x)) =
                 IF x = k THEN Cardinality(PlacesOf(a, x)) + 1 ELSE Cardinality(PlacesOf(a, x))
    <2>1. IsFiniteSet(PlacesOf(a, x))
      BY PlacesFinite
    <2>2. CASE x = k
      <3>1. PlacesOf(b, x) = PlacesOf(a, x) \cup {n + 1}
        BY <1>1, <2>2 DEF PlacesOf, n
      <3>2. n + 1 \notin PlacesOf(a, x)
        BY <1>1 DEF PlacesOf, n
      <3>3. QED
        BY <2>1, <2>2, <3>1, <3>2, FS_AddElement
    <2>3. CASE x # k
      <3>1. PlacesOf(b, x) = PlacesOf(a, x)
        BY <1>1, <2>3 DEF PlacesOf, n
      <3>2. QED
        BY <2>3, <3>1
    <2>4. QED
      BY <2>2, <2>3
  <1>3. QED
    BY <1>1, <1>2 DEF b, n

\* The heap is ordered, and `inside` counts what it holds.
HeapInv ==
  /\ heap \in Arrays
  /\ Ordered(heap)
  /\ inside \in [Keys -> Int]
  /\ \A k \in Keys : inside[k] = Cardinality(PlacesOf(heap, k))

\* HeapInv says of the next element what HeapGivesLeast asks.
LEMMA HeapInvGives ==
  ASSUME HeapInv
  PROVE  HeapGivesLeast
  <1>1. DOMAIN heap = 1..Len(heap)
    BY DEF HeapInv, Arrays
  <1>2. \A i \in DOMAIN heap : heap[1] <= heap[i]
    BY <1>1, RootIsLeast DEF HeapInv
  <1>3. \A k \in Keys : PlacesOf(heap, k) = {i \in DOMAIN heap : heap[i] = k}
    BY <1>1 DEF PlacesOf
  <1>4. QED
    BY <1>2, <1>3 DEF HeapInv, HeapGivesLeast

\* An empty heap holds nothing.
LEMMA HeapInit_Inv ==
  ASSUME HeapInit
  PROVE  HeapInv
  <1>1. heap = <<>> /\ inside = [k \in Keys |-> 0]
    BY DEF HeapInit
  <1>2. heap \in Arrays /\ Ordered(heap)
    BY <1>1 DEF Arrays, Ordered
  <1>3. \A k \in Keys : PlacesOf(heap, k) = {}
    BY <1>1 DEF PlacesOf
  <1>4. \A k \in Keys : Cardinality(PlacesOf(heap, k)) = 0
    BY <1>3, FS_EmptySet
  <1>5. inside \in [Keys -> Int] /\ \A k \in Keys : inside[k] = 0
    BY <1>1
  <1>6. QED
    BY <1>2, <1>4, <1>5 DEF HeapInv

\* enqueue puts the element at the end, and fixUp orders the array again.
LEMMA HeapEnqueue_Inv ==
  ASSUME HeapInv, NEW k \in Keys, HeapEnqueue(k)
  PROVE  HeapInv'
  <1> DEFINE b == Append(heap, k)
             n == Len(heap)
  <1>1. heap \in Arrays /\ Ordered(heap) /\ n \in Nat /\ \A i \in 1..n : heap[i] \in Int
    BY ElementsAre DEF HeapInv
  <1>2. heap' = FixUp(b, n + 1) /\ inside' = [inside EXCEPT ![k] = @ + 1]
    BY DEF HeapEnqueue
  <1>3. /\ b \in Arrays /\ Len(b) = n + 1
        /\ \A i \in 1..n : b[i] = heap[i]
        /\ \A x \in Keys : Cardinality(PlacesOf(b, x)) =
             IF x = k THEN Cardinality(PlacesOf(heap, x)) + 1 ELSE Cardinality(PlacesOf(heap, x))
    BY <1>1, OneMore
  <1> HIDE DEF b, n
  <1>4. OrderedBut(b, n + 1)
    <2>1. ASSUME NEW i \in 2..(n + 1)
          PROVE  (i # n + 1 => b[i \div 2] <= b[i]) /\ i \div 2 # n + 1
      <3> DEFINE h == i \div 2
      <3>1. h \in Nat /\ h >= 1 /\ h < i
        BY Halves, <1>1
      <3>2. i # n + 1 => heap[h] <= heap[i]
        BY <1>1 DEF Ordered, n
      <3> HIDE DEF h
      <3>3. i # n + 1 => h \in 1..n /\ i \in 1..n
        BY <1>1, <3>1
      <3>4. i # n + 1 => b[h] <= b[i]
        BY <1>3, <3>2, <3>3
      <3>5. h # n + 1
        BY <1>1, <3>1
      <3>6. QED
        BY <3>4, <3>5 DEF h
    <2>2. QED
      BY <1>3, <2>1 DEF OrderedBut
  <1>5. n + 1 \in 1..Len(b)
    BY <1>1, <1>3
  <1>6. heap' \in Arrays /\ Ordered(heap') /\ SameElements(heap', b)
    BY <1>2, <1>3, <1>4, <1>5, FixUpRestores
  <1>7. inside' \in [Keys -> Int]
    BY <1>2 DEF HeapInv
  <1>8. \A x \in Keys : inside'[x] = Cardinality(PlacesOf(heap', x))
    BY <1>2, <1>3, <1>6 DEF HeapInv, SameElements
  <1>9. QED
    BY <1>6, <1>7, <1>8 DEF HeapInv

\* dequeue gives the first element, puts the last one there, and fixDown orders the
\* array again.
LEMMA HeapDequeue_Inv ==
  ASSUME HeapInv, HeapDequeue
  PROVE  HeapInv'
  <1> DEFINE n == Len(heap)
             a == SubSeq([heap EXCEPT ![1] = heap[n]], 1, n - 1)
             b == Swap(heap, 1, n)
             k == heap[1]
  <1>1. /\ heap \in Arrays /\ Ordered(heap) /\ n \in Nat /\ n >= 1
        /\ \A i \in 1..n : heap[i] \in Keys
    BY ElementsAre DEF HeapInv, HeapDequeue, Arrays
  <1>2. heap' = FixDown(a, 1) /\ inside' = [inside EXCEPT ![k] = @ - 1]
    BY DEF HeapDequeue
  <1>3. k \in Keys
    BY <1>1
  <1>4. /\ a \in Arrays /\ Len(a) = n - 1
        /\ \A i \in 1..(n - 1) : a[i] = IF i = 1 THEN heap[n] ELSE heap[i]
    <2> DEFINE e == [heap EXCEPT ![1] = heap[n]]
    <2>1. /\ e \in Seq(Keys) /\ Len(e) = n
          /\ \A i \in 1..n : e[i] = IF i = 1 THEN heap[n] ELSE heap[i]
      BY <1>1 DEF Arrays
    <2> HIDE DEF e, n
    <2>2. /\ SubSeq(e, 1, n - 1) \in Seq(Keys) /\ Len(SubSeq(e, 1, n - 1)) = n - 1
          /\ \A i \in 1..(n - 1) : SubSeq(e, 1, n - 1)[i] = e[i]
      BY <1>1, <2>1
    <2>3. QED
      BY <1>1, <2>1, <2>2 DEF Arrays, e
  <1>5. SameElements(b, heap)
    BY <1>1, SwapKeeps
  <1>6. b = Append(a, k)
    <2>1. /\ b \in Arrays /\ Len(b) = n
          /\ \A x \in 1..n : b[x] = IF x = 1 THEN heap[n] ELSE IF x = n THEN heap[1] ELSE heap[x]
      <3>1. 1 \in 1..Len(heap) /\ Len(heap) \in 1..Len(heap)
        BY <1>1
      <3>2. \A i, j \in 1..Len(heap) :
              /\ Swap(heap, i, j) \in Arrays /\ Len(Swap(heap, i, j)) = Len(heap)
              /\ \A x \in 1..Len(heap) : Swap(heap, i, j)[x] =
                   IF x = i THEN heap[j] ELSE IF x = j THEN heap[i] ELSE heap[x]
        BY <1>1, SwapIs, Zenon
      <3>3. QED
        BY <3>1, <3>2, ZenonT(30)
    <2> HIDE DEF n, a, b
    <2>2. /\ Append(a, k) \in Arrays /\ Len(Append(a, k)) = (n - 1) + 1
          /\ \A i \in 1..(n - 1) : Append(a, k)[i] = a[i]
          /\ Append(a, k)[(n - 1) + 1] = k
      BY <1>3, <1>4, OneMore
    <2> DEFINE d == Append(a, k)
    <2>3. d \in Seq(Keys) /\ b \in Seq(Keys) /\ Len(d) = n /\ Len(b) = n
      BY <1>1, <2>1, <2>2 DEF Arrays
    <2>4. \A i \in 1..n : b[i] = d[i]
      <3> TAKE i \in 1..n
      <3>1. CASE i = n
        BY <1>1, <2>1, <2>2, <3>1
      <3>2. CASE i # n
        <4>1. i \in 1..(n - 1)
          BY <1>1, <3>2
        <4>2. d[i] = a[i]
          BY <2>2, <4>1
        <4>3. QED
          BY <1>4, <2>1, <3>2, <4>1, <4>2
      <3>3. QED
        BY <3>1, <3>2
    <2> HIDE DEF d
    <2>5. b = d
      BY <2>3, <2>4
    <2>6. QED
      BY <2>5 DEF d
  <1> HIDE DEF n, a, b, k
  <1>7. \A x \in Keys : Cardinality(PlacesOf(heap, x)) =
             IF x = k THEN Cardinality(PlacesOf(a, x)) + 1 ELSE Cardinality(PlacesOf(a, x))
    BY <1>3, <1>4, <1>5, <1>6, OneMore DEF SameElements
  <1>8. heap' \in Arrays /\ Ordered(heap') /\ SameElements(heap', a)
    <2>1. CASE n = 1
      <3> DEFINE s == [arr |-> a, pos |-> 1]
                 f == CHOOSE g : g = [m \in 0..Len(a) |->
                        IF m = 0 THEN [arr |-> a, pos |-> 1] ELSE Sink(g[m - 1])]
      <3>1. FixDown(a, 1) = f[Len(a)].arr
        BY DEF FixDown
      <3>2. Len(a) = 0
        BY <1>4, <2>1
      <3>3. IsSinking(f, s, Len(a))
        BY <3>2, SinkingExists DEF IsSinking
      <3> HIDE DEF f
      <3>4. f[0] = s
        BY <3>2, <3>3 DEF IsSinking
      <3>5. heap' = a
        BY <1>2, <3>1, <3>2, <3>4
      <3>6. Ordered(a)
        BY <3>2 DEF Ordered
      <3>7. SameElements(a, a)
        BY <1>4, PlacesFinite DEF SameElements
      <3>8. QED
        BY <1>4, <3>5, <3>6, <3>7
    <2>2. CASE n # 1
      <3>1. 1 \in 1..Len(a)
        BY <1>1, <1>4, <2>2
      <3>2. OrderedAbove(a, 1)
        <4>1. ASSUME NEW i \in 2..(n - 1), i \div 2 # 1
              PROVE  a[i \div 2] <= a[i]
          <5> DEFINE h == i \div 2
          <5>1. h \in Nat /\ h >= 1 /\ h < i /\ h # 1
            BY Halves, <1>1, <4>1
          <5>2. i \in 2..n
            BY <1>1
          <5>3. heap[h] <= heap[i]
            BY <1>1, <5>2 DEF Ordered, n
          <5> HIDE DEF h
          <5>4. h \in 1..(n - 1) /\ i \in 1..(n - 1) /\ i # 1
            BY <1>1, <5>1
          <5>5. a[h] = heap[h] /\ a[i] = heap[i]
            BY <1>4, <5>1, <5>4
          <5>6. a[h] <= a[i]
            BY <5>3, <5>5
          <5>7. QED
            BY <5>6 DEF h
        <4>2. QED
          BY <1>4, <4>1 DEF OrderedAbove
      <3>3. QED
        BY <1>2, <1>4, <3>1, <3>2, FixDownRestores
    <2>3. QED
      BY <2>1, <2>2
  <1>9. inside' \in [Keys -> Int]
    <2>1. inside \in [Keys -> Int] /\ inside[k] \in Int
      BY <1>3 DEF HeapInv
    <2> DEFINE m == inside[k] - 1
    <2>2. m \in Int
      BY <2>1
    <2>3. inside' = [inside EXCEPT ![k] = m]
      BY <1>2
    <2> HIDE DEF m
    <2>4. QED
      BY <2>1, <2>2, <2>3, Zenon
  <1>10. \A x \in Keys : inside'[x] = Cardinality(PlacesOf(heap', x))
    <2> TAKE x \in Keys
    <2>1. Cardinality(PlacesOf(heap', x)) = Cardinality(PlacesOf(a, x))
      BY <1>8 DEF SameElements
    <2>2. inside[x] = Cardinality(PlacesOf(heap, x)) /\ Cardinality(PlacesOf(a, x)) \in Nat
      BY <1>4, PlacesFinite DEF HeapInv
    <2>3. inside'[x] = IF x = k THEN inside[x] - 1 ELSE inside[x]
      BY <1>2 DEF HeapInv
    <2>4. QED
      BY <1>7, <2>1, <2>2, <2>3
  <1>11. QED
    BY <1>8, <1>9, <1>10 DEF HeapInv

\* What BinaryHeap.dequeue gives is always a least element of those the heap
\* holds, and it holds each element as often as that was enqueued and not
\* dequeued yet, whatever is enqueued and dequeued before.
THEOREM HeapGivesLeastHolds == HeapSpec => []HeapGivesLeast
  <1>1. HeapInit => HeapInv
    BY HeapInit_Inv
  <1>2. HeapInv /\ [HeapNext]_heapVars => HeapInv'
    <2> SUFFICES ASSUME HeapInv, [HeapNext]_heapVars PROVE HeapInv'
      OBVIOUS
    <2>1. CASE \E k \in Keys : HeapEnqueue(k)
      BY <2>1, HeapEnqueue_Inv
    <2>2. CASE HeapDequeue
      BY <2>2, HeapDequeue_Inv
    <2>3. CASE UNCHANGED heapVars
      BY <2>3 DEF heapVars, HeapInv
    <2>4. QED
      BY <2>1, <2>2, <2>3 DEF HeapNext
  <1>3. HeapInv => HeapGivesLeast
    BY HeapInvGives
  <1>4. QED
    BY <1>1, <1>2, <1>3, PTL DEF HeapSpec

-----------------------------------------------------------------------------

(***************************************************************************)
(* Events.Push: who is subscribed during the whole propagation of an event *)
(* is called, nobody twice, and nobody after its end unless a table has    *)
(* lost its reference, when observers end subscriptions while they are     *)
(* called, or subscribe others and emit, but not both. The                 *)
(* argument: what is left to a loop are references of observers that it    *)
(* has not called, with one reference for each subscribed observer that it *)
(* has not called and that was subscribed when the event was emitted.      *)
(***************************************************************************)

Refs == [who : Observers, made : Nat]
Places == Refs \cup {NoRef}
Buffers == [array : Seq(Places), size : Nat]

\* No two of these references are of one observer.
Apart(S) == \A r, s \in S : r.who = s.who => r = s

\* A buffer's references come first, each of another observer.
BufferShape(b) ==
  /\ b \in Buffers /\ b.array # <<>> /\ b.size <= Len(b.array)
  /\ \A j \in 1..b.size : b.array[j] \in Refs
  /\ \A j, k \in 1..b.size : b.array[j].who = b.array[k].who => j = k

\* The references in a demux d, which is one of s, b and t.
Held(d, s, b, t) ==
  CASE d = "none" -> {}
    [] d = "ref" -> {s}
    [] d = "buffer" -> {b.array[j] : j \in 1..b.size}
    [] d = "table" -> t.refs

DemuxShape(d, s, b, t) ==
  /\ d \in {"none", "ref", "buffer", "table"} /\ b \in Buffers
  /\ d = "ref" => s \in Refs
  /\ d = "buffer" => BufferShape(b)
  /\ d = "table" => /\ t.refs \in SUBSET Refs /\ IsFiniteSet(t.refs)
                    /\ Apart(t.refs)

Statuses == [Observers -> {"new", "live", "gone", "missed"}]

\* Who is subscribed, st, has an entry in E; the entry of who is not any more
\* is among the cleared ones, cl, unless it was missed.
EntriesShape(E, st, cl) ==
  /\ st \in Statuses /\ cl \in SUBSET Refs
  /\ \A r \in cl : st[r.who] = "gone"
  /\ \A r \in E : /\ r \in Refs /\ st[r.who] # "new"
                  /\ st[r.who] = "gone" => r \in cl
  /\ \A o \in Observers : st[o] = "live" => \E r \in E : r.who = o

Frames ==
  [kind : {"ref", "buffer", "table"}, i : Nat \ {0}, until : Nat, old : Seq(Places),
   todo : SUBSET Refs, made : Nat, cur : Observers \cup {NoRef},
   due : SUBSET Observers, told : Seq(Observers \X BOOLEAN)]

\* The places that the loop f over an array has still to come to, ...
Place(f) == IF f.cur = NoRef THEN f.i ELSE f.i + 1
Waiting(f) == IF f.kind = "buffer" THEN Place(f)..f.until ELSE {}

\* ... the references it will find, ...
Left(f, arr) == f.todo \cup {arr[j] : j \in Waiting(f)}

\* ... and whether it has called o.
Told(f, o) == \E k \in 1..Len(f.told) : f.told[k][1] = o

\* The references that are left to a loop over the array arr.
LeftShape(f, arr, st, cl) ==
  /\ f.kind = "buffer" => f.todo = {} /\ f.until <= Len(arr)
  /\ \A r \in Left(f, arr) : /\ r \in Refs /\ st[r.who] # "new" /\ ~Told(f, r.who)
                             /\ st[r.who] = "gone" => r \in cl
  /\ Apart(f.todo)
  /\ \A j, k \in Waiting(f) : arr[j].who = arr[k].who => j = k

\* Who was subscribed at its start and is still was called or will be.
DueShape(f, arr, st) ==
  \A o \in f.due : /\ st[o] # "new"
                   /\ st[o] = "live" => Told(f, o) \/ \E r \in Left(f, arr) : r.who = o

\* Who was called, as it is told, was subscribed, or was missed, ...
Callable(told, st) ==
  /\ st[told[1]] # "new"
  /\ told[2] = FALSE => st[told[1]] = "missed"

\* ... and was called once.
ToldShape(f, st) ==
  /\ \A k \in 1..Len(f.told) : Callable(f.told[k], st)
  /\ \A j, k \in 1..Len(f.told) : f.told[j][1] = f.told[k][1] => j = k

FrameShape(f, arr, st, cl) ==
  f \in Frames /\ LeftShape(f, arr, st, cl) /\ DueShape(f, arr, st) /\ ToldShape(f, st)

\* The array of the loop f while b is the buffer.
ArrayIn(f, b) == IF f.old = <<>> THEN b.array ELSE f.old

LoopsShape(sk, b, st, cl) ==
  /\ sk \in Seq(Frames)
  /\ \A d \in 1..Len(sk) : FrameShape(sk[d], ArrayIn(sk[d], b), st, cl)

\* When observers only end subscriptions, the one loop goes over demux as it is.
CancelShape ==
  use = "cancel" =>
    /\ Depth <= 1
    /\ \A d \in 1..Depth :
         /\ stack[d].kind = demux /\ stack[d].old = <<>>
         /\ stack[d].kind = "buffer" => stack[d].until = buffer.size
         /\ stack[d].todo \subseteq Held(demux, single, buffer, table)

\* A loop when observers only subscribe others and emit: demux, d, has grown
\* from what it was at the loop's start.
GrowingLoop(f, d, b) ==
  /\ f.kind = "table" => d = "table"
  /\ f.kind = "buffer" => /\ d \in {"buffer", "table"}
                          /\ BufferShape(b) /\ b.size >= 2
                          /\ f.old = <<>> => f.until <= b.size

GrowShape ==
  use = "grow" =>
    /\ cleared = {}
    /\ demux = "none" => Depth = 0
    /\ demux = "buffer" => buffer.size >= 2
    /\ \A d \in 1..Depth : GrowingLoop(stack[d], demux, buffer)

StreamInv ==
  /\ use \in {"cancel", "grow"} /\ made \in Nat
  /\ DemuxShape(demux, single, buffer, table)
  /\ EntriesShape(Held(demux, single, buffer, table), status, cleared)
  /\ LoopsShape(stack, buffer, status, cleared)
  /\ CancelShape /\ GrowShape

\* growArray copies the first n references of an array, as f.
IsKeeping(f, arr, n) ==
  f = [i \in 0..n |-> IF i = 0 THEN <<>>
                      ELSE IF arr[i] \in cleared THEN f[i - 1]
                      ELSE Append(f[i - 1], arr[i])]

\* There is such a function.
LEMMA KeepingExists ==
  ASSUME NEW arr, NEW n \in Nat
  PROVE  \E f : IsKeeping(f, arr, n)
  <1> DEFINE S == {k \in Nat : \E f : IsKeeping(f, arr, k)}
             Next(q, i) == IF arr[i] \in cleared THEN q ELSE Append(q, arr[i])
  <1>1. 0 \in S
    <2> DEFINE f == [i \in 0..0 |-> <<>>]
    <2>1. IsKeeping(f, arr, 0)
      BY DEF IsKeeping
    <2>2. QED
      BY <2>1
  <1>2. ASSUME NEW k \in Nat, k \in S
        PROVE  k + 1 \in S
    <2>1. PICK f : IsKeeping(f, arr, k)
      BY <1>2
    <2> DEFINE g == [i \in 0..(k + 1) |-> IF i = k + 1 THEN Next(f[k], k + 1) ELSE f[i]]
    <2>2. \A i \in 0..k : f[i] = IF i = 0 THEN <<>> ELSE Next(f[i - 1], i)
      BY <2>1 DEF IsKeeping
    <2>3. \A i \in 0..(k + 1) : g[i] = IF i = 0 THEN <<>> ELSE Next(g[i - 1], i)
      <3> HIDE DEF Next
      <3> TAKE i \in 0..(k + 1)
      <3>1. CASE i = k + 1
        <4>1. i - 1 \in 0..(k + 1) /\ i - 1 # k + 1 /\ i - 1 = k /\ i # 0
          BY <3>1
        <4>2. g[i - 1] = f[k] /\ g[i] = Next(f[k], k + 1)
          BY <3>1, <4>1
        <4>3. QED
          BY <3>1, <4>1, <4>2
      <3>2. CASE i # k + 1
        <4>1. i \in 0..k /\ g[i] = f[i] /\ (i # 0 => g[i - 1] = f[i - 1])
          BY <3>2
        <4>2. QED
          BY <4>1, <2>2
      <3>3. QED
        BY <3>1, <3>2
    <2>4. IsKeeping(g, arr, k + 1)
      <3>1. g = [i \in 0..(k + 1) |-> g[i]]
        OBVIOUS
      <3> HIDE DEF g
      <3>2. QED
        BY <2>3, <3>1 DEF IsKeeping
    <2>5. QED
      BY <2>4
  <1>3. Nat \subseteq S
    <2> HIDE DEF S
    <2>1. QED
      BY <1>1, <1>2, SetInduction
  <1>4. QED
    BY <1>3

\* u has the uncleared ones of the first n references of an array, one for each.
IsKept(u, arr, n) ==
  /\ u \in Seq(Refs) /\ Len(u) <= n
  /\ \A j \in 1..Len(u) : u[j] \notin cleared /\ \E k \in 1..n : u[j] = arr[k]
  /\ \A j, k \in 1..Len(u) : u[j].who = u[k].who => j = k
  /\ \A k \in 1..n : arr[k] \notin cleared => \E j \in 1..Len(u) : u[j] = arr[k]

\* One more reference is kept.
LEMMA KeptOneMore ==
  ASSUME NEW arr, NEW u, NEW n \in Nat, IsKept(u, arr, n),
         arr[n + 1] \in Refs, arr[n + 1] \notin cleared,
         \A k \in 1..n : arr[k].who # arr[n + 1].who
  PROVE  IsKept(Append(u, arr[n + 1]), arr, n + 1)
  <1> DEFINE v == Append(u, arr[n + 1])
             m == Len(u)
  <1>1. u \in Seq(Refs) /\ m \in Nat /\ m <= n
    BY DEF IsKept
  <1>2. /\ v \in Seq(Refs) /\ Len(v) = m + 1 /\ v[m + 1] = arr[n + 1]
        /\ \A j \in 1..m : v[j] = u[j]
    BY <1>1
  <1> HIDE DEF v
  <1>3. \A j \in 1..(m + 1) : j = m + 1 \/ j \in 1..m
    BY <1>1
  <1>4. \A j \in 1..(n + 1) : j = n + 1 \/ j \in 1..n
    OBVIOUS
  <1>5. ASSUME NEW j \in 1..(m + 1)
        PROVE  v[j] \notin cleared /\ \E k \in 1..(n + 1) : v[j] = arr[k]
    <2>1. CASE j = m + 1
      BY <2>1, <1>2
    <2>2. CASE j \in 1..m
      <3>1. v[j] \notin cleared
        BY <1>2, <2>2 DEF IsKept
      <3>2. PICK k \in 1..n : v[j] = arr[k]
        BY <1>2, <2>2 DEF IsKept
      <3>3. k \in 1..(n + 1)
        OBVIOUS
      <3>4. QED
        BY <3>1, <3>2, <3>3
    <2>3. QED
      BY <1>3, <2>1, <2>2
  <1>6. \A j \in 1..m : v[j].who # v[m + 1].who
    <2> TAKE j \in 1..m
    <2>1. PICK k \in 1..n : v[j] = arr[k]
      BY <1>2 DEF IsKept
    <2>2. QED
      BY <1>2, <2>1
  <1>7. \A j, k \in 1..(m + 1) : v[j].who = v[k].who => j = k
    <2>1. \A j, k \in 1..m : v[j].who = v[k].who => j = k
      BY <1>2 DEF IsKept
    <2>2. QED
      BY <1>3, <1>6, <2>1
  <1>8. ASSUME NEW k \in 1..(n + 1), arr[k] \notin cleared
        PROVE  \E j \in 1..(m + 1) : v[j] = arr[k]
    <2>1. CASE k = n + 1
      <3>1. m + 1 \in 1..(m + 1)
        BY <1>1
      <3>2. QED
        BY <2>1, <3>1, <1>2
    <2>2. CASE k \in 1..n
      <3>1. PICK j \in 1..m : u[j] = arr[k]
        BY <1>8, <2>2 DEF IsKept
      <3>2. j \in 1..(m + 1) /\ v[j] = arr[k]
        BY <1>1, <1>2, <3>1
      <3>3. QED
        BY <3>2
    <2>3. QED
      BY <1>4, <2>1, <2>2
  <1>9. m + 1 <= n + 1
    BY <1>1
  <1>10. QED
    BY <1>2, <1>5, <1>7, <1>8, <1>9 DEF IsKept, v

\* A reference that is cleared is left out.
LEMMA KeptSame ==
  ASSUME NEW arr, NEW u, NEW n \in Nat, IsKept(u, arr, n), arr[n + 1] \in cleared
  PROVE  IsKept(u, arr, n + 1)
  <1>1. \A j \in 1..(n + 1) : j = n + 1 \/ j \in 1..n
    OBVIOUS
  <1>2. 1..n \subseteq 1..(n + 1)
    OBVIOUS
  <1>3. Len(u) <= n + 1
    BY DEF IsKept
  <1>4. QED
    BY <1>1, <1>2, <1>3 DEF IsKept

\* What growArray keeps of a buffer.
LEMMA UnclearedIs ==
  ASSUME NEW b, BufferShape(b)
  PROVE  IsKept(Uncleared(b), b.array, b.size)
  <1> DEFINE arr == b.array
             n == b.size
             f == CHOOSE g : g = [i \in 0..n |->
                    IF i = 0 THEN <<>> ELSE IF arr[i] \in cleared THEN g[i - 1]
                    ELSE Append(g[i - 1], arr[i])]
             S == {k \in Nat : k <= n => IsKept(f[k], arr, k)}
  <1>1. Uncleared(b) = f[n]
    BY DEF Uncleared
  <1>2. n \in Nat
    BY DEF BufferShape, Buffers
  <1>3. IsKeeping(f, arr, n)
    BY <1>2, KeepingExists DEF IsKeeping
  <1>4. /\ \A k \in 1..n : arr[k] \in Refs
        /\ \A j, k \in 1..n : arr[j].who = arr[k].who => j = k
    BY DEF BufferShape
  <1> HIDE DEF f, arr, n
  <1>5. f[0] = <<>> /\ \A k \in Nat : k + 1 <= n =>
          f[k + 1] = IF arr[k + 1] \in cleared THEN f[k] ELSE Append(f[k], arr[k + 1])
    <2>1. \A i \in 0..n : f[i] = IF i = 0 THEN <<>> ELSE IF arr[i] \in cleared THEN f[i - 1]
                                 ELSE Append(f[i - 1], arr[i])
      BY <1>3 DEF IsKeeping
    <2>2. f[0] = <<>>
      BY <1>2, <2>1
    <2>3. ASSUME NEW k \in Nat, k + 1 <= n
          PROVE  f[k + 1] = IF arr[k + 1] \in cleared THEN f[k] ELSE Append(f[k], arr[k + 1])
      <3>1. k + 1 \in 0..n /\ k + 1 # 0 /\ (k + 1) - 1 = k
        BY <1>2, <2>3
      <3>2. QED
        BY <2>1, <3>1
    <2>4. QED
      BY <2>2, <2>3
  <1>6. 0 \in S
    <2>1. <<>> \in Seq(Refs) /\ Len(<<>>) = 0
      OBVIOUS
    <2>2. IsKept(<<>>, arr, 0)
      BY <2>1 DEF IsKept
    <2>3. QED
      BY <1>5, <2>2
  <1>7. ASSUME NEW k \in Nat, k \in S
        PROVE  k + 1 \in S
    <2> SUFFICES ASSUME k + 1 <= n PROVE IsKept(f[k + 1], arr, k + 1)
      OBVIOUS
    <2>1. IsKept(f[k], arr, k)
      BY <1>2, <1>7
    <2>2. /\ arr[k + 1] \in Refs
          /\ \A j \in 1..k : arr[j].who # arr[k + 1].who
      BY <1>2, <1>4
    <2>3. f[k + 1] = IF arr[k + 1] \in cleared THEN f[k] ELSE Append(f[k], arr[k + 1])
      BY <1>5
    <2>4. QED
      BY <2>1, <2>2, <2>3, KeptSame, KeptOneMore
  <1>8. Nat \subseteq S
    <2> HIDE DEF S
    <2>1. QED
      BY <1>6, <1>7, SetInduction
  <1>9. QED
    BY <1>1, <1>2, <1>8 DEF arr, n

\* An array that is longer than the references put in it.
LEMMA PaddedIs ==
  ASSUME NEW refs \in Seq(Refs), NEW length \in Nat, Len(refs) <= length
  PROVE  /\ Padded(refs, length) \in Seq(Places)
         /\ Len(Padded(refs, length)) = length
         /\ \A i \in 1..Len(refs) : Padded(refs, length)[i] = refs[i]
  <1> DEFINE nulls == [i \in 1..(length - Len(refs)) |-> NoRef]
  <1>1. refs \in Seq(Places) /\ Len(refs) \in Nat
    BY DEF Places
  <1>2. nulls \in Seq(Places) /\ Len(nulls) = length - Len(refs)
    BY <1>1 DEF Places
  <1> HIDE DEF nulls
  <1>3. /\ refs \o nulls \in Seq(Places) /\ Len(refs \o nulls) = length
        /\ \A i \in 1..Len(refs) : (refs \o nulls)[i] = refs[i]
    BY <1>1, <1>2
  <1>4. QED
    BY <1>3 DEF Padded, nulls

\* b is a buffer of these references, one of each observer, and has room.
IsBufferOf(b, refs, length) ==
  /\ b = [array |-> Padded(refs, length), size |-> Len(refs)]
  /\ refs \in Seq(Refs) /\ length \in Nat \ {0} /\ Len(refs) <= length
  /\ \A j, k \in 1..Len(refs) : refs[j].who = refs[k].who => j = k

\* Such a buffer is well formed.
LEMMA BufferOf ==
  ASSUME NEW b, NEW refs, NEW length, IsBufferOf(b, refs, length)
  PROVE  /\ BufferShape(b) /\ Len(b.array) = length /\ b.size = Len(refs)
         /\ \A j \in 1..b.size : b.array[j] = refs[j]
  <1> USE DEF IsBufferOf
  <1>1. /\ b.array \in Seq(Places) /\ Len(b.array) = length
        /\ \A j \in 1..Len(refs) : b.array[j] = refs[j]
    BY PaddedIs
  <1>2. b.size = Len(refs) /\ Len(refs) \in Nat /\ \A j \in 1..Len(refs) : refs[j] \in Refs
    OBVIOUS
  <1>3. b \in Buffers
    BY <1>1, <1>2 DEF Buffers
  <1>4. b.array # <<>>
    BY <1>1
  <1>5. QED
    BY <1>1, <1>2, <1>3, <1>4 DEF BufferShape

\* growArray makes room, keeps what is not cleared, and changes nothing in an
\* array of the same length.
LEMMA GrownIs ==
  ASSUME NEW b, BufferShape(b), NEW g, g = Grown(b)
  PROVE  /\ BufferShape(g) /\ g.size < Len(g.array)
         /\ Len(g.array) = Len(b.array) => g = b
         /\ \A j \in 1..g.size : \E k \in 1..b.size :
              g.array[j] = b.array[k] /\ (g # b => b.array[k] \notin cleared)
         /\ \A k \in 1..b.size : b.array[k] \notin cleared =>
              \E j \in 1..g.size : g.array[j] = b.array[k]
  <1>1. b.array \in Seq(Places) /\ Len(b.array) \in Nat /\ b.size \in Nat /\ b.array # <<>>
        /\ b.size <= Len(b.array)
    BY DEF BufferShape, Buffers
  <1>2. CASE b.size < Len(b.array)
    BY <1>1, <1>2 DEF Grown
  <1>3. CASE ~(b.size < Len(b.array))
    <2> DEFINE u == Uncleared(b)
    <2>1. g = [array |-> Padded(u, 2 * Len(b.array)), size |-> Len(u)]
      BY <1>3 DEF Grown
    <2>2. IsKept(u, b.array, b.size)
      BY UnclearedIs
    <2> HIDE DEF u
    <2>3. u \in Seq(Refs) /\ Len(u) \in Nat /\ Len(u) <= b.size
      BY <2>2 DEF IsKept
    <2>4. Len(b.array) # 0
      BY <1>1
    <2>5. Len(u) <= 2 * Len(b.array) /\ 2 * Len(b.array) \in Nat \ {0}
          /\ Len(u) < 2 * Len(b.array) /\ 2 * Len(b.array) # Len(b.array)
      BY <1>1, <2>3, <2>4
    <2>6. /\ BufferShape(g) /\ Len(g.array) = 2 * Len(b.array)
          /\ \A j \in 1..g.size : g.array[j] = u[j]
      <3> DEFINE l == 2 * Len(b.array)
      <3>1. \A j, k \in 1..Len(u) : u[j].who = u[k].who => j = k
        BY <2>2 DEF IsKept
      <3>2. IsBufferOf(g, u, l)
        BY <2>1, <2>3, <2>5, <3>1 DEF IsBufferOf
      <3> HIDE DEF l
      <3>3. BufferShape(g) /\ Len(g.array) = l /\ \A j \in 1..g.size : g.array[j] = u[j]
        BY <3>2, BufferOf
      <3>4. QED
        BY <3>3 DEF l
    <2>7. g.size = Len(u)
      BY <2>1
    <2>8. \A j \in 1..g.size : \E k \in 1..b.size :
            g.array[j] = b.array[k] /\ b.array[k] \notin cleared
      <3> TAKE j \in 1..g.size
      <3>1. u[j] \notin cleared /\ \E k \in 1..b.size : u[j] = b.array[k]
        BY <2>2, <2>7 DEF IsKept
      <3>2. g.array[j] = u[j]
        BY <2>6
      <3>3. QED
        BY <3>1, <3>2
    <2>9. \A k \in 1..b.size : b.array[k] \notin cleared =>
            \E j \in 1..g.size : g.array[j] = b.array[k]
      BY <2>2, <2>6, <2>7 DEF IsKept
    <2>10. g.size < Len(g.array) /\ Len(g.array) # Len(b.array)
      BY <2>5, <2>6, <2>7
    <2>11. QED
      BY <2>6, <2>8, <2>9, <2>10
  <1>4. QED
    BY <1>2, <1>3

\* Another reference at the end of a buffer.
LEMMA AddedIs ==
  ASSUME NEW b, BufferShape(b), b.size < Len(b.array), NEW r \in Refs,
         \A j \in 1..b.size : b.array[j].who # r.who, NEW c, c = Added(b, r)
  PROVE  /\ BufferShape(c) /\ Len(c.array) = Len(b.array) /\ c.size = b.size + 1
         /\ c.array[b.size + 1] = r
         /\ \A j \in 1..b.size : c.array[j] = b.array[j]
  <1> DEFINE n == b.size
  <1>1. b.array \in Seq(Places) /\ Len(b.array) \in Nat /\ n \in Nat /\ n < Len(b.array)
        /\ b.array # <<>>
    BY DEF BufferShape, Buffers
  <1>2. c.array = [b.array EXCEPT ![n + 1] = r] /\ c.size = n + 1
        /\ c = [array |-> c.array, size |-> c.size]
    BY DEF Added
  <1>3. r \in Places
    BY DEF Places
  <1> HIDE DEF n
  <1>4. n + 1 \in 1..Len(b.array)
    BY <1>1
  <1>5. /\ c.array \in Seq(Places) /\ Len(c.array) = Len(b.array) /\ c.array[n + 1] = r
        /\ \A j \in 1..Len(b.array) : j # n + 1 => c.array[j] = b.array[j]
    BY <1>1, <1>2, <1>3, <1>4
  <1>6. \A j \in 1..n : j \in 1..Len(b.array) /\ j # n + 1
    BY <1>1
  <1>7. \A j \in 1..n : c.array[j] = b.array[j]
    BY <1>5, <1>6
  <1>8. \A j \in 1..(n + 1) : j = n + 1 \/ j \in 1..n
    BY <1>1
  <1>9. \A j \in 1..(n + 1) : c.array[j] \in Refs
    BY <1>5, <1>7, <1>8 DEF BufferShape, n
  <1>10. \A j, k \in 1..(n + 1) : c.array[j].who = c.array[k].who => j = k
    <2>1. \A j, k \in 1..n : c.array[j].who = c.array[k].who => j = k
      BY <1>7 DEF BufferShape, n
    <2>2. \A j \in 1..n : c.array[j].who # c.array[n + 1].who
      BY <1>5, <1>7 DEF n
    <2>3. QED
      BY <1>8, <2>1, <2>2
  <1>11. c \in Buffers
    <2>1. n + 1 \in Nat
      BY <1>1
    <2>2. QED
      BY <1>2, <1>5, <2>1 DEF Buffers
  <1>12. c.array # <<>> /\ n + 1 <= Len(c.array)
    BY <1>1, <1>5
  <1>13. BufferShape(c)
    BY <1>2, <1>9, <1>10, <1>11, <1>12 DEF BufferShape
  <1>14. QED
    BY <1>2, <1>5, <1>7, <1>13 DEF n

\* The last reference takes the place of the one that is taken out.
LEMMA RemovedIs ==
  ASSUME NEW b, BufferShape(b), NEW i \in 1..b.size, NEW c, c = Removed(b, i)
  PROVE  /\ BufferShape(c) /\ Len(c.array) = Len(b.array) /\ c.size = b.size - 1
         /\ \A j \in 1..c.size :
              c.array[j] = IF j = i THEN b.array[b.size] ELSE b.array[j]
  <1> DEFINE n == b.size
             r == b.array[n]
             a == [b.array EXCEPT ![i] = r]
  <1>1. b.array \in Seq(Places) /\ Len(b.array) \in Nat /\ n \in Nat /\ n <= Len(b.array)
        /\ b.array # <<>>
    BY DEF BufferShape, Buffers
  <1>2. c.array = [a EXCEPT ![n] = NoRef] /\ c.size = n - 1
        /\ c = [array |-> c.array, size |-> c.size]
    BY DEF Removed
  <1>3. r \in Places /\ NoRef \in Places
    <2>1. b.size \in 1..b.size
      BY <1>1
    <2>2. QED
      BY <2>1 DEF Places, BufferShape
  <1> HIDE DEF n, r
  <1>4. n \in 1..Len(b.array) /\ i \in 1..Len(b.array)
    BY <1>1 DEF n
  <1>5. /\ a \in Seq(Places) /\ Len(a) = Len(b.array) /\ a[i] = r
        /\ \A j \in 1..Len(b.array) : j # i => a[j] = b.array[j]
    BY <1>1, <1>3, <1>4
  <1> HIDE DEF a
  <1>6. /\ c.array \in Seq(Places) /\ Len(c.array) = Len(b.array)
        /\ \A j \in 1..Len(b.array) : j # n => c.array[j] = a[j]
    BY <1>2, <1>3, <1>4, <1>5
  <1>7. \A j \in 1..(n - 1) : j \in 1..Len(b.array) /\ j # n /\ j \in 1..n
    BY <1>1
  <1>8. \A j \in 1..(n - 1) : c.array[j] = IF j = i THEN r ELSE b.array[j]
    BY <1>5, <1>6, <1>7
  <1>9. /\ \A j \in 1..n : b.array[j] \in Refs
        /\ \A j, k \in 1..n : b.array[j].who = b.array[k].who => j = k
    BY DEF BufferShape, n
  <1>10. n \in 1..n
    BY <1>1 DEF n
  <1>11. \A j \in 1..(n - 1) : c.array[j] \in Refs
    BY <1>7, <1>8, <1>9, <1>10 DEF r
  <1>12. \A j, k \in 1..(n - 1) : c.array[j].who = c.array[k].who => j = k
    BY <1>7, <1>8, <1>9, <1>10 DEF r
  <1>13. n - 1 \in Nat /\ n - 1 <= Len(c.array) /\ c.array # <<>>
    BY <1>1, <1>4, <1>6
  <1>14. c \in Buffers
    BY <1>2, <1>6, <1>13 DEF Buffers
  <1>15. BufferShape(c)
    BY <1>2, <1>11, <1>12, <1>13, <1>14 DEF BufferShape
  <1>16. QED
    BY <1>2, <1>6, <1>8, <1>15 DEF n, r

\* The references in demux are those that it holds.
LEMMA EntriesAre ==
  ASSUME DemuxShape(demux, single, buffer, table)
  PROVE  Entries = Held(demux, single, buffer, table)
  <1>1. CASE demux = "buffer"
    <2> DEFINE s == SubSeq(buffer.array, 1, buffer.size)
    <2>1. buffer.array \in Seq(Places) /\ buffer.size \in Nat /\ buffer.size <= Len(buffer.array)
      BY <1>1 DEF DemuxShape, BufferShape, Buffers
    <2>2. DOMAIN s = 1..buffer.size /\ \A j \in 1..buffer.size : s[j] = buffer.array[j]
      BY <2>1
    <2> HIDE DEF s
    <2>3. ToSet(s) = {buffer.array[j] : j \in 1..buffer.size}
      BY <2>2 DEF ToSet
    <2>4. QED
      BY <1>1, <2>3 DEF Entries, Held, s
  <1>2. CASE demux # "buffer"
    BY <1>2 DEF Entries, Held, DemuxShape
  <1>3. QED
    BY <1>1, <1>2

-----------------------------------------------------------------------------
\* Of what a loop still does, g is like f.
SameLoop(f, g) ==
  /\ g.kind = f.kind /\ g.until = f.until /\ g.todo = f.todo
  /\ g.due = f.due /\ g.told = f.told /\ Waiting(g) = Waiting(f)

\* A loop is as good over an array with the same references in the places that
\* it has still to come to.
LEMMA LikeLoop ==
  ASSUME NEW f, NEW g, NEW arr, NEW brr, NEW st, NEW cl,
         FrameShape(f, arr, st, cl), g \in Frames, SameLoop(f, g),
         \A j \in Waiting(f) : brr[j] = arr[j],
         f.kind = "buffer" => f.until <= Len(brr)
  PROVE  FrameShape(g, brr, st, cl)
  <1>1. /\ g.kind = f.kind /\ g.until = f.until /\ g.todo = f.todo
        /\ g.due = f.due /\ g.told = f.told /\ Waiting(g) = Waiting(f)
    BY DEF SameLoop
  <1>2. Left(g, brr) = Left(f, arr)
    <2>1. {brr[j] : j \in Waiting(g)} = {arr[j] : j \in Waiting(f)}
      BY <1>1
    <2>2. QED
      BY <1>1, <2>1 DEF Left
  <1>3. \A o : Told(g, o) <=> Told(f, o)
    BY <1>1 DEF Told
  <1>4. LeftShape(g, brr, st, cl)
    BY <1>1, <1>2, <1>3 DEF FrameShape, LeftShape
  <1>5. DueShape(g, brr, st)
    BY <1>1, <1>2, <1>3 DEF FrameShape, DueShape
  <1>6. ToldShape(g, st)
    BY <1>1 DEF FrameShape, ToldShape
  <1>7. QED
    BY <1>4, <1>5, <1>6 DEF FrameShape

\* What a loop holds.
LEMMA FrameTypes ==
  ASSUME NEW f \in Frames
  PROVE  /\ f.kind \in {"ref", "buffer", "table"} /\ f.i \in Nat \ {0} /\ f.until \in Nat
         /\ f.old \in Seq(Places) /\ f.todo \in SUBSET Refs /\ f.made \in Nat
         /\ f.cur \in Observers \cup {NoRef} /\ f.due \in SUBSET Observers
         /\ f.told \in Seq(Observers \X BOOLEAN)
  BY DEF Frames

\* Subscribing another observer changes nothing for a loop.
LEMMA SubscribedLoop ==
  ASSUME NEW f, NEW arr, NEW st \in Statuses, NEW cl, FrameShape(f, arr, st, cl),
         NEW o \in Observers, st[o] = "new"
  PROVE  FrameShape(f, arr, [st EXCEPT ![o] = "live"], cl)
  <1> DEFINE new == [st EXCEPT ![o] = "live"]
  <1>1. f \in Frames
    BY DEF FrameShape
  <1>2. \A p \in Observers : st[p] # "new" => new[p] = st[p]
    BY DEF Statuses
  <1> HIDE DEF new
  <1>3. LeftShape(f, arr, new, cl)
    <2>1. \A r \in Left(f, arr) : r \in Refs /\ r.who \in Observers /\ st[r.who] # "new"
      BY DEF FrameShape, LeftShape, Refs
    <2>2. \A r \in Left(f, arr) : new[r.who] = st[r.who]
      BY <1>2, <2>1
    <2>3. QED
      BY <2>1, <2>2 DEF FrameShape, LeftShape
  <1>4. DueShape(f, arr, new)
    <2>1. \A p \in f.due : p \in Observers /\ st[p] # "new"
      BY <1>1, FrameTypes DEF FrameShape, DueShape
    <2>2. \A p \in f.due : new[p] = st[p]
      BY <1>2, <2>1
    <2>3. QED
      BY <2>1, <2>2 DEF FrameShape, DueShape
  <1>5. ToldShape(f, new)
    <2>1. \A k \in 1..Len(f.told) : f.told[k][1] \in Observers
      BY <1>1, FrameTypes
    <2>2. \A k \in 1..Len(f.told) : new[f.told[k][1]] = st[f.told[k][1]]
      BY <1>2, <2>1 DEF FrameShape, ToldShape, Callable
    <2>3. QED
      BY <2>2 DEF FrameShape, ToldShape, Callable
  <1>6. QED
    BY <1>1, <1>3, <1>4, <1>5 DEF FrameShape, new

\* A loop over a table may come to the new reference, r.
LEMMA SeenByLoop ==
  ASSUME NEW f, NEW arr, NEW st \in Statuses, NEW cl, FrameShape(f, arr, st, cl),
         f.kind # "buffer", NEW r \in Refs, st[r.who] = "new", NEW more \in SUBSET {r}
  PROVE  FrameShape([f EXCEPT !.todo = @ \cup more], arr, [st EXCEPT ![r.who] = "live"], cl)
  <1> DEFINE new == [st EXCEPT ![r.who] = "live"]
             g == [f EXCEPT !.todo = @ \cup more]
  <1>1. f \in Frames /\ r.who \in Observers
    BY DEF FrameShape, Refs
  <1>2. /\ g \in Frames /\ g.kind = f.kind /\ g.until = f.until /\ g.due = f.due
        /\ g.told = f.told /\ g.todo = f.todo \cup more
    BY <1>1 DEF Frames
  <1> HIDE DEF g
  <1>3. FrameShape(f, arr, new, cl) /\ new[r.who] = "live"
    BY <1>1, SubscribedLoop DEF Statuses
  <1> HIDE DEF new
  <1>4. Waiting(f) = {} /\ Waiting(g) = {}
    BY <1>2 DEF Waiting
  <1>5. Left(f, arr) = f.todo /\ Left(g, arr) = f.todo \cup more
    BY <1>2, <1>4 DEF Left
  <1>6. \A o : Told(g, o) <=> Told(f, o)
    BY <1>2 DEF Told
  <1>7. ~Told(f, r.who)
    BY DEF Told, FrameShape, ToldShape, Callable
  <1>8. \A x \in f.todo : x.who # r.who
    BY <1>5 DEF FrameShape, LeftShape
  <1>9. LeftShape(g, arr, new, cl)
    <2>1. \A x \in f.todo \cup more : /\ x \in Refs /\ new[x.who] # "new" /\ ~Told(g, x.who)
                                      /\ new[x.who] = "gone" => x \in cl
      BY <1>3, <1>5, <1>6, <1>7 DEF FrameShape, LeftShape
    <2>2. Apart(f.todo)
      BY DEF FrameShape, LeftShape
    <2>3. Apart(f.todo \cup more)
      BY <1>8, <2>2 DEF Apart
    <2>4. QED
      BY <1>2, <1>4, <1>5, <2>1, <2>3 DEF LeftShape
  <1>10. DueShape(g, arr, new)
    BY <1>2, <1>3, <1>5, <1>6 DEF FrameShape, DueShape
  <1>11. ToldShape(g, new)
    BY <1>2, <1>3 DEF FrameShape, ToldShape
  <1>12. QED
    BY <1>2, <1>9, <1>10, <1>11 DEF FrameShape, new, g

\* The end of a subscription, whose reference is cleared or missed.
LEMMA UnsubscribedLoop ==
  ASSUME NEW f, NEW arr, NEW st \in Statuses, NEW cl, FrameShape(f, arr, st, cl),
         NEW o \in Observers, st[o] = "live", NEW w \in {"gone", "missed"},
         NEW new, new = [st EXCEPT ![o] = w], NEW all, cl \subseteq all,
         \A r \in Left(f, arr) : w = "gone" /\ r.who = o => r \in all
  PROVE  FrameShape(f, arr, new, all)
  <1>1. new[o] = w /\ \A p \in Observers : p # o => new[p] = st[p]
    BY DEF Statuses
  <1>2. f \in Frames
    BY DEF FrameShape
  <1>3. LeftShape(f, arr, new, all)
    <2>1. \A r \in Left(f, arr) : /\ r \in Refs /\ r.who \in Observers /\ st[r.who] # "new"
                                  /\ ~Told(f, r.who) /\ (st[r.who] = "gone" => r \in cl)
      BY DEF FrameShape, LeftShape, Refs
    <2>2. \A r \in Left(f, arr) : new[r.who] # "new" /\ (new[r.who] = "gone" => r \in all)
      BY <1>1, <2>1
    <2>3. QED
      BY <2>1, <2>2 DEF FrameShape, LeftShape
  <1>4. DueShape(f, arr, new)
    <2>1. \A p \in f.due : p \in Observers
      BY <1>2, FrameTypes
    <2>2. QED
      BY <1>1, <2>1 DEF FrameShape, DueShape
  <1>5. ToldShape(f, new)
    <2>1. \A k \in 1..Len(f.told) : f.told[k][1] \in Observers
      BY <1>2, FrameTypes
    <2>2. \A k \in 1..Len(f.told) : Callable(f.told[k], new)
      BY <1>1, <2>1 DEF FrameShape, ToldShape, Callable
    <2>3. QED
      BY <2>2 DEF FrameShape, ToldShape
  <1>6. QED
    BY <1>2, <1>3, <1>4, <1>5 DEF FrameShape

\* The loop f calls the observer of r, subscribed or not now, which leaves g to it.
Calling(f, g, r, arr, now) ==
  /\ g \in Frames /\ g.kind = f.kind /\ g.until = f.until /\ g.due = f.due
  /\ g.told = Append(f.told, <<r.who, now>>)
  /\ g.todo \subseteq f.todo /\ Waiting(g) \subseteq Waiting(f)
  /\ r \in Left(f, arr)
  /\ \A x \in Left(f, arr) : x.who # r.who => x \in Left(g, arr)
  /\ \A x \in Left(g, arr) : x \in Left(f, arr) /\ x.who # r.who

\* A loop that calls an observer does it for the first time.
LEMMA CallKeeps ==
  ASSUME NEW f, NEW g, NEW r, NEW arr, NEW st \in Statuses, NEW cl,
         FrameShape(f, arr, st, cl), NEW now \in BOOLEAN, Calling(f, g, r, arr, now),
         st[r.who] \in {"live", "missed"}, now = FALSE => st[r.who] = "missed"
  PROVE  FrameShape(g, arr, st, cl)
  <1> DEFINE o == r.who
             n == Len(f.told)
  <1>1. f \in Frames /\ g \in Frames
    BY DEF FrameShape, Calling
  <1>2. r \in Refs /\ o \in Observers /\ ~Told(f, o)
    BY DEF FrameShape, LeftShape, Calling, Refs
  <1>3. f.told \in Seq(Observers \X BOOLEAN) /\ n \in Nat
    BY <1>1, FrameTypes
  <1>4. /\ Len(g.told) = n + 1 /\ g.told[n + 1] = <<o, now>>
        /\ \A k \in 1..n : g.told[k] = f.told[k]
    <2> DEFINE S == Observers \X BOOLEAN
               e == <<o, now>>
               s == f.told
    <2>1. g.told = Append(s, e) /\ e \in S /\ s \in Seq(S) /\ n = Len(s)
      BY <1>2, <1>3 DEF Calling
    <2> HIDE DEF S, e, s, n
    <2>2. /\ Len(g.told) = n + 1 /\ g.told[n + 1] = e
          /\ \A k \in 1..n : g.told[k] = s[k]
      BY <2>1
    <2>3. QED
      BY <2>2 DEF e, s
  <1> HIDE DEF n, o
  <1>5. \A k \in 1..(n + 1) : k = n + 1 \/ k \in 1..n
    BY <1>3
  <1>6. \A p : Told(g, p) <=> Told(f, p) \/ p = o
    <2> TAKE p
    <2>1. ASSUME Told(f, p) PROVE Told(g, p)
      <3>1. PICK k \in 1..n : f.told[k][1] = p
        BY <2>1 DEF Told, n
      <3>2. g.told[k][1] = p
        BY <1>4, <3>1
      <3>3. k \in 1..(n + 1)
        BY <1>3
      <3>4. k \in 1..Len(g.told)
        BY <1>4, <3>3
      <3>5. QED
        BY <3>2, <3>4 DEF Told
    <2>2. Told(g, o)
      <3>1. n + 1 \in 1..Len(g.told)
        BY <1>3, <1>4
      <3>2. QED
        BY <1>4, <3>1 DEF Told
    <2>3. ASSUME Told(g, p) PROVE Told(f, p) \/ p = o
      <3>1. PICK k \in 1..(n + 1) : g.told[k][1] = p
        BY <1>4, <2>3 DEF Told
      <3>2. CASE k = n + 1
        BY <1>4, <3>1, <3>2
      <3>3. CASE k \in 1..n
        BY <1>4, <3>1, <3>3 DEF Told, n
      <3>4. QED
        BY <1>5, <3>2, <3>3
    <2>4. QED
      BY <2>1, <2>2, <2>3
  <1>7. LeftShape(g, arr, st, cl)
    <2>1. g.kind = "buffer" => g.todo = {} /\ g.until <= Len(arr)
      BY DEF FrameShape, LeftShape, Calling
    <2>2. \A x \in Left(g, arr) : /\ x \in Refs /\ st[x.who] # "new" /\ ~Told(g, x.who)
                                  /\ st[x.who] = "gone" => x \in cl
      BY <1>6 DEF FrameShape, LeftShape, Calling, o
    <2>3. Apart(g.todo)
      BY DEF FrameShape, LeftShape, Calling, Apart
    <2>4. \A j, k \in Waiting(g) : arr[j].who = arr[k].who => j = k
      BY DEF FrameShape, LeftShape, Calling
    <2>5. QED
      BY <2>1, <2>2, <2>3, <2>4 DEF LeftShape
  <1>8. DueShape(g, arr, st)
    <2> SUFFICES ASSUME NEW p \in f.due
                 PROVE  /\ st[p] # "new"
                        /\ st[p] = "live" => Told(g, p) \/ \E x \in Left(g, arr) : x.who = p
      BY DEF DueShape, Calling
    <2>1. /\ st[p] # "new"
          /\ st[p] = "live" => Told(f, p) \/ \E x \in Left(f, arr) : x.who = p
      BY DEF FrameShape, DueShape
    <2>2. \A x \in Left(f, arr) : x.who # o => x \in Left(g, arr)
      BY DEF Calling, o
    <2>3. QED
      BY <1>6, <2>1, <2>2
  <1>9. ToldShape(g, st)
    <2>1. /\ \A k \in 1..n : Callable(f.told[k], st)
          /\ \A j, k \in 1..n : f.told[j][1] = f.told[k][1] => j = k
      BY DEF FrameShape, ToldShape, n
    <2>2. \A k \in 1..n : g.told[k][1] # g.told[n + 1][1]
      BY <1>2, <1>4 DEF Told, n
    <2>3. Callable(<<o, now>>, st)
      BY DEF Callable, o
    <2>4. \A k \in 1..(n + 1) : Callable(g.told[k], st)
      BY <1>4, <1>5, <2>1, <2>3
    <2>5. \A j, k \in 1..(n + 1) : g.told[j][1] = g.told[k][1] => j = k
      <3>1. \A j, k \in 1..n : g.told[j][1] = g.told[k][1] => j = k
        BY <1>4, <2>1
      <3>2. QED
        BY <1>5, <2>2, <3>1
    <2>6. QED
      BY <1>4, <2>4, <2>5 DEF ToldShape
  <1>10. QED
    BY <1>1, <1>7, <1>8, <1>9 DEF FrameShape

-----------------------------------------------------------------------------
\* The loop of the event that was emitted last.
LEMMA TopIs ==
  ASSUME StreamInv, Depth > 0
  PROVE  /\ stack \in Seq(Frames) /\ Depth \in Nat \ {0} /\ Depth = Len(stack)
         /\ Depth \in 1..Depth /\ Top = stack[Depth] /\ Top \in Frames
         /\ FrameShape(Top, ArrayOf(Top), status, cleared)
  <1>1. LoopsShape(stack, buffer, status, cleared)
    BY DEF StreamInv
  <1>2. stack \in Seq(Frames) /\ Depth \in Nat \ {0} /\ Depth = Len(stack)
    BY <1>1 DEF LoopsShape, Depth
  <1>3. Depth \in 1..Depth /\ Top = stack[Depth]
    BY <1>2 DEF Top
  <1>4. FrameShape(Top, ArrayIn(Top, buffer), status, cleared)
    BY <1>1, <1>2, <1>3 DEF LoopsShape
  <1>5. QED
    BY <1>2, <1>3, <1>4 DEF FrameShape, ArrayIn, ArrayOf

\* Who has a reference that is not cleared is subscribed, or was missed.
LEMMA LiveOnes ==
  ASSUME StreamInv
  PROVE  /\ status \in Statuses /\ cleared \in SUBSET Refs
         /\ \A r \in cleared : status[r.who] = "gone"
         /\ \A r \in Held(demux, single, buffer, table) :
              /\ r \in Refs /\ r.who \in Observers
              /\ r \notin cleared => status[r.who] \in {"live", "missed"}
  <1>1. EntriesShape(Held(demux, single, buffer, table), status, cleared)
    BY DEF StreamInv
  <1>2. status \in Statuses /\ cleared \in SUBSET Refs
        /\ \A r \in cleared : status[r.who] = "gone"
    BY <1>1 DEF EntriesShape
  <1>3. \A r \in Held(demux, single, buffer, table) :
          /\ r \in Refs /\ status[r.who] # "new"
          /\ status[r.who] = "gone" => r \in cleared
    BY <1>1 DEF EntriesShape
  <1>4. \A r \in Refs : r.who \in Observers
    BY DEF Refs
  <1>5. QED
    BY <1>2, <1>3, <1>4 DEF Statuses

\* One loop goes on, as g, over the same array and to the same end.
GoesOn(f, g) ==
  g.kind = f.kind /\ g.old = f.old /\ g.until = f.until /\ g.todo \subseteq f.todo

\* A step of the last loop.
LEMMA TopGoesOn ==
  ASSUME StreamInv, Depth > 0, NEW g, InTop(g), GoesOn(Top, g),
         FrameShape(g, ArrayOf(Top), status, cleared),
         UNCHANGED <<use, status, demux, single, buffer, table, made, cleared>>
  PROVE  StreamInv'
  <1> DEFINE n == Depth
  <1>1. /\ stack \in Seq(Frames) /\ n \in Nat \ {0} /\ n = Len(stack) /\ n \in 1..n
        /\ Top = stack[n]
    BY TopIs
  <1>2. g \in Frames /\ stack' = [stack EXCEPT ![n] = g]
    BY DEF InTop, FrameShape
  <1> HIDE DEF n
  <1>3. /\ stack' \in Seq(Frames) /\ Len(stack') = n /\ stack'[n] = g
        /\ \A d \in 1..n : d # n => stack'[d] = stack[d]
    BY <1>1, <1>2
  <1>4. ArrayOf(Top) = ArrayIn(g, buffer)
    BY DEF GoesOn, ArrayOf, ArrayIn
  <1>5. LoopsShape(stack', buffer, status, cleared)
    <2>1. \A d \in 1..n : FrameShape(stack[d], ArrayIn(stack[d], buffer), status, cleared)
      BY <1>1 DEF StreamInv, LoopsShape
    <2>2. \A d \in 1..n : FrameShape(stack'[d], ArrayIn(stack'[d], buffer), status, cleared)
      BY <1>3, <1>4, <2>1
    <2>3. QED
      BY <1>3, <2>2 DEF LoopsShape
  <1>6. Depth' = n
    BY <1>3 DEF Depth
  <1>7. CancelShape'
    <2> SUFFICES ASSUME use = "cancel"
                 PROVE  /\ n <= 1
                        /\ \A d \in 1..n :
                             /\ stack'[d].kind = demux /\ stack'[d].old = <<>>
                             /\ stack'[d].kind = "buffer" => stack'[d].until = buffer.size
                             /\ stack'[d].todo \subseteq Held(demux, single, buffer, table)
      BY <1>6 DEF CancelShape
    <2>1. /\ n <= 1
          /\ \A d \in 1..n :
               /\ stack[d].kind = demux /\ stack[d].old = <<>>
               /\ stack[d].kind = "buffer" => stack[d].until = buffer.size
               /\ stack[d].todo \subseteq Held(demux, single, buffer, table)
      BY DEF StreamInv, CancelShape, n
    <2>2. /\ g.kind = demux /\ g.old = <<>>
          /\ g.kind = "buffer" => g.until = buffer.size
          /\ g.todo \subseteq Held(demux, single, buffer, table)
      BY <1>1, <2>1 DEF GoesOn
    <2>3. QED
      BY <1>3, <2>1, <2>2
  <1>8. GrowShape'
    <2> SUFFICES ASSUME use = "grow"
                 PROVE  /\ cleared = {}
                        /\ demux = "none" => n = 0
                        /\ demux = "buffer" => buffer.size >= 2
                        /\ \A d \in 1..n : GrowingLoop(stack'[d], demux, buffer)
      BY <1>6 DEF GrowShape
    <2>1. /\ cleared = {}
          /\ demux = "none" => n = 0
          /\ demux = "buffer" => buffer.size >= 2
          /\ \A d \in 1..n : GrowingLoop(stack[d], demux, buffer)
      BY DEF StreamInv, GrowShape, n
    <2>2. GrowingLoop(g, demux, buffer)
      BY <1>1, <2>1 DEF GoesOn, GrowingLoop
    <2>3. QED
      BY <1>3, <2>1, <2>2
  <1>9. QED
    BY <1>5, <1>7, <1>8 DEF StreamInv

\* One more observer has been called.
LEMMA OneMoreTold ==
  ASSUME NEW s \in Seq(Observers \X BOOLEAN), NEW o \in Observers, NEW now \in BOOLEAN
  PROVE  Append(s, <<o, now>>) \in Seq(Observers \X BOOLEAN)
  <1> DEFINE S == Observers \X BOOLEAN
             e == <<o, now>>
  <1>1. e \in S /\ s \in Seq(S)
    OBVIOUS
  <1> HIDE DEF S, e
  <1>2. Append(s, e) \in Seq(S)
    BY <1>1
  <1>3. QED
    BY <1>2 DEF S, e

\* The next observer of a buffer is called.
LEMMA CallFromBuffer_Inv ==
  ASSUME StreamInv, CallFromBuffer
  PROVE  StreamInv'
  <1> DEFINE f == Top
             arr == ArrayOf(f)
             r == arr[f.i]
             now == status[r.who] = "live"
             g == Called(f, r)
  <1>1. /\ Depth > 0 /\ f.cur = NoRef /\ f.kind = "buffer" /\ f.i <= f.until
        /\ r \notin cleared /\ InTop(g)
        /\ UNCHANGED <<use, status, demux, single, buffer, table, made, cleared>>
    BY DEF CallFromBuffer, Loops, demuxVars
  <1>2. f \in Frames /\ FrameShape(f, arr, status, cleared)
    BY <1>1, TopIs
  <1>3. f.i \in Nat \ {0} /\ f.until \in Nat
    BY <1>2, FrameTypes
  <1> HIDE DEF f, arr
  <1>4. Waiting(f) = f.i..f.until /\ f.i \in Waiting(f)
    BY <1>1, <1>3 DEF Waiting, Place
  <1>5. f.todo = {} /\ Left(f, arr) = {arr[j] : j \in Waiting(f)} /\ r \in Left(f, arr)
    BY <1>1, <1>2, <1>4 DEF FrameShape, LeftShape, Left
  <1>6. r \in Refs /\ r.who \in Observers /\ status[r.who] \in {"live", "missed"}
    <2>1. r \in Refs /\ status[r.who] # "new" /\ (status[r.who] = "gone" => r \in cleared)
      BY <1>2, <1>5 DEF FrameShape, LeftShape
    <2>2. r.who \in Observers
      BY <2>1 DEF Refs
    <2>3. QED
      BY <1>1, <2>1, <2>2, LiveOnes DEF Statuses
  <1> HIDE DEF r
  <1>7. /\ g = [f EXCEPT !.cur = r.who, !.told = Append(f.told, <<r.who, now>>)]
        /\ now \in BOOLEAN /\ (now = FALSE => status[r.who] = "missed")
    BY <1>6 DEF Called
  <1> HIDE DEF now
  <1>8. Append(f.told, <<r.who, now>>) \in Seq(Observers \X BOOLEAN)
    BY <1>2, <1>6, <1>7, FrameTypes, OneMoreTold
  <1>9. /\ g \in Frames /\ g.kind = f.kind /\ g.until = f.until /\ g.due = f.due
        /\ g.i = f.i /\ g.old = f.old /\ g.todo = f.todo /\ g.cur = r.who
        /\ g.told = Append(f.told, <<r.who, now>>)
    BY <1>2, <1>6, <1>7, <1>8 DEF Frames
  <1> HIDE DEF g
  <1>10. g.cur # NoRef
    BY <1>6, <1>9, StreamAssumption
  <1>11. Waiting(g) = (f.i + 1)..f.until
    BY <1>1, <1>9, <1>10 DEF Waiting, Place
  <1>12. \A j \in Waiting(f) : j \in Waiting(g) \/ j = f.i
    BY <1>3, <1>4, <1>11
  <1>13. \A j \in Waiting(g) : j \in Waiting(f) /\ j # f.i
    BY <1>3, <1>4, <1>11
  <1>14. Left(g, arr) = {arr[j] : j \in Waiting(g)}
    BY <1>5, <1>9 DEF Left
  <1>15. \A j, k \in Waiting(f) : arr[j].who = arr[k].who => j = k
    BY <1>2 DEF FrameShape, LeftShape
  <1>16. \A x \in Left(f, arr) : x.who # r.who => x \in Left(g, arr)
    <2> TAKE x \in Left(f, arr)
    <2>1. PICK j \in Waiting(f) : x = arr[j]
      BY <1>5
    <2>2. QED
      BY <1>12, <1>14, <2>1 DEF r
  <1>17. \A x \in Left(g, arr) : x \in Left(f, arr) /\ x.who # r.who
    <2> TAKE x \in Left(g, arr)
    <2>1. PICK j \in Waiting(g) : x = arr[j]
      BY <1>14
    <2>2. QED
      BY <1>4, <1>5, <1>13, <1>15, <2>1 DEF r
  <1>18. Calling(f, g, r, arr, now)
    BY <1>5, <1>9, <1>13, <1>16, <1>17 DEF Calling
  <1>19. FrameShape(g, arr, status, cleared)
    BY <1>2, <1>6, <1>7, <1>18, CallKeeps, LiveOnes
  <1>20. GoesOn(f, g)
    BY <1>9 DEF GoesOn
  <1>21. QED
    BY <1>1, <1>19, <1>20, TopGoesOn DEF f, arr, g, r

\* The observer of a Ref, or of an entry of a table, is called.
LEMMA CallFromTable_Inv ==
  ASSUME StreamInv, CallFromTable
  PROVE  StreamInv'
  <1> DEFINE f == Top
             arr == ArrayOf(f)
  <1>1. /\ Depth > 0 /\ f.cur = NoRef
        /\ UNCHANGED <<use, status, demux, single, buffer, table, made, cleared>>
    BY DEF CallFromTable, Loops, demuxVars
  <1>2. PICK r \in f.todo \ cleared : InTop(Called([f EXCEPT !.todo = @ \ {r}], r))
    BY DEF CallFromTable
  <1> DEFINE h == [f EXCEPT !.todo = @ \ {r}]
             g == Called(h, r)
             now == status[r.who] = "live"
  <1>3. f \in Frames /\ FrameShape(f, arr, status, cleared)
    BY <1>1, TopIs
  <1> HIDE DEF f, arr
  <1>4. f.kind # "buffer" /\ Waiting(f) = {} /\ Left(f, arr) = f.todo
    BY <1>2, <1>3 DEF FrameShape, LeftShape, Waiting, Left
  <1>5. r \in Refs /\ r.who \in Observers /\ status[r.who] \in {"live", "missed"}
    <2>1. r \in Refs /\ status[r.who] # "new" /\ (status[r.who] = "gone" => r \in cleared)
      BY <1>2, <1>3, <1>4 DEF FrameShape, LeftShape
    <2>2. r.who \in Observers
      BY <2>1 DEF Refs
    <2>3. QED
      BY <1>2, <2>1, <2>2, LiveOnes DEF Statuses
  <1>6. /\ h \in Frames /\ h.kind = f.kind /\ h.until = f.until /\ h.due = f.due
        /\ h.old = f.old /\ h.todo = f.todo \ {r} /\ h.told = f.told
    BY <1>3 DEF Frames
  <1> HIDE DEF h
  <1>7. /\ g = [h EXCEPT !.cur = r.who, !.told = Append(h.told, <<r.who, now>>)]
        /\ now \in BOOLEAN /\ (now = FALSE => status[r.who] = "missed")
    BY <1>5 DEF Called
  <1> HIDE DEF now
  <1>8. Append(h.told, <<r.who, now>>) \in Seq(Observers \X BOOLEAN)
    BY <1>5, <1>6, <1>7, FrameTypes, OneMoreTold
  <1>9. /\ g \in Frames /\ g.kind = f.kind /\ g.until = f.until /\ g.due = f.due
        /\ g.old = f.old /\ g.todo = f.todo \ {r}
        /\ g.told = Append(f.told, <<r.who, now>>)
    <2>1. /\ g \in Frames /\ g.kind = h.kind /\ g.until = h.until /\ g.due = h.due
          /\ g.old = h.old /\ g.todo = h.todo
          /\ g.told = Append(h.told, <<r.who, now>>)
      BY <1>5, <1>6, <1>7, <1>8 DEF Frames
    <2>2. QED
      BY <1>6, <2>1
  <1> HIDE DEF g
  <1>10. Waiting(g) = {} /\ Left(g, arr) = f.todo \ {r}
    BY <1>4, <1>9 DEF Waiting, Left
  <1>11. \A x \in f.todo : x.who = r.who => x = r
    BY <1>2, <1>3 DEF FrameShape, LeftShape, Apart
  <1>12. Calling(f, g, r, arr, now)
    BY <1>2, <1>4, <1>9, <1>10, <1>11 DEF Calling
  <1>13. FrameShape(g, arr, status, cleared)
    BY <1>3, <1>5, <1>7, <1>12, CallKeeps, LiveOnes
  <1>14. GoesOn(f, g)
    BY <1>9 DEF GoesOn
  <1>15. QED
    BY <1>1, <1>2, <1>13, <1>14, TopGoesOn DEF f, arr, g, h

\* react returns, and its loop goes on with the next place.
LEMMA Return_Inv ==
  ASSUME StreamInv, Return
  PROVE  StreamInv'
  <1> DEFINE f == Top
             g == [f EXCEPT !.cur = NoRef, !.i = @ + 1]
  <1>1. /\ Depth > 0 /\ f.cur # NoRef /\ InTop(g)
        /\ UNCHANGED <<use, status, demux, single, buffer, table, made, cleared>>
    BY DEF Return, demuxVars
  <1>2. f \in Frames /\ FrameShape(f, ArrayOf(f), status, cleared)
    BY <1>1, TopIs
  <1> HIDE DEF f
  <1>3. f.i \in Nat \ {0} /\ f.i + 1 \in Nat \ {0}
    BY <1>2, FrameTypes
  <1>4. /\ g \in Frames /\ g.kind = f.kind /\ g.until = f.until /\ g.due = f.due
        /\ g.i = f.i + 1 /\ g.old = f.old /\ g.todo = f.todo /\ g.cur = NoRef
        /\ g.told = f.told
    BY <1>2, <1>3 DEF Frames
  <1> HIDE DEF g
  <1>5. SameLoop(f, g) /\ GoesOn(f, g)
    BY <1>1, <1>4 DEF SameLoop, GoesOn, Waiting, Place
  <1>6. FrameShape(g, ArrayOf(f), status, cleared)
    <2>1. f.kind = "buffer" => f.until <= Len(ArrayOf(f))
      BY <1>2 DEF FrameShape, LeftShape
    <2>2. QED
      BY <1>2, <1>4, <1>5, <2>1, LikeLoop
  <1>7. QED
    BY <1>1, <1>5, <1>6, TopGoesOn DEF f, g

-----------------------------------------------------------------------------
\* The entries E become F when o subscribes: there is one for o, and those that
\* are not cleared are kept.
JoinedBy(E, F, o, st, cl) ==
  /\ st[o] = "new"
  /\ \A r \in F : /\ r \in Refs
                  /\ r.who = o \/ r \in E \/ st[r.who] \in {"live", "missed"}
  /\ \E r \in F : r.who = o
  /\ \A r \in E : r \notin cl => \E s \in F : s.who = r.who

\* A new subscription has an entry, and the others that are live keep theirs.
LEMMA SubscribedEntries ==
  ASSUME NEW E, NEW F, NEW st, NEW cl, EntriesShape(E, st, cl),
         NEW o \in Observers, JoinedBy(E, F, o, st, cl)
  PROVE  EntriesShape(F, [st EXCEPT ![o] = "live"], cl)
  <1> DEFINE new == [st EXCEPT ![o] = "live"]
  <1> USE DEF JoinedBy
  <1>1. st \in Statuses /\ cl \in SUBSET Refs /\ \A r \in cl : st[r.who] = "gone"
    BY DEF EntriesShape
  <1>2. new \in Statuses /\ new[o] = "live" /\ \A p \in Observers : p # o => new[p] = st[p]
    BY <1>1 DEF Statuses
  <1> HIDE DEF new
  <1>3. \A r \in Refs : r.who \in Observers
    BY DEF Refs
  <1>4. \A r \in cl : new[r.who] = "gone"
    <2> TAKE r \in cl
    <2>1. r.who \in Observers /\ st[r.who] = "gone"
      BY <1>1, <1>3
    <2>2. r.who # o
      BY <2>1
    <2>3. QED
      BY <1>2, <2>1, <2>2
  <1>5. \A r \in F : /\ r \in Refs /\ new[r.who] # "new"
                     /\ new[r.who] = "gone" => r \in cl
    <2> TAKE r \in F
    <2>1. CASE r.who = o
      BY <2>1, <1>2
    <2>2. CASE r.who # o /\ st[r.who] \in {"live", "missed"}
      BY <2>2, <1>2, <1>3
    <2>3. CASE r.who # o /\ r \in E
      <3>1. st[r.who] # "new" /\ (st[r.who] = "gone" => r \in cl) /\ r \in Refs
        BY <2>3 DEF EntriesShape
      <3>2. QED
        BY <2>3, <3>1, <1>2, <1>3
    <2>4. QED
      BY <2>1, <2>2, <2>3
  <1>6. ASSUME NEW p \in Observers, new[p] = "live"
        PROVE  \E r \in F : r.who = p
    <2>1. CASE p = o
      BY <2>1
    <2>2. CASE p # o
      <3>1. PICK r \in E : r.who = p
        BY <1>2, <1>6, <2>2 DEF EntriesShape
      <3>2. r \notin cl
        BY <1>1, <1>2, <1>6, <2>2, <3>1
      <3>3. QED
        BY <3>1, <3>2
    <2>3. QED
      BY <2>1, <2>2
  <1>7. QED
    BY <1>1, <1>2, <1>4, <1>5, <1>6 DEF EntriesShape, new

\* The loops when someone has subscribed.
LEMMA SubscribedLoops ==
  ASSUME NEW sk, NEW b, NEW st, NEW cl, LoopsShape(sk, b, st, cl),
         st \in Statuses, NEW o \in Observers, st[o] = "new"
  PROVE  LoopsShape(sk, b, [st EXCEPT ![o] = "live"], cl)
  BY SubscribedLoop DEF LoopsShape

\* The loops when another buffer, c, has what the loops have still to come to.
LEMMA LoopsOver ==
  ASSUME NEW sk, NEW b, NEW c, NEW st, NEW cl, LoopsShape(sk, b, st, cl),
         \A d \in 1..Len(sk) : sk[d].kind = "buffer" /\ sk[d].old = <<>> =>
           sk[d].until <= Len(c.array)
             /\ \A j \in Waiting(sk[d]) : c.array[j] = b.array[j]
  PROVE  LoopsShape(sk, c, st, cl)
  <1> SUFFICES ASSUME NEW d \in 1..Len(sk)
               PROVE  FrameShape(sk[d], ArrayIn(sk[d], c), st, cl)
    BY DEF LoopsShape
  <1> DEFINE f == sk[d]
  <1>1. FrameShape(f, ArrayIn(f, b), st, cl) /\ f \in Frames
    BY DEF LoopsShape, FrameShape
  <1>2. SameLoop(f, f)
    BY DEF SameLoop
  <1>3. f.kind = "buffer" /\ f.old = <<>> =>
          f.until <= Len(c.array) /\ \A j \in Waiting(f) : c.array[j] = b.array[j]
    OBVIOUS
  <1> HIDE DEF f
  <1>4. f.kind = "buffer" => f.until <= Len(ArrayIn(f, c))
    BY <1>1, <1>3 DEF ArrayIn, FrameShape, LeftShape
  <1>5. \A j \in Waiting(f) : ArrayIn(f, c)[j] = ArrayIn(f, b)[j]
    BY <1>3 DEF ArrayIn, Waiting
  <1>6. FrameShape(f, ArrayIn(f, c), st, cl)
    BY <1>1, <1>2, <1>4, <1>5, LikeLoop
  <1>7. QED
    BY <1>6 DEF f

\* What is left to show when someone has subscribed: demux, and its loops.
LEMMA Subscribed ==
  ASSUME StreamInv, NEW o \in Observers, Subscribe(o),
         Depth' = Depth, made' \in Nat,
         DemuxShape(demux', single', buffer', table'),
         EntriesShape(Held(demux', single', buffer', table'), status', cleared),
         LoopsShape(stack', buffer', status', cleared),
         use = "grow" => /\ demux' # "none" /\ (demux' = "buffer" => buffer'.size >= 2)
                         /\ \A d \in 1..Depth : GrowingLoop(stack'[d], demux', buffer')
  PROVE  StreamInv'
  <1>1. use' = use /\ cleared' = cleared /\ (use = "cancel" => Depth = 0)
    BY DEF Subscribe, MaySubscribe
  <1>2. CancelShape'
    <2> SUFFICES ASSUME use = "cancel" PROVE Depth' <= 1 /\ 1..Depth' = {}
      BY <1>1 DEF CancelShape
    <2>1. Depth' = 0
      BY <1>1
    <2>2. QED
      BY <2>1
  <1>3. GrowShape'
    <2>1. use = "grow" => cleared = {}
      BY DEF StreamInv, GrowShape
    <2>2. QED
      BY <1>1, <2>1 DEF GrowShape
  <1>4. QED
    BY <1>1, <1>2, <1>3 DEF StreamInv

\* Where a new observer finds the other ones.
LEMMA Subscribing ==
  ASSUME StreamInv, NEW o \in Observers, Subscribe(o)
  PROVE  /\ status \in Statuses /\ status[o] = "new" /\ made \in Nat
         /\ status' = [status EXCEPT ![o] = "live"]
         /\ DemuxShape(demux, single, buffer, table)
         /\ EntriesShape(Held(demux, single, buffer, table), status, cleared)
         /\ LoopsShape(stack, buffer, status', cleared)
         /\ Depth = Len(stack) /\ Depth \in Nat
         /\ (use = "cancel" => Depth = 0) /\ use \in {"cancel", "grow"}
         /\ \A r \in Held(demux, single, buffer, table) : r.who # o
         /\ \A n \in Nat : Ref(o, n) \in Refs /\ Ref(o, n).who = o
  <1>1. /\ status[o] = "new" /\ status' = [status EXCEPT ![o] = "live"]
        /\ (use = "cancel" => Depth = 0)
    BY DEF Subscribe, MaySubscribe
  <1>2. status \in Statuses /\ \A r \in Held(demux, single, buffer, table) : status[r.who] # "new"
    BY DEF StreamInv, EntriesShape
  <1>3. LoopsShape(stack, buffer, status', cleared)
    BY <1>1, <1>2, SubscribedLoops DEF StreamInv
  <1>4. stack \in Seq(Frames) /\ Depth = Len(stack) /\ Depth \in Nat
    BY DEF StreamInv, LoopsShape, Depth
  <1>5. \A n \in Nat : Ref(o, n) \in Refs /\ Ref(o, n).who = o
    BY DEF Ref, Refs
  <1>6. QED
    BY <1>1, <1>2, <1>3, <1>4, <1>5 DEF StreamInv

\* The first observer makes a Ref.
LEMMA SubscribeFirst_Inv ==
  ASSUME StreamInv, NEW o \in Observers, Subscribe(o), demux = "none"
  PROVE  StreamInv'
  <1> DEFINE r == Ref(o, made)
  <1>1. demux' = "ref" /\ single' = r /\ UNCHANGED <<buffer, table, made, stack>>
    BY DEF Subscribe
  <1>2. r \in Refs /\ r.who = o
    BY Subscribing
  <1> HIDE DEF r
  <1>3. Depth = 0 /\ Depth' = 0
    <2>1. use = "grow" => Depth = 0
      BY DEF StreamInv, GrowShape
    <2>2. Depth = 0
      BY <2>1, Subscribing
    <2>3. QED
      BY <1>1, <2>2 DEF Depth
  <1>4. DemuxShape(demux', single', buffer', table')
    BY <1>1, <1>2 DEF StreamInv, DemuxShape
  <1>5. Held(demux', single', buffer', table') = {r} /\ Held(demux, single, buffer, table) = {}
    BY <1>1 DEF Held
  <1>6. EntriesShape(Held(demux', single', buffer', table'), status', cleared)
    <2> DEFINE E == Held(demux, single, buffer, table)
               F == Held(demux', single', buffer', table')
    <2>1. E = {} /\ F = {r}
      BY <1>5
    <2>2. EntriesShape(E, status, cleared) /\ status[o] = "new"
          /\ status' = [status EXCEPT ![o] = "live"]
      BY Subscribing
    <2> HIDE DEF E, F
    <2>3. JoinedBy(E, F, o, status, cleared)
      BY <1>2, <2>1, <2>2 DEF JoinedBy
    <2>4. EntriesShape(F, status', cleared)
      BY <2>2, <2>3, SubscribedEntries
    <2>5. QED
      BY <2>4 DEF F
  <1>7. LoopsShape(stack', buffer', status', cleared)
    BY <1>1, Subscribing
  <1>8. 1..Depth = {}
    BY <1>3
  <1>9. QED
    BY <1>1, <1>3, <1>4, <1>6, <1>7, <1>8, Subscribing, Subscribed

\* The second one turns it into a buffer.
LEMMA SubscribeSecond_Inv ==
  ASSUME StreamInv, NEW o \in Observers, Subscribe(o), demux = "ref"
  PROVE  StreamInv'
  <1> DEFINE r == Ref(o, made)
             u == <<single, r>>
             E == Held(demux, single, buffer, table)
             F == Held(demux', single', buffer', table')
  <1>1. /\ demux' = "buffer" /\ buffer' = [array |-> Padded(u, BufferSize), size |-> 2]
        /\ UNCHANGED <<single, table, made, stack>>
    BY DEF Subscribe
  <1>2. r \in Refs /\ r.who = o
    BY Subscribing
  <1>3. E = {single} /\ single \in Refs /\ single.who # o
    <2>1. E = {single}
      BY DEF Held
    <2>2. \A x \in E : x.who # o
      BY Subscribing
    <2>3. QED
      BY <2>1, <2>2 DEF StreamInv, DemuxShape
  <1> HIDE DEF r
  <1>4. u \in Seq(Refs) /\ Len(u) = 2 /\ u[1] = single /\ u[2] = r
    BY <1>2, <1>3
  <1> HIDE DEF u
  <1>5. BufferShape(buffer') /\ \A j \in 1..buffer'.size : buffer'.array[j] = u[j]
    <2>1. BufferSize \in Nat /\ Len(u) <= BufferSize /\ BufferSize # 0
      BY <1>4, StreamAssumption
    <2>2. \A j, k \in 1..Len(u) : u[j].who = u[k].who => j = k
      <3>1. \A j \in 1..2 : j = 1 \/ j = 2
        OBVIOUS
      <3>2. QED
        BY <1>2, <1>3, <1>4, <3>1
    <2>3. IsBufferOf(buffer', u, BufferSize)
      BY <1>1, <1>4, <2>1, <2>2 DEF IsBufferOf
    <2>4. QED
      BY <2>3, BufferOf
  <1>6. buffer'.size = 2
    BY <1>1
  <1>7. DemuxShape(demux', single', buffer', table')
    BY <1>1, <1>5 DEF DemuxShape, BufferShape
  <1>8. F = {single, r}
    <2>1. F = {buffer'.array[j] : j \in 1..2}
      BY <1>1, <1>6 DEF Held
    <2>2. buffer'.array[1] = single /\ buffer'.array[2] = r
      BY <1>4, <1>5, <1>6
    <2>3. 1..2 = {1, 2}
      OBVIOUS
    <2>4. QED
      BY <2>1, <2>2, <2>3
  <1>9. EntriesShape(E, status, cleared) /\ status[o] = "new"
        /\ status' = [status EXCEPT ![o] = "live"]
    BY Subscribing
  <1> HIDE DEF E
  <1>10. EntriesShape(F, status', cleared)
    <2> HIDE DEF F
    <2>1. JoinedBy(E, F, o, status, cleared)
      BY <1>2, <1>3, <1>8, <1>9 DEF JoinedBy
    <2>2. QED
      BY <1>9, <2>1, SubscribedEntries
  <1>11. \A d \in 1..Depth : stack[d].kind = "ref"
    <2> TAKE d \in 1..Depth
    <2>1. use = "grow"
      BY Subscribing
    <2>2. GrowingLoop(stack[d], demux, buffer)
      BY <2>1 DEF StreamInv, GrowShape
    <2>3. stack[d].kind \in {"ref", "buffer", "table"}
      BY Subscribing, FrameTypes DEF LoopsShape
    <2>4. QED
      BY <2>2, <2>3 DEF GrowingLoop
  <1>12. LoopsShape(stack', buffer', status', cleared)
    <2>1. \A d \in 1..Len(stack) : stack[d].kind # "buffer"
      BY <1>11, Subscribing
    <2>2. QED
      BY <1>1, <2>1, Subscribing, LoopsOver
  <1>13. Depth' = Depth
    BY <1>1 DEF Depth
  <1>14. \A d \in 1..Depth : GrowingLoop(stack'[d], demux', buffer')
    BY <1>1, <1>11 DEF GrowingLoop
  <1>15. QED
    BY <1>1, <1>6, <1>7, <1>10, <1>12, <1>13, <1>14, Subscribing, Subscribed

\* A reference of the new observer at the end of a buffer, which may have grown.
LEMMA BufferWith ==
  ASSUME NEW b, BufferShape(b), NEW r \in Refs, \A j \in 1..b.size : b.array[j].who # r.who,
         NEW c, c = Added(Grown(b), r)
  PROVE  /\ BufferShape(c) /\ r \in Held("buffer", single, c, table)
         /\ \A x \in Held("buffer", single, c, table) :
              x \in Held("buffer", single, b, table) \/ x = r
         /\ \A x \in Held("buffer", single, b, table) :
              x \notin cleared => x \in Held("buffer", single, c, table)
         /\ Len(c.array) = Len(b.array) =>
              /\ c.size = b.size + 1 /\ b.size < Len(b.array)
              /\ \A j \in 1..b.size : c.array[j] = b.array[j]
  <1> DEFINE g == Grown(b)
             n == g.size
  <1>1. /\ BufferShape(g) /\ g.size < Len(g.array)
        /\ Len(g.array) = Len(b.array) => g = b
        /\ \A j \in 1..g.size : \E k \in 1..b.size : g.array[j] = b.array[k]
        /\ \A k \in 1..b.size : b.array[k] \notin cleared =>
             \E j \in 1..g.size : g.array[j] = b.array[k]
    BY GrownIs
  <1>2. c = Added(g, r)
    OBVIOUS
  <1> HIDE DEF g
  <1>3. \A j \in 1..g.size : g.array[j].who # r.who
    BY <1>1
  <1>4. /\ BufferShape(c) /\ Len(c.array) = Len(g.array) /\ c.size = g.size + 1
        /\ c.array[g.size + 1] = r
        /\ \A j \in 1..g.size : c.array[j] = g.array[j]
    BY <1>1, <1>2, <1>3, AddedIs
  <1>5. n \in Nat /\ \A j \in 1..(n + 1) : j = n + 1 \/ j \in 1..n
    BY <1>1 DEF BufferShape, Buffers
  <1>6. n + 1 \in 1..(n + 1) /\ \A j \in 1..n : j \in 1..(n + 1)
    BY <1>5
  <1>7. /\ Held("buffer", single, c, table) = {c.array[j] : j \in 1..(n + 1)}
        /\ Held("buffer", single, b, table) = {b.array[j] : j \in 1..b.size}
    BY <1>4 DEF Held
  <1> HIDE DEF n
  <1>8. r \in {c.array[j] : j \in 1..(n + 1)}
    BY <1>4, <1>6 DEF n
  <1>9. \A x \in {c.array[j] : j \in 1..(n + 1)} : x \in {b.array[j] : j \in 1..b.size} \/ x = r
    <2> TAKE x \in {c.array[j] : j \in 1..(n + 1)}
    <2>1. PICK j \in 1..(n + 1) : x = c.array[j]
      OBVIOUS
    <2>2. CASE j = n + 1
      BY <2>1, <2>2, <1>4 DEF n
    <2>3. CASE j \in 1..n
      BY <2>1, <2>3, <1>1, <1>4 DEF n
    <2>4. QED
      BY <1>5, <2>2, <2>3
  <1>10. \A x \in {b.array[j] : j \in 1..b.size} :
           x \notin cleared => x \in {c.array[j] : j \in 1..(n + 1)}
    <2> TAKE x \in {b.array[j] : j \in 1..b.size}
    <2> HAVE x \notin cleared
    <2>1. PICK k \in 1..b.size : x = b.array[k]
      OBVIOUS
    <2>2. PICK j \in 1..n : g.array[j] = b.array[k]
      BY <1>1, <2>1 DEF n
    <2>3. x = c.array[j] /\ j \in 1..(n + 1)
      BY <1>4, <1>6, <2>1, <2>2 DEF n
    <2>4. QED
      BY <2>3
  <1>11. Len(c.array) = Len(b.array) =>
           /\ c.size = b.size + 1 /\ b.size < Len(b.array)
           /\ \A j \in 1..b.size : c.array[j] = b.array[j]
    BY <1>1, <1>4
  <1>12. QED
    BY <1>4, <1>7, <1>8, <1>9, <1>10, <1>11

\* Another observer of a buffer: a loop over it goes on as before, or over the
\* array that the buffer has grown out of.
LEMMA SubscribeToBuffer_Inv ==
  ASSUME StreamInv, NEW o \in Observers, Subscribe(o), demux = "buffer", buffer.size < Upper
  PROVE  StreamInv'
  <1> DEFINE r == Ref(o, made)
             b == buffer
             c == buffer'
             E == Held(demux, single, buffer, table)
             F == Held(demux', single', buffer', table')
             same == Len(c.array) = Len(b.array)
  <1>1. /\ c = Added(Grown(b), r) /\ UNCHANGED <<demux, single, table, made>>
        /\ stack' = IF same THEN stack ELSE [d \in 1..Depth |-> KeepingArray(stack[d])]
    <2>1. b.size \in Nat /\ Upper \in Nat /\ ~(b.size >= Upper)
      BY StreamAssumption DEF StreamInv, DemuxShape, Buffers
    <2>2. QED
      BY <2>1 DEF Subscribe
  <1>2. r \in Refs /\ r.who = o
    BY Subscribing
  <1>3. BufferShape(b) /\ \A j \in 1..b.size : b.array[j].who # o
    <2>1. BufferShape(b) /\ E = {b.array[j] : j \in 1..b.size}
      BY DEF StreamInv, DemuxShape, Held
    <2>2. \A x \in E : x.who # o
      BY Subscribing
    <2>3. QED
      BY <2>1, <2>2
  <1>4. E = Held("buffer", single, b, table) /\ F = Held("buffer", single, c, table)
        /\ demux' = "buffer"
    BY <1>1
  <1> HIDE DEF r, c, E, F
  <1>5. /\ BufferShape(c) /\ r \in F
        /\ \A x \in F : x \in E \/ x = r
        /\ \A x \in E : x \notin cleared => x \in F
        /\ same =>
              /\ c.size = b.size + 1 /\ b.size < Len(b.array)
              /\ \A j \in 1..b.size : c.array[j] = b.array[j]
    BY <1>1, <1>2, <1>3, <1>4, BufferWith
  <1>6. DemuxShape(demux', single', buffer', table')
    BY <1>4, <1>5 DEF DemuxShape, BufferShape, c
  <1>7. EntriesShape(E, status, cleared) /\ status[o] = "new"
        /\ status' = [status EXCEPT ![o] = "live"]
    BY Subscribing DEF E
  <1>8. EntriesShape(F, status', cleared)
    <2>1. \A x \in E : x \in Refs
      BY <1>7 DEF EntriesShape
    <2>2. JoinedBy(E, F, o, status, cleared)
      BY <1>2, <1>5, <1>7, <2>1 DEF JoinedBy
    <2>3. QED
      BY <1>7, <2>2, SubscribedEntries
  <1>9. /\ LoopsShape(stack, b, status', cleared) /\ stack \in Seq(Frames)
        /\ Depth = Len(stack) /\ Depth \in Nat
    BY Subscribing DEF LoopsShape
  <1>10. ASSUME NEW d \in 1..Depth
         PROVE  /\ use = "grow" /\ cleared = {} /\ b.size >= 2
                /\ GrowingLoop(stack[d], demux, b) /\ stack[d] \in Frames
    <2>1. use = "grow"
      BY Subscribing
    <2>2. QED
      BY <1>9, <2>1 DEF StreamInv, GrowShape
  <1>11. CASE same
    <2>1. stack' = stack
      BY <1>1, <1>11
    <2>2. ASSUME NEW d \in 1..Depth, stack[d].kind = "buffer", stack[d].old = <<>>
          PROVE  /\ stack[d].until <= Len(c.array) /\ stack[d].until <= c.size
                 /\ \A j \in Waiting(stack[d]) : c.array[j] = b.array[j]
      <3> DEFINE f == stack[d]
      <3>1. f \in Frames /\ f.until <= b.size
        BY <1>10, <2>2 DEF GrowingLoop
      <3>2. f.i \in Nat \ {0} /\ f.until \in Nat
        BY <3>1, FrameTypes
      <3> HIDE DEF f
      <3>3. b.size \in Nat /\ Len(b.array) \in Nat
        BY <1>3 DEF BufferShape, Buffers
      <3>4. f.until <= Len(c.array) /\ f.until <= c.size
        BY <1>5, <1>11, <3>1, <3>2, <3>3
      <3>5. \A j \in Waiting(f) : j \in 1..b.size
        BY <3>1, <3>2, <3>3 DEF Waiting, Place
      <3>6. QED
        BY <1>5, <1>11, <3>4, <3>5 DEF f
    <2>3. LoopsShape(stack', buffer', status', cleared)
      BY <1>9, <2>1, <2>2, LoopsOver DEF c
    <2>4. \A d \in 1..Depth : GrowingLoop(stack'[d], demux', buffer')
      <3> TAKE d \in 1..Depth
      <3>1. stack[d].kind # "table" /\ demux' = "buffer"
        BY <1>4, <1>10 DEF GrowingLoop
      <3>2. b.size \in Nat /\ b.size >= 2 /\ c.size >= 2
        BY <1>3, <1>5, <1>10, <1>11 DEF BufferShape, Buffers
      <3>3. QED
        BY <1>5, <2>1, <2>2, <3>1, <3>2 DEF GrowingLoop, c
    <2>5. Depth' = Depth
      BY <2>1 DEF Depth
    <2>6. use = "grow" => c.size >= 2
      <3>1. use = "grow" => b.size >= 2
        BY DEF StreamInv, GrowShape
      <3>2. b.size \in Nat
        BY <1>3 DEF BufferShape, Buffers
      <3>3. QED
        BY <1>5, <1>11, <3>1, <3>2
    <2>7. made' \in Nat /\ demux' # "none"
      BY <1>1, Subscribing
    <2>8. EntriesShape(Held(demux', single', buffer', table'), status', cleared)
      BY <1>8 DEF F
    <2>9. use = "grow" => buffer'.size >= 2
      BY <2>6 DEF c
    <2> HIDE DEF b
    <2>10. QED
      BY <1>6, <2>3, <2>4, <2>5, <2>7, <2>8, <2>9, Subscribed
  <1>12. CASE ~same
    <2>1. /\ stack' = [d \in 1..Depth |-> KeepingArray(stack[d])]
      BY <1>1, <1>12
    <2>2. b.array \in Seq(Places) /\ b.array # <<>>
      BY <1>3 DEF BufferShape, Buffers
    <2>3. ASSUME NEW d \in 1..Depth
          PROVE  /\ KeepingArray(stack[d]) \in Frames
                 /\ FrameShape(KeepingArray(stack[d]), ArrayIn(KeepingArray(stack[d]), c), status', cleared)
                 /\ KeepingArray(stack[d]).kind = stack[d].kind
                 /\ stack[d].kind = "buffer" => KeepingArray(stack[d]).old # <<>>
      <3> DEFINE f == stack[d]
                 arr == ArrayIn(f, b)
      <3>1. FrameShape(f, arr, status', cleared) /\ f \in Frames
        BY <1>9 DEF LoopsShape, FrameShape
      <3> HIDE DEF f
      <3>2. CASE f.kind = "buffer" /\ f.old = <<>>
        <4> DEFINE g == [f EXCEPT !.old = b.array]
        <4>1. KeepingArray(f) = g
          BY <3>2 DEF KeepingArray
        <4>2. /\ g \in Frames /\ g.kind = f.kind /\ g.until = f.until /\ g.due = f.due
              /\ g.i = f.i /\ g.old = b.array /\ g.todo = f.todo /\ g.cur = f.cur
              /\ g.told = f.told
          BY <2>2, <3>1 DEF Frames
        <4> HIDE DEF g
        <4>3. SameLoop(f, g)
          BY <4>2 DEF SameLoop, Waiting, Place
        <4>4. ArrayIn(g, c) = b.array /\ arr = b.array
          BY <2>2, <3>2, <4>2 DEF ArrayIn
        <4>5. f.kind = "buffer" => f.until <= Len(arr)
          BY <3>1 DEF FrameShape, LeftShape
        <4>6. FrameShape(g, arr, status', cleared)
          BY <3>1, <4>2, <4>3, <4>5, LikeLoop
        <4> HIDE DEF arr, b
        <4>7. QED
          BY <2>2, <4>1, <4>2, <4>4, <4>6 DEF f
      <3>3. CASE f.kind = "buffer" /\ f.old # <<>>
        <4>1. KeepingArray(f) = f /\ ArrayIn(f, c) = arr
          BY <3>3 DEF ArrayIn, KeepingArray
        <4>2. QED
          BY <3>1, <3>3, <4>1 DEF f
      <3>4. CASE f.kind # "buffer"
        <4>1. KeepingArray(f) = f /\ SameLoop(f, f) /\ Waiting(f) = {}
          BY <3>4 DEF SameLoop, Waiting, KeepingArray
        <4>2. FrameShape(f, ArrayIn(f, c), status', cleared)
          BY <3>1, <3>4, <4>1, LikeLoop
        <4>3. QED
          BY <3>1, <3>4, <4>1, <4>2 DEF f
      <3>5. QED
        BY <3>2, <3>3, <3>4
    <2> HIDE DEF same
    <2>4. /\ stack' \in Seq(Frames) /\ Len(stack') = Depth
          /\ \A d \in 1..Depth : stack'[d] = KeepingArray(stack[d])
      <3>1. stack' \in [1..Depth -> Frames]
        BY <2>1, <2>3
      <3>2. QED
        BY <1>9, <2>1, <3>1
    <2>5. LoopsShape(stack', buffer', status', cleared)
      BY <2>3, <2>4 DEF LoopsShape, c
    <2>6. use = "grow" => c.size >= 2
      <3> HAVE use = "grow"
      <3>1. b.size >= 2 /\ cleared = {}
        BY DEF StreamInv, GrowShape
      <3>2. c.size \in Nat /\ c.size # 0
        <4>1. c.size \in Nat /\ F = {c.array[j] : j \in 1..c.size}
          BY <1>4, <1>5 DEF BufferShape, Buffers, Held
        <4>2. QED
          BY <1>5, <4>1
      <3>3. c.size # 1
        <4> SUFFICES ASSUME c.size = 1 PROVE FALSE
          OBVIOUS
        <4>1. F = {c.array[j] : j \in 1..c.size}
          BY <1>4 DEF Held
        <4>2. F = {r}
          BY <1>5, <4>1
        <4>3. b.array[1] \in E
          <5>1. E = {b.array[j] : j \in 1..b.size}
            BY <1>4 DEF Held
          <5>2. b.size \in Nat /\ 1 \in 1..b.size
            BY <1>3, <3>1 DEF BufferShape, Buffers
          <5>3. QED
            BY <5>1, <5>2
        <4>4. b.array[1] = r
          BY <1>5, <3>1, <4>2, <4>3
        <4>5. \A x \in E : x.who # o
          BY Subscribing DEF E
        <4>6. QED
          BY <1>2, <4>3, <4>4, <4>5
      <3>4. QED
        BY <3>2, <3>3
    <2>7. \A d \in 1..Depth : GrowingLoop(stack'[d], demux', buffer')
      <3> TAKE d \in 1..Depth
      <3>1. stack'[d].kind = stack[d].kind /\ (stack[d].kind = "buffer" => stack'[d].old # <<>>)
        BY <2>3, <2>4
      <3>2. stack[d].kind # "table"
        BY <1>10 DEF GrowingLoop
      <3>3. BufferShape(buffer') /\ buffer'.size >= 2
        BY <1>5, <1>10, <2>6 DEF c
      <3>4. QED
        BY <1>4, <3>1, <3>2, <3>3 DEF GrowingLoop
    <2>8. Depth' = Depth
      BY <2>4 DEF Depth
    <2>9. made' \in Nat /\ demux' # "none"
      BY <1>1, <1>4, Subscribing
    <2>10. EntriesShape(Held(demux', single', buffer', table'), status', cleared)
      BY <1>8 DEF F
    <2>11. use = "grow" => buffer'.size >= 2
      BY <2>6 DEF c
    <2>12. QED
      BY <1>6, <2>5, <2>7, <2>8, <2>9, <2>10, <2>11, Subscribed
  <1>13. QED
    BY <1>11, <1>12

\* References made anew are as finitely many as those they are made from.
LEMMA Renamed ==
  ASSUME NEW S, IsFiniteSet(S), NEW m
  PROVE  IsFiniteSet({Ref(r.who, m) : r \in S})
  <1> DEFINE f == [r \in S |-> Ref(r.who, m)]
             T == {Ref(r.who, m) : r \in S}
  <1>1. f \in [S -> T] /\ \A t \in T : \E r \in S : f[r] = t
    OBVIOUS
  <1> HIDE DEF f, T
  <1>2. f \in Surjection(S, T)
    BY <1>1 DEF Surjection
  <1>3. IsFiniteSet(T)
    BY <1>2, FS_Surjection
  <1>4. QED
    BY <1>3 DEF T

\* The elements of a sequence are finitely many.
LEMMA ElementsFinite ==
  ASSUME NEW S, NEW u \in Seq(S)
  PROVE  ToSet(u) = {u[j] : j \in 1..Len(u)} /\ IsFiniteSet(ToSet(u))
  <1> DEFINE T == {u[j] : j \in 1..Len(u)}
  <1>1. u \in [1..Len(u) -> T] /\ \A t \in T : \E j \in 1..Len(u) : u[j] = t
    OBVIOUS
  <1>2. ToSet(u) = T
    BY DEF ToSet
  <1> HIDE DEF T
  <1>3. u \in Surjection(1..Len(u), T)
    BY <1>1 DEF Surjection
  <1>4. IsFiniteSet(1..Len(u))
    BY FS_Interval
  <1>5. IsFiniteSet(T)
    BY <1>3, <1>4, FS_Surjection
  <1>6. QED
    BY <1>2, <1>5 DEF T

\* The table that a full buffer becomes, or that a full table becomes: of all
\* references in R, and of o's, which are made anew.
LEMMA TableOf ==
  ASSUME NEW R \in SUBSET Refs, IsFiniteSet(R), NEW o \in Observers, NEW m \in Nat,
         NEW F, F = {Ref(r.who, m) : r \in R} \cup {Ref(o, m)}
  PROVE  /\ F \in SUBSET Refs /\ IsFiniteSet(F) /\ Apart(F)
         /\ \A s \in F : s = Ref(o, m) \/ \E r \in R : s.who = r.who
         /\ \A r \in R : \E s \in F : s.who = r.who
         /\ \E s \in F : s.who = o
  <1> DEFINE T == {Ref(r.who, m) : r \in R}
  <1>1. IsFiniteSet(T)
    BY Renamed
  <1>2. IsFiniteSet(F)
    <2> HIDE DEF T
    <2>1. F = T \cup {Ref(o, m)}
      BY DEF T
    <2>2. QED
      BY <1>1, <2>1, FS_AddElement
  <1>3. \A p : Ref(p, m).who = p
    BY DEF Ref
  <1>4. \A p \in Observers : Ref(p, m) \in Refs
    BY DEF Ref, Refs
  <1>5. \A r \in R : r.who \in Observers
    BY DEF Refs
  <1>6. \A s \in F : s = Ref(o, m) \/ \E r \in R : s = Ref(r.who, m)
    OBVIOUS
  <1>7. \A s \in F : s = Ref(s.who, m) /\ s \in Refs
    BY <1>3, <1>4, <1>5, <1>6
  <1>8. Apart(F)
    BY <1>7 DEF Apart
  <1>9. \A r \in R : Ref(r.who, m) \in F
    OBVIOUS
  <1>10. Ref(o, m) \in F
    OBVIOUS
  <1> HIDE DEF T
  <1>11. \A s \in F : s = Ref(o, m) \/ \E r \in R : s.who = r.who
    BY <1>3, <1>6
  <1>12. (\A r \in R : \E s \in F : s.who = r.who) /\ \E s \in F : s.who = o
    BY <1>3, <1>9, <1>10
  <1>13. F \in SUBSET Refs
    BY <1>7
  <1>14. QED
    BY <1>2, <1>8, <1>11, <1>12, <1>13

\* What is left to show when demux has become a table, or is one.
LEMMA SubscribedToTable ==
  ASSUME StreamInv, NEW o \in Observers, Subscribe(o), demux \in {"buffer", "table"},
         demux' = "table", made' \in Nat, buffer' = buffer, Depth' = Depth,
         NEW F, table'.refs = F, F \in SUBSET Refs, IsFiniteSet(F), Apart(F),
         JoinedBy(Held(demux, single, buffer, table), F, o, status, cleared),
         LoopsShape(stack', buffer, status', cleared),
         \A d \in 1..Depth : stack'[d].kind = stack[d].kind /\ stack'[d].old = stack[d].old
                             /\ stack'[d].until = stack[d].until
  PROVE  StreamInv'
  <1>1. DemuxShape(demux', single', buffer', table')
    BY DEF StreamInv, DemuxShape
  <1>2. Held(demux', single', buffer', table') = F
    BY DEF Held
  <1>3. EntriesShape(Held(demux', single', buffer', table'), status', cleared)
    <2> DEFINE E == Held(demux, single, buffer, table)
    <2>1. EntriesShape(E, status, cleared) /\ status' = [status EXCEPT ![o] = "live"]
          /\ JoinedBy(E, F, o, status, cleared)
      BY Subscribing
    <2> HIDE DEF E
    <2>2. EntriesShape(F, status', cleared)
      BY <2>1, SubscribedEntries
    <2>3. QED
      BY <1>2, <2>2
  <1>4. LoopsShape(stack', buffer', status', cleared)
    OBVIOUS
  <1>5. use = "grow" => \A d \in 1..Depth : GrowingLoop(stack'[d], demux', buffer')
    <2> SUFFICES ASSUME use = "grow", NEW d \in 1..Depth
                 PROVE  GrowingLoop(stack'[d], demux', buffer')
      OBVIOUS
    <2>1. GrowingLoop(stack[d], demux, buffer)
      BY DEF StreamInv, GrowShape
    <2>2. QED
      BY <2>1 DEF GrowingLoop
  <1>6. QED
    BY <1>1, <1>3, <1>4, <1>5, Subscribed

\* A full buffer becomes a table.
LEMMA SubscribeOverBuffer_Inv ==
  ASSUME StreamInv, NEW o \in Observers, Subscribe(o), demux = "buffer",
         ~(buffer.size < Upper)
  PROVE  StreamInv'
  <1> DEFINE m == made + 1
             u == Uncleared(buffer)
             R == ToSet(u)
             F == {Ref(r.who, m) : r \in R} \cup {Ref(o, m)}
             E == Held(demux, single, buffer, table)
  <1>1. /\ demux' = "table" /\ made' = m /\ table' = Rehashed(F, 1)
        /\ UNCHANGED <<single, buffer, stack>>
    <2>1. buffer.size \in Nat /\ Upper \in Nat
      BY StreamAssumption DEF StreamInv, DemuxShape, Buffers
    <2>2. QED
      BY <2>1 DEF Subscribe
  <1>2. m \in Nat
    BY Subscribing
  <1>3. BufferShape(buffer) /\ E = {buffer.array[j] : j \in 1..buffer.size}
    BY DEF StreamInv, DemuxShape, Held
  <1>4. IsKept(u, buffer.array, buffer.size)
    BY <1>3, UnclearedIs
  <1>5. EntriesShape(E, status, cleared) /\ status[o] = "new"
    BY Subscribing
  <1> HIDE DEF m, u, E
  <1>6. R = {u[j] : j \in 1..Len(u)} /\ IsFiniteSet(R)
    BY <1>4, ElementsFinite DEF IsKept
  <1>7. \A r \in R : r \in E /\ r \notin cleared
    BY <1>3, <1>4, <1>6 DEF IsKept
  <1>8. \A r \in E : r \notin cleared => r \in R
    BY <1>3, <1>4, <1>6 DEF IsKept
  <1> HIDE DEF R
  <1>9. R \in SUBSET Refs /\ \A r \in R : status[r.who] \in {"live", "missed"}
    BY <1>7, LiveOnes DEF E
  <1>10. /\ F \in SUBSET Refs /\ IsFiniteSet(F) /\ Apart(F)
         /\ \A s \in F : s = Ref(o, m) \/ \E r \in R : s.who = r.who
         /\ \A r \in R : \E s \in F : s.who = r.who
         /\ \E s \in F : s.who = o
    <2>1. F = {Ref(r.who, m) : r \in R} \cup {Ref(o, m)}
      OBVIOUS
    <2>2. R \in SUBSET Refs /\ IsFiniteSet(R) /\ m \in Nat
      BY <1>2, <1>6, <1>9
    <2> HIDE DEF F
    <2>3. QED
      BY <2>1, <2>2, TableOf, SMTT(30)
  <1> HIDE DEF F
  <1>11. JoinedBy(E, F, o, status, cleared)
    <2>1. Ref(o, m).who = o
      BY DEF Ref
    <2>2. \A s \in F : /\ s \in Refs
                       /\ s.who = o \/ s \in E \/ status[s.who] \in {"live", "missed"}
      BY <1>9, <1>10, <2>1
    <2>3. \A r \in E : r \notin cleared => \E s \in F : s.who = r.who
      BY <1>8, <1>10
    <2>4. QED
      BY <1>5, <1>10, <2>2, <2>3 DEF JoinedBy
  <1>12. table'.refs = F
    BY <1>1 DEF Rehashed
  <1>13. LoopsShape(stack', buffer, status', cleared)
    BY <1>1, Subscribing
  <1>14. Depth' = Depth
    BY <1>1 DEF Depth
  <1>15. QED
    BY <1>1, <1>2, <1>10, <1>11, <1>12, <1>13, <1>14, SubscribedToTable DEF E

\* Another observer of a table, which may grow; loops over its array may or may
\* not come to the new reference.
LEMMA SubscribeToTable_Inv ==
  ASSUME StreamInv, NEW o \in Observers, Subscribe(o), demux = "table"
  PROVE  StreamInv'
  <1> DEFINE r == Ref(o, made)
             m == made + 1
             all == table.refs \cup {r}
             R == all \ cleared
             E == Held(demux, single, buffer, table)
             fits == Cardinality(all) < Thresholds[table.grow]
  <1>1. /\ fits => /\ \E still \in SUBSET table.lost :
                        table' = [table EXCEPT !.refs = all, !.lost = still]
                   /\ made' = made
        /\ ~fits => made' = m
                    /\ table' = Rehashed({Ref(x.who, m) : x \in R}, table.grow + 1)
        /\ UNCHANGED <<demux, single, buffer>>
    BY DEF Subscribe
  <1>2. PICK more \in SUBSET {r} : stack' = [d \in 1..Depth |-> Seeing(stack[d], more)]
    BY DEF Subscribe
  <1> HIDE DEF fits
  <1>3. r \in Refs /\ r.who = o /\ m \in Nat /\ made \in Nat /\ status[o] = "new"
        /\ status \in Statuses /\ status' = [status EXCEPT ![o] = "live"]
    BY Subscribing
  <1> HIDE DEF r, m
  <1>4. E = table.refs /\ E \in SUBSET Refs /\ IsFiniteSet(E) /\ Apart(E)
    BY DEF StreamInv, DemuxShape, Held
  <1>5. /\ EntriesShape(E, status, cleared) /\ \A x \in E : x.who # o
    BY Subscribing
  <1> HIDE DEF E
  <1>6. all = E \cup {r} /\ all \in SUBSET Refs /\ IsFiniteSet(all)
    BY <1>3, <1>4, FS_AddElement
  <1>7. LoopsShape(stack', buffer, status', cleared) /\ Depth' = Depth
        /\ \A d \in 1..Depth : stack'[d].kind = stack[d].kind /\ stack'[d].old = stack[d].old
                               /\ stack'[d].until = stack[d].until
    <2>1. LoopsShape(stack, buffer, status, cleared) /\ stack \in Seq(Frames)
          /\ Depth = Len(stack) /\ Depth \in Nat
      BY Subscribing DEF StreamInv, LoopsShape
    <2>2. ASSUME NEW d \in 1..Depth
          PROVE  LET g == Seeing(stack[d], more) IN
                 /\ g \in Frames /\ FrameShape(g, ArrayIn(g, buffer), status', cleared)
                 /\ g.kind = stack[d].kind /\ g.old = stack[d].old /\ g.until = stack[d].until
      <3> DEFINE f == stack[d]
                 g == Seeing(f, more)
                 arr == ArrayIn(f, buffer)
      <3>1. FrameShape(f, arr, status, cleared) /\ f \in Frames
        BY <2>1 DEF LoopsShape
      <3> HIDE DEF f, arr
      <3>2. CASE f.kind = "table" /\ f.made = made
        <4>1. g = [f EXCEPT !.todo = @ \cup more]
          BY <3>2 DEF Seeing
        <4>2. g \in Frames /\ g.kind = f.kind /\ g.old = f.old /\ g.until = f.until
          <5>1. f.todo \cup more \in SUBSET Refs
            BY <1>3, <3>1, FrameTypes
          <5> HIDE DEF g
          <5>2. QED
            BY <3>1, <4>1, <5>1 DEF Frames
        <4> HIDE DEF g
        <4>3. f.kind # "buffer" /\ status[r.who] = "new"
          BY <1>3, <3>2
        <4>4. FrameShape(g, arr, status', cleared)
          <5>1. FrameShape([f EXCEPT !.todo = @ \cup more], arr,
                           [status EXCEPT ![r.who] = "live"], cleared)
            BY <1>3, <3>1, <4>3, SeenByLoop
          <5>2. QED
            BY <1>3, <4>1, <5>1, Zenon
        <4>5. arr = ArrayIn(g, buffer)
          BY <4>2 DEF arr, ArrayIn
        <4>6. QED
          BY <4>2, <4>4, <4>5 DEF f, g
      <3>3. CASE ~(f.kind = "table" /\ f.made = made)
        <4>1. g = f
          BY <3>3 DEF Seeing
        <4>2. FrameShape(f, arr, status', cleared)
          BY <1>3, <3>1, SubscribedLoop
        <4>3. QED
          BY <3>1, <4>1, <4>2 DEF f, arr
      <3>4. QED
        BY <3>2, <3>3
    <2>3. /\ stack' \in Seq(Frames) /\ Len(stack') = Depth
          /\ \A d \in 1..Depth : stack'[d] = Seeing(stack[d], more)
      <3>1. stack' \in [1..Depth -> Frames]
        BY <1>2, <2>2
      <3>2. QED
        BY <1>2, <2>1, <3>1
    <2>4. LoopsShape(stack', buffer, status', cleared)
      BY <2>2, <2>3 DEF LoopsShape
    <2>5. Depth' = Depth
      BY <2>3 DEF Depth
    <2>6. QED
      BY <2>2, <2>3, <2>4, <2>5
  <1>8. CASE fits
    <2>1. table'.refs = all /\ made' = made
      <3>1. PICK still \in SUBSET table.lost :
              table' = [table EXCEPT !.refs = all, !.lost = still]
        BY <1>1, <1>8
      <3>2. made' = made
        BY <1>1, <1>8
      <3> HIDE DEF all
      <3>3. table'.refs = all
        BY <3>1
      <3>4. QED
        BY <3>2, <3>3
    <2>2. Apart(all)
      BY <1>3, <1>4, <1>5, <1>6 DEF Apart
    <2>3. JoinedBy(E, all, o, status, cleared)
      BY <1>3, <1>6 DEF JoinedBy
    <2> HIDE DEF all
    <2>4. QED
      BY <1>1, <1>3, <1>6, <1>7, <2>1, <2>2, <2>3, SubscribedToTable DEF E
  <1>9. CASE ~fits
    <2> DEFINE F == {Ref(x.who, m) : x \in R}
    <2>1. table'.refs = F /\ made' = m
      <3>1. table' = Rehashed(F, table.grow + 1) /\ made' = m
        BY <1>1, <1>9
      <3> HIDE DEF F
      <3>2. QED
        BY <3>1 DEF Rehashed
    <2>2. r \notin cleared
      BY <1>3, LiveOnes
    <2>3. R \in SUBSET Refs /\ IsFiniteSet(R) /\ r \in R
      BY <1>6, <2>2, FS_Subset
    <2>4. F = {Ref(x.who, m) : x \in R} \cup {Ref(o, m)}
      BY <1>3, <2>3
    <2>5. \A x \in R : x = r \/ (x \in E /\ x \notin cleared)
      BY <1>6
    <2>6. \A x \in E : x \notin cleared => x \in R
      BY <1>6
    <2> HIDE DEF R, F
    <2>7. /\ F \in SUBSET Refs /\ IsFiniteSet(F) /\ Apart(F)
          /\ \A s \in F : s = Ref(o, m) \/ \E x \in R : s.who = x.who
          /\ \A x \in R : \E s \in F : s.who = x.who
          /\ \E s \in F : s.who = o
      BY <1>3, <2>3, <2>4, TableOf
    <2>8. JoinedBy(E, F, o, status, cleared)
      <3>1. Ref(o, m).who = o
        BY DEF Ref
      <3>2. \A x \in R : x.who = o \/ status[x.who] \in {"live", "missed"}
        BY <1>3, <2>5, LiveOnes DEF E
      <3>3. \A s \in F : /\ s \in Refs
                         /\ s.who = o \/ s \in E \/ status[s.who] \in {"live", "missed"}
        BY <2>7, <3>1, <3>2
      <3>4. \A x \in E : x \notin cleared => \E s \in F : s.who = x.who
        BY <2>6, <2>7
      <3>5. QED
        BY <1>3, <2>7, <3>3, <3>4 DEF JoinedBy
    <2>9. QED
      BY <1>1, <1>3, <1>7, <2>1, <2>7, <2>8, SubscribedToTable DEF E
  <1>10. QED
    BY <1>8, <1>9

\* A subscription, to whatever demux is.
LEMMA Subscribe_Inv ==
  ASSUME StreamInv, NEW o \in Observers, Subscribe(o)
  PROVE  StreamInv'
  <1>1. demux \in {"none", "ref", "buffer", "table"}
    BY DEF StreamInv, DemuxShape
  <1>2. QED
    BY <1>1, SubscribeFirst_Inv, SubscribeSecond_Inv, SubscribeToBuffer_Inv,
       SubscribeOverBuffer_Inv, SubscribeToTable_Inv

-----------------------------------------------------------------------------
\* When observers only end subscriptions, demux holds what is left to the loop.
LEMMA CancelLoop ==
  ASSUME StreamInv, use = "cancel", NEW d \in 1..Depth
  PROVE  /\ Depth = 1 /\ d = 1 /\ d = Depth /\ stack[d].kind = demux
         /\ stack[d].old = <<>> /\ ArrayIn(stack[d], buffer) = buffer.array
         /\ stack[d].kind = "buffer" => stack[d].until = buffer.size
         /\ \A r \in Left(stack[d], buffer.array) : r \in Held(demux, single, buffer, table)
  <1> DEFINE f == stack[d]
             E == Held(demux, single, buffer, table)
  <1>1. /\ Depth <= 1 /\ f.kind = demux /\ f.old = <<>>
        /\ f.kind = "buffer" => f.until = buffer.size
        /\ f.todo \subseteq E
    BY DEF StreamInv, CancelShape
  <1>2. stack \in Seq(Frames) /\ Depth = Len(stack) /\ Depth \in Nat
    BY DEF StreamInv, LoopsShape, Depth
  <1>3. Depth = 1 /\ d = 1 /\ f \in Frames
    BY <1>1, <1>2
  <1> HIDE DEF f
  <1>4. f.i \in Nat \ {0} /\ f.until \in Nat
    BY <1>3, FrameTypes
  <1>5. ASSUME NEW r \in Left(f, buffer.array)
        PROVE  r \in E
    <2>1. CASE r \in f.todo
      BY <1>1, <2>1
    <2>2. CASE r \notin f.todo
      <3>1. PICK j \in Waiting(f) : r = buffer.array[j]
        BY <2>2 DEF Left
      <3>2. demux = "buffer" /\ f.until = buffer.size /\ j \in 1..f.until
        BY <1>1, <1>4 DEF Waiting, Place
      <3>3. E = {buffer.array[k] : k \in 1..buffer.size}
        BY <3>2 DEF Held
      <3>4. QED
        BY <3>1, <3>2, <3>3
    <2>3. QED
      BY <2>1, <2>2
  <1>6. ArrayIn(f, buffer) = buffer.array
    BY <1>1 DEF ArrayIn
  <1>7. QED
    BY <1>1, <1>3, <1>5, <1>6 DEF f

\* The end of a subscription clears its reference, in demux and for the loop,
\* if it is found.
LEMMA Unsubscribe_Inv ==
  ASSUME StreamInv, NEW o \in Observers, Unsubscribe(o)
  PROVE  StreamInv'
  <1> DEFINE E == Held(demux, single, buffer, table)
             all == cleared \cup {r \in Found : r.who = o}
             missed == \E r \in E \ Found : r.who = o
             w == IF missed THEN "missed" ELSE "gone"
             new == [status EXCEPT ![o] = w]
  <1>1. DemuxShape(demux, single, buffer, table) /\ Entries = E
    BY EntriesAre DEF StreamInv
  <1>2. /\ status' = new /\ status[o] = "live" /\ use = "cancel" /\ cleared' = all
        /\ UNCHANGED <<use, demux, single, buffer, table, made, stack>>
    BY <1>1 DEF Unsubscribe, MayUnsubscribe, demuxVars, StreamInv
  <1>3. /\ EntriesShape(E, status, cleared)
        /\ LoopsShape(stack, buffer, status, cleared)
    BY DEF StreamInv
  <1>4. /\ status \in Statuses /\ new \in Statuses /\ new[o] = w /\ w \in {"gone", "missed"}
        /\ \A p \in Observers : p # o => new[p] = status[p]
    BY <1>3 DEF EntriesShape, Statuses
  <1>5. Found \subseteq E /\ (demux # "table" => Found = E)
    BY <1>1 DEF Found
  <1>6. cleared \subseteq all /\ \A r \in all : r \in cleared \/ (r \in Found /\ r.who = o)
    OBVIOUS
  <1>7. w = "gone" => \A r \in E : r.who = o => r \in all
    OBVIOUS
  <1>8. w = "missed" => \A r \in Found : r.who # o
    <2> SUFFICES ASSUME missed PROVE \A r \in Found : r.who # o
      OBVIOUS
    <2>1. PICK r \in E \ Found : r.who = o
      OBVIOUS
    <2>2. Apart(E)
      BY <1>1, <1>5, <2>1 DEF DemuxShape, Held
    <2>3. QED
      BY <1>5, <2>1, <2>2 DEF Apart
  <1> HIDE DEF E, all, w, new
  <1>9. EntriesShape(E, new, all)
    <2>1. /\ cleared \in SUBSET Refs /\ \A r \in cleared : status[r.who] = "gone"
          /\ \A r \in E : /\ r \in Refs /\ status[r.who] # "new"
                          /\ status[r.who] = "gone" => r \in cleared
          /\ \A p \in Observers : status[p] = "live" => \E r \in E : r.who = p
      BY <1>3 DEF EntriesShape
    <2>2. \A r \in Refs : r.who \in Observers
      BY DEF Refs
    <2>3. \A r \in all : new[r.who] = "gone" /\ r \in Refs
      <3> TAKE r \in all
      <3>1. CASE r \in cleared
        BY <1>2, <1>4, <2>1, <2>2, <3>1
      <3>2. CASE r \in Found /\ r.who = o
        BY <1>4, <1>5, <1>8, <2>1, <3>2
      <3>3. QED
        BY <1>6, <3>1, <3>2
    <2>4. \A r \in E : /\ r \in Refs /\ new[r.who] # "new"
                       /\ new[r.who] = "gone" => r \in all
      BY <1>4, <1>6, <1>7, <2>1, <2>2
    <2>5. \A p \in Observers : new[p] = "live" => \E r \in E : r.who = p
      BY <1>4, <2>1
    <2>6. QED
      BY <1>4, <2>3, <2>4, <2>5 DEF EntriesShape
  <1>10. LoopsShape(stack, buffer, new, all)
    <2>1. stack \in Seq(Frames) /\ Depth = Len(stack)
      BY <1>3 DEF LoopsShape, Depth
    <2>2. ASSUME NEW d \in 1..Depth
          PROVE  FrameShape(stack[d], ArrayIn(stack[d], buffer), new, all)
      <3> DEFINE f == stack[d]
                 arr == ArrayIn(f, buffer)
      <3>1. FrameShape(f, arr, status, cleared)
        BY <1>3, <2>1 DEF LoopsShape
      <3>2. \A r \in Left(f, arr) : r \in E
        BY <1>2, CancelLoop DEF E
      <3>3. \A r \in Left(f, arr) : w = "gone" /\ r.who = o => r \in all
        BY <1>7, <3>2
      <3> HIDE DEF f, arr
      <3>4. new = [status EXCEPT ![o] = w]
        BY DEF new
      <3>5. cleared \subseteq all /\ status \in Statuses /\ status[o] = "live"
            /\ w \in {"gone", "missed"}
        BY <1>2, <1>4, <1>6
      <3>6. FrameShape(f, arr, new, all)
        BY <3>1, <3>3, <3>4, <3>5, UnsubscribedLoop
      <3>7. QED
        BY <3>6 DEF f, arr
    <2>3. QED
      BY <2>1, <2>2 DEF LoopsShape
  <1>11. CancelShape' /\ GrowShape'
    <2>1. CancelShape
      BY DEF StreamInv
    <2>2. Depth' = Depth
      BY <1>2 DEF Depth
    <2>3. QED
      BY <1>2, <2>1, <2>2 DEF CancelShape, GrowShape
  <1>12. QED
    BY <1>1, <1>2, <1>9, <1>10, <1>11 DEF StreamInv, E

\* A new propagation has everyone in demux before it.
LEMMA PropagationIs ==
  ASSUME StreamInv, demux # "none"
  PROVE  LET p == Propagation IN
         /\ FrameShape(p, buffer.array, status, cleared)
         /\ p.kind = demux /\ p.old = <<>> /\ p.until = buffer.size
         /\ p.todo \subseteq Held(demux, single, buffer, table)
  <1> DEFINE p == Propagation
             E == Held(demux, single, buffer, table)
  <1>1. /\ p.kind = demux /\ p.i = 1 /\ p.until = buffer.size /\ p.old = <<>>
        /\ p.todo = CASE demux = "ref" -> {single} [] demux = "table" -> table.refs
                      [] OTHER -> {}
        /\ p.made = made /\ p.cur = NoRef /\ p.told = <<>>
        /\ p.due = {o \in Observers : status[o] = "live"}
    BY DEF Propagation
  <1>2. /\ DemuxShape(demux, single, buffer, table) /\ EntriesShape(E, status, cleared)
        /\ made \in Nat
    BY DEF StreamInv
  <1>3. demux \in {"ref", "buffer", "table"} /\ buffer.size \in Nat
    BY <1>2 DEF DemuxShape, Buffers
  <1>4. demux # "buffer" => p.todo = E
    BY <1>1, <1>3 DEF Held
  <1>5. demux = "buffer" => p.todo = {} /\ BufferShape(buffer)
                            /\ E = {buffer.array[j] : j \in 1..buffer.size}
    BY <1>1, <1>2 DEF Held, DemuxShape
  <1>6. \A r \in E : r \in Refs
    BY <1>2 DEF EntriesShape
  <1>7. p \in Frames
    <2>1. p.todo \in SUBSET Refs /\ p.due \in SUBSET Observers
      BY <1>1, <1>4, <1>5, <1>6
    <2>2. p = [kind |-> p.kind, i |-> p.i, until |-> p.until, old |-> p.old,
               todo |-> p.todo, made |-> p.made, cur |-> p.cur, due |-> p.due,
               told |-> p.told]
      BY DEF Propagation
    <2> HIDE DEF p
    <2>3. p.old \in Seq(Places) /\ p.told \in Seq(Observers \X BOOLEAN)
      BY <1>1
    <2>4. p.kind \in {"ref", "buffer", "table"} /\ p.i \in Nat \ {0} /\ p.until \in Nat
          /\ p.made \in Nat /\ p.cur \in Observers \cup {NoRef}
      BY <1>1, <1>2, <1>3
    <2>5. QED
      BY <2>1, <2>2, <2>3, <2>4 DEF Frames
  <1> HIDE DEF p
  <1>8. Waiting(p) = IF demux = "buffer" THEN 1..buffer.size ELSE {}
    BY <1>1 DEF Waiting, Place
  <1>9. Left(p, buffer.array) = E
    <2>1. CASE demux = "buffer"
      BY <1>5, <1>8, <2>1 DEF Left
    <2>2. CASE demux # "buffer"
      BY <1>4, <1>8, <2>2 DEF Left
    <2>3. QED
      BY <2>1, <2>2
  <1>10. \A o : ~Told(p, o)
    BY <1>1 DEF Told
  <1>11. LeftShape(p, buffer.array, status, cleared)
    <2>1. p.kind = "buffer" => p.todo = {} /\ p.until <= Len(buffer.array)
      BY <1>1, <1>5 DEF BufferShape
    <2>2. \A r \in E : /\ r \in Refs /\ status[r.who] # "new"
                       /\ status[r.who] = "gone" => r \in cleared
      BY <1>2 DEF EntriesShape
    <2>3. Apart(p.todo)
      BY <1>1, <1>2, <1>3 DEF DemuxShape, Apart
    <2>4. \A j, k \in Waiting(p) : buffer.array[j].who = buffer.array[k].who => j = k
      BY <1>5, <1>8 DEF BufferShape
    <2>5. QED
      BY <1>9, <1>10, <2>1, <2>2, <2>3, <2>4 DEF LeftShape
  <1>12. DueShape(p, buffer.array, status)
    <2>1. \A o \in p.due : o \in Observers /\ status[o] = "live"
      BY <1>1
    <2>2. \A o \in Observers : status[o] = "live" => \E r \in E : r.who = o
      BY <1>2 DEF EntriesShape
    <2>3. QED
      BY <1>9, <2>1, <2>2 DEF DueShape
  <1>13. ToldShape(p, status)
    BY <1>1 DEF ToldShape
  <1>14. FrameShape(p, buffer.array, status, cleared)
    BY <1>7, <1>11, <1>12, <1>13 DEF FrameShape
  <1>15. p.todo \subseteq E
    BY <1>4, <1>5
  <1> HIDE DEF E
  <1>16. QED
    BY <1>1, <1>14, <1>15 DEF p, E

\* An event that is emitted to nobody, or that starts a loop.
LEMMA Emit_Inv ==
  ASSUME StreamInv, Emit
  PROVE  StreamInv'
  <1> DEFINE E == Held(demux, single, buffer, table)
             nobody == demux = "none" \/ (demux = "ref" /\ single \in cleared)
  <1>1. /\ nobody => demux' = "none" /\ stack' = stack
        /\ ~nobody => demux' = demux /\ stack' = Append(stack, Propagation)
        /\ use = "cancel" => Depth = 0
        /\ UNCHANGED <<use, status, single, buffer, table, made, cleared>>
    BY DEF Emit, MayEmit
  <1>2. /\ EntriesShape(E, status, cleared) /\ DemuxShape(demux, single, buffer, table)
        /\ LoopsShape(stack, buffer, status, cleared) /\ use \in {"cancel", "grow"}
        /\ made \in Nat
    BY DEF StreamInv
  <1>3. stack \in Seq(Frames) /\ Depth = Len(stack) /\ Depth \in Nat
    BY <1>2 DEF LoopsShape, Depth
  <1>4. CASE demux = "none"
    <2>1. demux' = demux /\ stack' = stack
      BY <1>1, <1>4
    <2>2. QED
      BY <1>1, <2>1 DEF StreamInv, CancelShape, GrowShape, Depth
  <1>5. CASE demux = "ref" /\ single \in cleared
    <2>1. demux' = "none" /\ stack' = stack
      BY <1>1, <1>5
    <2>2. use = "cancel"
      BY <1>2, <1>5 DEF StreamInv, GrowShape
    <2>3. Depth' = 0 /\ 1..Depth' = {}
      BY <1>1, <2>1, <2>2 DEF Depth
    <2>4. CancelShape' /\ GrowShape'
      BY <1>1, <2>2, <2>3 DEF CancelShape, GrowShape
    <2>5. DemuxShape(demux', single', buffer', table')
      BY <1>1, <1>2, <2>1 DEF DemuxShape
    <2>6. Held(demux', single', buffer', table') = {}
      BY <2>1 DEF Held
    <2>7. E = {single} /\ status[single.who] = "gone"
      BY <1>2, <1>5 DEF Held, EntriesShape
    <2>8. EntriesShape({}, status, cleared)
      BY <1>2, <2>7 DEF EntriesShape
    <2>9. QED
      BY <1>1, <1>2, <2>1, <2>4, <2>5, <2>6, <2>8 DEF StreamInv
  <1>6. CASE ~nobody
    <2> DEFINE p == Propagation
               n == Depth
    <2>1. demux' = demux /\ stack' = Append(stack, p) /\ demux # "none"
      BY <1>1, <1>6
    <2>2. /\ FrameShape(p, buffer.array, status, cleared)
          /\ p.kind = demux /\ p.old = <<>> /\ p.until = buffer.size
          /\ p.todo \subseteq E
      BY <2>1, PropagationIs
    <2> HIDE DEF p, n
    <2>3. p \in Frames
      BY <2>2 DEF FrameShape
    <2>4. /\ stack' \in Seq(Frames) /\ Len(stack') = n + 1 /\ stack'[n + 1] = p
          /\ \A d \in 1..n : stack'[d] = stack[d]
      BY <1>3, <2>1, <2>3 DEF n
    <2>5. n \in Nat /\ \A d \in 1..(n + 1) : d = n + 1 \/ d \in 1..n
      BY <1>3 DEF n
    <2>6. LoopsShape(stack', buffer, status, cleared)
      <3>1. \A d \in 1..n : FrameShape(stack[d], ArrayIn(stack[d], buffer), status, cleared)
        BY <1>2, <1>3 DEF LoopsShape, n
      <3>2. ArrayIn(p, buffer) = buffer.array
        BY <2>2 DEF ArrayIn
      <3>3. \A d \in 1..(n + 1) :
              FrameShape(stack'[d], ArrayIn(stack'[d], buffer), status, cleared)
        BY <2>2, <2>4, <2>5, <3>1, <3>2
      <3>4. QED
        BY <2>4, <3>3 DEF LoopsShape
    <2>7. Depth' = n + 1
      BY <2>4 DEF Depth
    <2>8. CancelShape'
      <3> SUFFICES ASSUME use = "cancel"
                   PROVE  /\ n + 1 <= 1
                          /\ \A d \in 1..(n + 1) :
                               /\ stack'[d].kind = demux /\ stack'[d].old = <<>>
                               /\ stack'[d].kind = "buffer" => stack'[d].until = buffer.size
                               /\ stack'[d].todo \subseteq E
        BY <1>1, <2>1, <2>7 DEF CancelShape
      <3>1. n = 0
        BY <1>1 DEF n
      <3>2. \A d \in 1..(n + 1) : d = n + 1
        BY <3>1
      <3>3. n + 1 <= 1
        BY <3>1
      <3>4. QED
        BY <2>2, <2>4, <3>2, <3>3
    <2>9. GrowShape'
      <3> SUFFICES ASSUME use = "grow"
                   PROVE  /\ cleared = {}
                          /\ demux = "buffer" => buffer.size >= 2
                          /\ \A d \in 1..(n + 1) : GrowingLoop(stack'[d], demux, buffer)
        BY <1>1, <2>1, <2>7 DEF GrowShape
      <3>1. /\ cleared = {}
            /\ demux = "buffer" => buffer.size >= 2
            /\ \A d \in 1..n : GrowingLoop(stack[d], demux, buffer)
        BY DEF StreamInv, GrowShape, n
      <3>2. GrowingLoop(p, demux, buffer)
        <4>1. buffer.size \in Nat /\ (demux = "buffer" => BufferShape(buffer))
          BY <1>2 DEF DemuxShape, Buffers
        <4>2. QED
          BY <2>2, <3>1, <4>1 DEF GrowingLoop
      <3>3. QED
        BY <2>4, <2>5, <3>1, <3>2
    <2>10. QED
      BY <1>1, <1>2, <2>1, <2>6, <2>8, <2>9 DEF StreamInv
  <1>7. QED
    BY <1>4, <1>5, <1>6

-----------------------------------------------------------------------------
\* c holds at its first places what b holds at all of them but i, and what b
\* holds from i on is in c from i on.
IsWithout(c, b, i) ==
  /\ \A j \in 1..c.size : \E k \in 1..b.size :
       k # i /\ c.array[j] = b.array[k] /\ (j >= i => k >= i)
  /\ \A k \in 1..b.size : k # i =>
       \E j \in 1..c.size : c.array[j] = b.array[k] /\ (k >= i => j >= i)

\* removeEntryAt removes one reference.
LEMMA WithoutOne ==
  ASSUME NEW b, BufferShape(b), NEW i \in 1..b.size, NEW c, c = Removed(b, i)
  PROVE  IsWithout(c, b, i)
  <1> DEFINE n == b.size
             m == c.size
  <1>1. /\ m = n - 1
        /\ \A j \in 1..m : c.array[j] = IF j = i THEN b.array[n] ELSE b.array[j]
    BY RemovedIs
  <1>2. n \in Nat
    BY DEF BufferShape, Buffers
  <1>3. n \in 1..n /\ i \in 1..n
    BY <1>2
  <1> HIDE DEF n, m
  <1>4. ASSUME NEW j \in 1..m
        PROVE  \E k \in 1..n : k # i /\ c.array[j] = b.array[k] /\ (j >= i => k >= i)
    <2>1. CASE j = i
      <3>1. n # i /\ n >= i
        BY <1>1, <1>2, <1>3, <2>1
      <3>2. QED
        BY <1>1, <1>3, <2>1, <3>1
    <2>2. CASE j # i
      <3>1. j \in 1..n
        BY <1>1, <1>2
      <3>2. QED
        BY <1>1, <2>2, <3>1
    <2>3. QED
      BY <2>1, <2>2
  <1>5. ASSUME NEW k \in 1..n, k # i
        PROVE  \E j \in 1..m : c.array[j] = b.array[k] /\ (k >= i => j >= i)
    <2>1. CASE k = n
      <3>1. i \in 1..m
        BY <1>1, <1>2, <1>3, <1>5, <2>1
      <3>2. c.array[i] = b.array[k] /\ i >= i
        BY <1>1, <1>3, <2>1, <3>1
      <3>3. QED
        BY <3>1, <3>2
    <2>2. CASE k # n
      <3>1. k \in 1..m
        BY <1>1, <1>2, <2>2
      <3>2. QED
        BY <1>1, <1>5, <3>1
    <2>3. QED
      BY <2>1, <2>2
  <1>6. QED
    BY <1>4, <1>5 DEF IsWithout, n, m

\* The loop f, at a reference that is cleared, goes on as g when the buffer b
\* has become c.
LEMMA TakeOutLoop ==
  ASSUME NEW f, NEW b, NEW st, NEW cl, FrameShape(f, b.array, st, cl), BufferShape(b),
         f.kind = "buffer", f.cur = NoRef, f.until = b.size, f.i <= f.until,
         b.array[f.i] \in cl, \A r \in cl : st[r.who] = "gone",
         NEW c, c = Removed(b, f.i)
  PROVE  FrameShape(SamePlace(f), c.array, st, cl)
  <1> DEFINE g == SamePlace(f)
             i == f.i
             n == b.size
  <1>1. f \in Frames
    BY DEF FrameShape
  <1>2. i \in Nat \ {0} /\ n \in Nat /\ i \in 1..n
    BY <1>1, FrameTypes
  <1>3. /\ BufferShape(c) /\ Len(c.array) = Len(b.array) /\ c.size = n - 1
        /\ IsWithout(c, b, i)
    BY <1>2, RemovedIs, WithoutOne
  <1>4. /\ g \in Frames /\ g.kind = "buffer" /\ g.until = n - 1 /\ g.due = f.due
        /\ g.i = i /\ g.todo = f.todo /\ g.cur = NoRef /\ g.told = f.told
    <2>1. n - 1 \in Nat
      BY <1>2
    <2>2. g = [f EXCEPT !.until = n - 1]
      BY DEF SamePlace
    <2> HIDE DEF g, n
    <2>3. QED
      BY <1>1, <2>1, <2>2 DEF Frames
  <1> HIDE DEF g
  <1>5. Waiting(f) = i..n /\ Waiting(g) = i..(n - 1)
    BY <1>4 DEF Waiting, Place
  <1>6. f.todo = {} /\ n <= Len(b.array)
    BY DEF FrameShape, LeftShape
  <1>7. /\ Left(f, b.array) = {b.array[j] : j \in i..n}
        /\ Left(g, c.array) = {c.array[j] : j \in i..(n - 1)}
    BY <1>4, <1>5, <1>6 DEF Left
  <1> HIDE DEF i
  <1>8. ASSUME NEW r \in Left(g, c.array)
        PROVE  r \in Left(f, b.array)
    <2>1. PICK j \in i..(n - 1) : r = c.array[j]
      BY <1>7
    <2>2. j \in 1..(n - 1) /\ j >= i
      BY <1>2
    <2>3. PICK k \in 1..n : c.array[j] = b.array[k] /\ k >= i
      BY <1>3, <2>2 DEF IsWithout
    <2>4. k \in i..n
      BY <1>2, <2>3
    <2>5. QED
      BY <1>7, <2>1, <2>3, <2>4
  <1>9. ASSUME NEW r \in Left(f, b.array), r # b.array[i]
        PROVE  r \in Left(g, c.array)
    <2>1. PICK k \in i..n : r = b.array[k]
      BY <1>7
    <2>2. k \in 1..n /\ k >= i /\ k # i
      BY <1>2, <1>9, <2>1
    <2>3. PICK j \in 1..(n - 1) : c.array[j] = b.array[k] /\ j >= i
      BY <1>3, <2>2 DEF IsWithout
    <2>4. j \in i..(n - 1)
      BY <1>2, <2>3
    <2>5. QED
      BY <1>7, <2>1, <2>3, <2>4
  <1>10. \A o : Told(g, o) <=> Told(f, o)
    BY <1>4 DEF Told
  <1>11. LeftShape(g, c.array, st, cl)
    <2>1. g.todo = {} /\ g.until <= Len(c.array) /\ Apart(g.todo)
      BY <1>2, <1>3, <1>4, <1>6 DEF Apart
    <2>2. \A r \in Left(g, c.array) : /\ r \in Refs /\ st[r.who] # "new" /\ ~Told(g, r.who)
                                      /\ st[r.who] = "gone" => r \in cl
      BY <1>8, <1>10 DEF FrameShape, LeftShape
    <2>3. \A j \in Waiting(g) : j \in 1..(n - 1)
      BY <1>2, <1>5
    <2>4. \A j, k \in Waiting(g) : c.array[j].who = c.array[k].who => j = k
      BY <1>3, <2>3 DEF BufferShape
    <2>5. QED
      BY <2>1, <2>2, <2>4 DEF LeftShape
  <1>12. DueShape(g, c.array, st)
    <2> SUFFICES ASSUME NEW o \in f.due
                 PROVE  /\ st[o] # "new"
                        /\ st[o] = "live" => Told(g, o)
                                             \/ \E r \in Left(g, c.array) : r.who = o
      BY <1>4 DEF DueShape
    <2>1. /\ st[o] # "new"
          /\ st[o] = "live" => Told(f, o) \/ \E r \in Left(f, b.array) : r.who = o
      BY DEF FrameShape, DueShape
    <2>2. st[b.array[i].who] = "gone"
      BY DEF i
    <2>3. QED
      BY <1>9, <1>10, <2>1, <2>2
  <1>13. ToldShape(g, st)
    BY <1>4 DEF FrameShape, ToldShape
  <1>14. QED
    BY <1>4, <1>11, <1>12, <1>13 DEF FrameShape, g

\* Entries that are cleared may be left out.
LEMMA ClearedOut ==
  ASSUME NEW E, NEW F, NEW st, NEW cl, EntriesShape(E, st, cl),
         F \subseteq E, E \ cl \subseteq F
  PROVE  EntriesShape(F, st, cl)
  <1>1. /\ st \in Statuses /\ cl \in SUBSET Refs /\ \A r \in cl : st[r.who] = "gone"
        /\ \A r \in E : /\ r \in Refs /\ st[r.who] # "new"
                        /\ st[r.who] = "gone" => r \in cl
        /\ \A o \in Observers : st[o] = "live" => \E r \in E : r.who = o
    BY DEF EntriesShape
  <1>2. \A r \in F : /\ r \in Refs /\ st[r.who] # "new"
                     /\ st[r.who] = "gone" => r \in cl
    BY <1>1
  <1>3. ASSUME NEW o \in Observers, st[o] = "live"
        PROVE  \E r \in F : r.who = o
    <2>1. PICK r \in E : r.who = o
      BY <1>1, <1>3
    <2>2. r \in F
      BY <1>1, <1>3, <2>1
    <2>3. QED
      BY <2>1, <2>2
  <1>4. QED
    BY <1>1, <1>2, <1>3 DEF EntriesShape

\* A cleared reference is taken out; the buffer always has it.
LEMMA TakeOut_Inv ==
  ASSUME StreamInv, TakeOut
  PROVE  StreamInv'
  <1> DEFINE f == Top
             b == buffer
             c == buffer'
             g == SamePlace(f)
             E == Held(demux, single, buffer, table)
             F == Held(demux', single', buffer', table')
  <1>1. /\ Depth = 1 /\ f.cur = NoRef /\ f.kind = "buffer" /\ f.i <= f.until
        /\ ArrayOf(f)[f.i] \in cleared
        /\ UNCHANGED <<use, status, demux, single, table, made, cleared>>
    BY DEF TakeOut, Loops
  <1>2. /\ FrameShape(f, ArrayOf(f), status, cleared) /\ stack \in Seq(Frames)
        /\ Len(stack) = 1 /\ f = stack[1] /\ f \in Frames
    BY <1>1, TopIs
  <1>3. use = "cancel"
    BY <1>1 DEF StreamInv, GrowShape
  <1>4. demux = "buffer" /\ f.old = <<>> /\ f.until = b.size
    BY <1>1, <1>2, <1>3, CancelLoop
  <1>5. ArrayOf(f) = b.array
    BY <1>4 DEF ArrayOf
  <1>6. BufferShape(b) /\ EntriesShape(E, status, cleared)
    BY <1>4 DEF StreamInv, DemuxShape
  <1>7. f.i \in 1..b.size /\ b.size \in Nat
    <2>1. f.i \in Nat \ {0} /\ f.until \in Nat
      BY <1>2, FrameTypes
    <2>2. QED
      BY <1>1, <1>4, <2>1
  <1>8. c = Removed(b, f.i) /\ stack' = [stack EXCEPT ![1] = g]
    BY <1>1, <1>7 DEF TakeOut, InTop
  <1> HIDE DEF f, c
  <1>9. /\ BufferShape(c) /\ c.size = b.size - 1 /\ IsWithout(c, b, f.i)
    BY <1>6, <1>7, <1>8, RemovedIs, WithoutOne
  <1>10. FrameShape(g, c.array, status, cleared)
    <2>1. \A r \in cleared : status[r.who] = "gone"
      BY <1>6 DEF EntriesShape
    <2>2. FrameShape(f, b.array, status, cleared) /\ b.array[f.i] \in cleared
      BY <1>1, <1>2, <1>5
    <2> HIDE DEF b
    <2>3. QED
      BY <1>1, <1>4, <1>6, <1>8, <2>1, <2>2, TakeOutLoop
  <1>11. /\ g \in Frames /\ g.kind = f.kind /\ g.old = f.old /\ g.until = f.until - 1
         /\ g.todo = f.todo
    <2>1. g \in Frames
      BY <1>10 DEF FrameShape
    <2>2. QED
      BY <1>2, <2>1 DEF SamePlace, Frames
  <1> HIDE DEF g
  <1>12. stack' \in Seq(Frames) /\ Len(stack') = 1 /\ stack'[1] = g /\ Depth' = 1
    BY <1>2, <1>8, <1>11 DEF Depth
  <1>13. LoopsShape(stack', buffer', status', cleared')
    <2>1. ArrayIn(g, c) = c.array
      BY <1>4, <1>11 DEF ArrayIn
    <2>2. \A d \in 1..1 : d = 1
      OBVIOUS
    <2>3. \A d \in 1..1 : FrameShape(stack'[d], ArrayIn(stack'[d], c), status, cleared)
      BY <1>10, <1>12, <2>1, <2>2
    <2>4. QED
      BY <1>1, <1>12, <2>3 DEF LoopsShape, c
  <1>14. E = {b.array[j] : j \in 1..b.size} /\ F = {c.array[j] : j \in 1..c.size}
    BY <1>1, <1>4 DEF Held, c
  <1> HIDE DEF E, F, b
  <1>15. F \subseteq E /\ E \ cleared \subseteq F
    BY <1>1, <1>5, <1>9, <1>14 DEF IsWithout
  <1>16. EntriesShape(F, status, cleared)
    BY <1>6, <1>15, ClearedOut
  <1>17. DemuxShape(demux', single', buffer', table')
    BY <1>1, <1>4, <1>9 DEF DemuxShape, BufferShape, c
  <1>18. CancelShape' /\ GrowShape'
    <2>1. f.todo = {}
      BY <1>1, <1>2 DEF FrameShape, LeftShape
    <2>2. \A d \in 1..1 : d = 1
      OBVIOUS
    <2>3. /\ stack'[1].kind = demux' /\ stack'[1].old = <<>>
          /\ stack'[1].until = buffer'.size
          /\ stack'[1].todo = {}
      BY <1>1, <1>4, <1>9, <1>11, <1>12, <2>1 DEF c
    <2>4. CancelShape'
      BY <1>12, <2>2, <2>3 DEF CancelShape
    <2>5. GrowShape'
      BY <1>1, <1>3 DEF GrowShape
    <2>6. QED
      BY <2>4, <2>5
  <1>19. QED
    BY <1>1, <1>13, <1>16, <1>17, <1>18 DEF StreamInv, F

\* checkBuffer turns a small buffer into a Ref, or into nothing.
LEMMA CheckedBuffer ==
  ASSUME NEW b, BufferShape(b), CheckBuffer(b, "buffer")
  PROVE  /\ DemuxShape(demux', single', b, table')
         /\ Held(demux', single', b, table') = {b.array[j] : j \in 1..b.size}
         /\ demux' = "buffer" => b.size >= 2
  <1>1. b.size \in Nat /\ b \in Buffers
    BY DEF BufferShape, Buffers
  <1>2. CASE b.size = 0
    <2>1. demux' = "none" /\ 1..b.size = {}
      BY <1>2 DEF CheckBuffer
    <2>2. QED
      BY <1>1, <2>1 DEF DemuxShape, Held
  <1>3. CASE b.size = 1
    <2>1. demux' = "ref" /\ single' = b.array[1] /\ 1..b.size = {1}
      BY <1>3 DEF CheckBuffer
    <2>2. b.array[1] \in Refs
      BY <2>1 DEF BufferShape
    <2>3. QED
      BY <1>1, <2>1, <2>2 DEF DemuxShape, Held
  <1>4. CASE b.size # 0 /\ b.size # 1
    <2>1. demux' = "buffer" /\ b.size >= 2
      BY <1>1, <1>4 DEF CheckBuffer
    <2>2. QED
      BY <1>1, <2>1 DEF DemuxShape, Held
  <1>5. QED
    BY <1>2, <1>3, <1>4

\* When no loop is left, only demux is to be shown well formed.
LEMMA Ended ==
  ASSUME StreamInv, stack' = <<>>, UNCHANGED <<use, status, made, cleared>>,
         DemuxShape(demux', single', buffer', table'),
         EntriesShape(Held(demux', single', buffer', table'), status, cleared),
         demux' = "buffer" => buffer'.size >= 2
  PROVE  StreamInv'
  <1>1. Depth' = 0 /\ 1..Depth' = {}
    BY DEF Depth
  <1>2. LoopsShape(stack', buffer', status', cleared')
    BY DEF LoopsShape
  <1>3. CancelShape' /\ GrowShape'
    BY <1>1 DEF CancelShape, GrowShape, StreamInv
  <1>4. QED
    BY <1>2, <1>3 DEF StreamInv

\* checkBuffer after the last loop over a buffer.
LEMMA EndOfBuffer ==
  ASSUME StreamInv, stack' = <<>>, UNCHANGED <<use, status, made, cleared, buffer, table>>,
         demux \in {"buffer", "table"}, BufferShape(buffer), CheckBuffer(buffer, demux),
         demux = "table" => buffer.size >= 2
  PROVE  StreamInv'
  <1> DEFINE E == Held(demux, single, buffer, table)
  <1>1. EntriesShape(E, status, cleared) /\ DemuxShape(demux, single, buffer, table)
        /\ buffer.size \in Nat
    BY DEF StreamInv, BufferShape, Buffers
  <1>2. CASE demux = "buffer"
    <2>1. /\ DemuxShape(demux', single', buffer, table')
          /\ Held(demux', single', buffer, table') = {buffer.array[j] : j \in 1..buffer.size}
          /\ demux' = "buffer" => buffer.size >= 2
      BY <1>2, CheckedBuffer
    <2>2. E = {buffer.array[j] : j \in 1..buffer.size}
      BY <1>2 DEF Held
    <2>3. QED
      BY <1>1, <2>1, <2>2, Ended
  <1>3. CASE demux = "table"
    <2>1. demux' = "table"
      BY <1>1, <1>3 DEF CheckBuffer
    <2>2. DemuxShape(demux', single', buffer', table')
      BY <1>1, <1>3, <2>1 DEF DemuxShape
    <2>3. Held(demux', single', buffer', table') = E
      BY <1>3, <2>1 DEF Held
    <2> HIDE DEF E
    <2>4. QED
      BY <1>1, <2>1, <2>2, <2>3, Ended
  <1>4. QED
    BY <1>2, <1>3

\* The references of a table, in the order of its array.
LEMMA InOrderOf ==
  ASSUME NEW S \in SUBSET Refs, IsFiniteSet(S), Apart(S), NEW order \in SetToSeqs(S)
  PROVE  /\ order \in Seq(Refs) /\ Len(order) = Cardinality(S)
         /\ {order[j] : j \in 1..Len(order)} = S
         /\ \A j, k \in 1..Len(order) : order[j].who = order[k].who => j = k
  <1> DEFINE n == Cardinality(S)
  <1>1. /\ order \in [1..n -> S]
        /\ \A j, k \in 1..n : j # k => order[j] # order[k]
    BY DEF SetToSeqs
  <1>2. n \in Nat
    BY FS_CardinalityType
  <1> HIDE DEF n
  <1>3. order \in Seq(Refs) /\ Len(order) = n
    BY <1>1, <1>2
  <1>4. IsFiniteSet(1..n) /\ Cardinality(1..n) = n
    BY <1>2, FS_Interval
  <1>5. order \in Injection(1..n, S)
    BY <1>1 DEF Injection, IsInjective
  <1>6. order \in Surjection(1..n, S)
    BY <1>4, <1>5, FS_Injection DEF n
  <1>7. {order[j] : j \in 1..n} = S
    BY <1>1, <1>6 DEF Surjection
  <1>8. \A j, k \in 1..n : order[j].who = order[k].who => j = k
    BY <1>1 DEF Apart
  <1>9. QED
    BY <1>3, <1>7, <1>8 DEF n

\* checkHashTable after the last loop over a table.
LEMMA EndOfTable ==
  ASSUME StreamInv, stack' = <<>>, UNCHANGED <<use, status, made, cleared>>,
         demux = "table", CheckTable(table.refs \ cleared)
  PROVE  StreamInv'
  <1> DEFINE E == table.refs
             S == E \ cleared
  <1>1. EntriesShape(E, status, cleared) /\ DemuxShape(demux, single, buffer, table)
        /\ E \in SUBSET Refs /\ IsFiniteSet(E) /\ Apart(E)
    BY DEF StreamInv, DemuxShape, Held
  <1>2. EntriesShape(S, status, cleared)
    <2> HIDE DEF E
    <2>1. QED
      BY <1>1, ClearedOut
  <1>3. S \in SUBSET Refs /\ IsFiniteSet(S) /\ Apart(S)
    <2>1. S \in SUBSET E
      OBVIOUS
    <2>2. QED
      BY <1>1, <2>1, FS_Subset DEF Apart
  <1>4. Cardinality(S) \in Nat /\ Lower \in Nat /\ Upper \in Nat /\ Lower <= Upper
    BY <1>3, FS_CardinalityType, StreamAssumption
  <1>5. CASE Cardinality(S) < Lower
    <2>1. PICK order \in SetToSeqs(S) :
            buffer' = [array |-> Padded(order, Upper), size |-> Len(order)]
      BY <1>5 DEF CheckTable
    <2>2. CheckBuffer(buffer', "buffer")
      BY <1>5 DEF CheckTable
    <2> HIDE DEF S
    <2>3. /\ order \in Seq(Refs) /\ Len(order) = Cardinality(S)
          /\ {order[j] : j \in 1..Len(order)} = S
          /\ \A j, k \in 1..Len(order) : order[j].who = order[k].who => j = k
      BY <1>3, InOrderOf
    <2>4. Len(order) <= Upper /\ Upper \in Nat \ {0}
      BY <1>4, <1>5, <2>3
    <2>5. IsBufferOf(buffer', order, Upper)
      BY <2>1, <2>3, <2>4 DEF IsBufferOf
    <2>6. /\ BufferShape(buffer') /\ buffer'.size = Len(order)
          /\ \A j \in 1..buffer'.size : buffer'.array[j] = order[j]
      BY <2>5, BufferOf
    <2>7. {buffer'.array[j] : j \in 1..buffer'.size} = S
      BY <2>3, <2>6
    <2>8. /\ DemuxShape(demux', single', buffer', table')
          /\ Held(demux', single', buffer', table')
               = {buffer'.array[j] : j \in 1..buffer'.size}
          /\ demux' = "buffer" => buffer'.size >= 2
      BY <2>2, <2>6, CheckedBuffer
    <2>9. QED
      BY <1>2, <2>7, <2>8, Ended
  <1>6. CASE ~(Cardinality(S) < Lower)
    <2>1. UNCHANGED <<demux, single, buffer>>
      BY <1>6 DEF CheckTable
    <2>2. table'.refs = S
      <3>1. PICK more \in SUBSET Losable :
              table' = [table EXCEPT !.refs = S, !.lost = @ \cup more]
        BY <1>6 DEF CheckTable
      <3> HIDE DEF S
      <3>2. QED
        BY <3>1
    <2> HIDE DEF S
    <2>3. DemuxShape(demux', single', buffer', table')
      BY <1>1, <1>3, <2>1, <2>2 DEF DemuxShape
    <2>4. Held(demux', single', buffer', table') = S
      BY <2>1, <2>2 DEF Held
    <2>5. QED
      BY <1>2, <2>1, <2>3, <2>4, Ended
  <1>7. QED
    BY <1>5, <1>6

\* The end of a loop, after which demux may shrink.
LEMMA End_Inv ==
  ASSUME StreamInv, End
  PROVE  StreamInv'
  <1> DEFINE n == Depth
  <1>1. /\ n > 0 /\ stack' = Front(stack)
        /\ UNCHANGED <<use, status, made, cleared>>
    BY DEF End, AtEnd, Loops
  <1>2. stack \in Seq(Frames) /\ n \in Nat \ {0} /\ n = Len(stack) /\ n \in 1..n
        /\ Top = stack[n] /\ Top \in Frames
    BY <1>1, TopIs
  <1> HIDE DEF n
  <1>3. /\ stack' \in Seq(Frames) /\ Len(stack') = n - 1
        /\ \A d \in 1..(n - 1) : stack'[d] = stack[d]
    BY <1>1, <1>2 DEF Front
  <1>4. CASE n > 1 \/ Top.kind = "ref"
    <2>1. UNCHANGED <<demux, single, buffer, table>>
      BY <1>4 DEF End, n
    <2>2. Depth' = n - 1 /\ \A d \in 1..(n - 1) : d \in 1..n
      BY <1>2, <1>3 DEF Depth
    <2>3. LoopsShape(stack', buffer, status, cleared)
      <3>1. \A d \in 1..n : FrameShape(stack[d], ArrayIn(stack[d], buffer), status, cleared)
        BY <1>2 DEF StreamInv, LoopsShape
      <3>2. QED
        BY <1>3, <2>2, <3>1 DEF LoopsShape
    <2>4. CancelShape'
      <3> SUFFICES ASSUME use = "cancel" PROVE n - 1 = 0 /\ 1..(n - 1) = {}
        BY <1>1, <2>2 DEF CancelShape
      <3>1. n <= 1
        BY DEF StreamInv, CancelShape, n
      <3>2. QED
        BY <1>2, <3>1
    <2>5. GrowShape'
      <3> SUFFICES ASSUME use = "grow"
                   PROVE  /\ cleared = {}
                          /\ demux = "none" => n - 1 = 0
                          /\ demux = "buffer" => buffer.size >= 2
                          /\ \A d \in 1..(n - 1) : GrowingLoop(stack'[d], demux, buffer)
        BY <1>1, <2>1, <2>2 DEF GrowShape
      <3>1. /\ cleared = {}
            /\ demux = "none" => n = 0
            /\ demux = "buffer" => buffer.size >= 2
            /\ \A d \in 1..n : GrowingLoop(stack[d], demux, buffer)
        BY DEF StreamInv, GrowShape, n
      <3>2. QED
        BY <1>2, <1>3, <2>2, <3>1
    <2>6. QED
      BY <1>1, <2>1, <2>3, <2>4, <2>5 DEF StreamInv
  <1>5. CASE ~(n > 1 \/ Top.kind = "ref")
    <2>1. n = 1 /\ stack' = <<>> /\ Top.kind \in {"buffer", "table"}
      BY <1>2, <1>3, <1>5, FrameTypes
    <2>2. /\ use = "cancel" => Top.kind = demux
          /\ use = "grow" => GrowingLoop(Top, demux, buffer)
      BY <1>2, CancelLoop DEF StreamInv, GrowShape, n
    <2>3. use \in {"cancel", "grow"} /\ DemuxShape(demux, single, buffer, table)
      BY DEF StreamInv
    <2>4. CASE Top.kind = "buffer"
      <3>1. CheckBuffer(buffer, demux) /\ UNCHANGED <<buffer, table>>
        BY <1>5, <2>4 DEF End, n
      <3>2. /\ demux \in {"buffer", "table"} /\ BufferShape(buffer)
            /\ demux = "table" => buffer.size >= 2
        BY <2>2, <2>3, <2>4 DEF GrowingLoop, DemuxShape
      <3>3. QED
        BY <1>1, <2>1, <3>1, <3>2, EndOfBuffer
    <2>5. CASE Top.kind = "table"
      <3>1. CheckTable(table.refs \ cleared)
        BY <1>5, <2>5 DEF End, n
      <3>2. demux = "table"
        BY <2>2, <2>3, <2>5 DEF GrowingLoop
      <3>3. QED
        BY <1>1, <2>1, <3>1, <3>2, EndOfTable
    <2>6. QED
      BY <2>1, <2>4, <2>5
  <1>6. QED
    BY <1>4, <1>5

\* At the beginning nobody has subscribed.
LEMMA StreamInit_Inv ==
  ASSUME StreamInit, use # "both"
  PROVE  StreamInv
  <1>1. /\ use \in Uses /\ status = [o \in Observers |-> "new"] /\ demux = "none"
        /\ buffer = [array |-> <<>>, size |-> 0] /\ made = 0 /\ cleared = {}
        /\ stack = <<>>
    BY DEF StreamInit
  <1>2. use \in {"cancel", "grow"}
    BY <1>1, StreamAssumption
  <1>3. buffer \in Buffers
    BY <1>1 DEF Buffers
  <1>4. DemuxShape(demux, single, buffer, table) /\ Held(demux, single, buffer, table) = {}
    BY <1>1, <1>3 DEF DemuxShape, Held
  <1>5. EntriesShape({}, status, cleared)
    BY <1>1 DEF EntriesShape, Statuses
  <1>6. LoopsShape(stack, buffer, status, cleared) /\ Depth = 0 /\ 1..Depth = {}
    BY <1>1 DEF LoopsShape, Depth
  <1>7. CancelShape /\ GrowShape
    BY <1>1, <1>6 DEF CancelShape, GrowShape
  <1>8. QED
    BY <1>1, <1>2, <1>4, <1>5, <1>6, <1>7 DEF StreamInv

\* Every step keeps the invariant.
LEMMA StreamNext_Inv == StreamInv /\ [StreamNext]_streamVars => StreamInv'
  <1> SUFFICES ASSUME StreamInv, [StreamNext]_streamVars PROVE StreamInv'
    OBVIOUS
  <1>1. ASSUME NEW o \in Observers, Subscribe(o) \/ Unsubscribe(o)
        PROVE  StreamInv'
    BY <1>1, Subscribe_Inv, Unsubscribe_Inv
  <1>2. CASE Emit
    BY <1>2, Emit_Inv
  <1>3. CASE CallFromBuffer
    BY <1>3, CallFromBuffer_Inv
  <1>4. CASE TakeOut
    BY <1>4, TakeOut_Inv
  <1>5. CASE CallFromTable
    BY <1>5, CallFromTable_Inv
  <1>6. CASE Return
    BY <1>6, Return_Inv
  <1>7. CASE End
    BY <1>7, End_Inv
  <1>8. CASE UNCHANGED streamVars
    <2>1. UNCHANGED <<use, status, demux, single, buffer, table, made, cleared, stack>>
      BY <1>8 DEF streamVars
    <2>2. Depth' = Depth
      BY <2>1 DEF Depth
    <2>3. CancelShape' /\ GrowShape'
      BY <2>1, <2>2 DEF StreamInv, CancelShape, GrowShape
    <2>4. QED
      BY <2>1, <2>3 DEF StreamInv
  <1>9. QED
    BY <1>1, <1>2, <1>3, <1>4, <1>5, <1>6, <1>7, <1>8 DEF StreamNext

\* At the end of a loop nobody is left to it who is still subscribed.
LEMMA StreamInvGives ==
  ASSUME StreamInv
  PROVE  Propagated
  <1> SUFFICES ASSUME AtEnd
               PROVE  /\ \A o \in Top.due : status[o] = "live" => <<o, TRUE>> \in Range(Top.told)
                      /\ \A j, k \in DOMAIN Top.told : Top.told[j][1] = Top.told[k][1] => j = k
                      /\ \A o \in Observers :
                           <<o, FALSE>> \in Range(Top.told) => status[o] = "missed"
    BY DEF Propagated
  <1> DEFINE f == Top
             arr == ArrayOf(f)
  <1>1. Depth > 0 /\ f.cur = NoRef
        /\ IF f.kind = "buffer" THEN f.i > f.until ELSE f.todo \subseteq cleared
    BY DEF AtEnd, Loops
  <1>2. f \in Frames /\ FrameShape(f, arr, status, cleared)
    BY <1>1, TopIs
  <1>3. f.i \in Nat \ {0} /\ f.until \in Nat /\ f.told \in Seq(Observers \X BOOLEAN)
    BY <1>2, FrameTypes
  <1> HIDE DEF f, arr
  <1>4. DOMAIN f.told = 1..Len(f.told)
    BY <1>3
  <1>5. Waiting(f) = {}
    BY <1>1, <1>3 DEF Waiting, Place
  <1>6. \A r \in Left(f, arr) : r \in cleared
    BY <1>1, <1>2, <1>5 DEF Left, FrameShape, LeftShape
  <1>7. ASSUME NEW o \in f.due, status[o] = "live"
        PROVE  <<o, TRUE>> \in Range(f.told)
    <2>1. Told(f, o) \/ \E r \in Left(f, arr) : r.who = o
      BY <1>2, <1>7 DEF FrameShape, DueShape
    <2>2. \A r \in cleared : status[r.who] = "gone"
      BY LiveOnes
    <2>3. PICK k \in 1..Len(f.told) : f.told[k][1] = o
      BY <1>6, <1>7, <2>1, <2>2 DEF Told
    <2>4. PICK p \in Observers, now \in BOOLEAN : f.told[k] = <<p, now>>
      <3>1. f.told[k] \in Observers \X BOOLEAN
        BY <1>3
      <3>2. QED
        BY <3>1
    <2>5. Callable(<<p, now>>, status)
      BY <1>2, <2>4 DEF FrameShape, ToldShape
    <2>6. f.told[k] = <<o, TRUE>>
      <3>1. p = o
        BY <2>3, <2>4
      <3>2. now = FALSE => status[p] = "missed"
        BY <2>5 DEF Callable
      <3>3. now # FALSE
        BY <1>7, <3>1, <3>2
      <3>4. now = TRUE
        BY <3>3
      <3>5. QED
        BY <2>4, <3>1, <3>4, Zenon
    <2>7. QED
      BY <1>4, <2>6 DEF Range
  <1>8. \A j, k \in DOMAIN f.told : f.told[j][1] = f.told[k][1] => j = k
    BY <1>2, <1>4 DEF FrameShape, ToldShape
  <1>9. ASSUME NEW o \in Observers, <<o, FALSE>> \in Range(f.told)
        PROVE  status[o] = "missed"
    <2>1. PICK k \in 1..Len(f.told) : f.told[k] = <<o, FALSE>>
      BY <1>4, <1>9 DEF Range
    <2>2. Callable(<<o, FALSE>>, status)
      BY <1>2, <2>1 DEF FrameShape, ToldShape
    <2>3. QED
      BY <2>2 DEF Callable
  <1>10. QED
    BY <1>7, <1>8, <1>9 DEF f

\* Push.reactAll: an observer that is subscribed from the emission of an event
\* to the end of its propagation is called, nobody is called twice for one
\* event, and nobody after the end of its subscription unless a table has lost
\* its reference, for any number of observers, any sizes of the buffer and the
\* tables, any hash codes and any depth of emissions, as long as the observers
\* that are called only end subscriptions, or only subscribe others and emit.
\* (With both the run Push_skips refutes it; that references do get lost is what
\* refutes UnsubscribedLeftAlone.)
THEOREM PropagatedHolds == StreamSpec /\ use # "both" => []Propagated
  <1>1. StreamInit /\ use # "both" => StreamInv
    BY StreamInit_Inv
  <1>2. StreamInv => Propagated
    BY StreamInvGives
  <1>3. QED
    BY <1>1, <1>2, StreamNext_Inv, PTL DEF StreamSpec

=============================================================================
