--------------------------- MODULE MultiValve_proofs ---------------------------
(***************************************************************************)
(* Proofs about the multi-valve: no pressure token is lost or doubled, and *)
(* if no event was emitted before the first valve was attached, each valve *)
(* passes on a stretch of the events without gap or repetition, and the    *)
(* ring holds exactly what some valve may still ask for.  All of it for    *)
(* every set of valves, every window, every policy size and any number of  *)
(* events.                                                                 *)
(***************************************************************************)
EXTENDS MultiValve, SequenceTheorems, FiniteSetTheorems, TLAPS

-----------------------------------------------------------------------------
(* The inductive invariant. *)

\* Events a + 1 to b, in order.
Stretch(a, b) == [i \in 1..(b - a) |-> a + i]

\* The links' counters and queues.
LinksTyped ==
  /\ budget \in [Valves -> Nat] /\ tokens \in [Valves -> Nat]
  /\ grants \in [Valves -> Seq(Nat)]
  /\ wire \in [Valves -> Seq(Nat)]
  /\ buffer \in [Valves -> Seq(Nat)]
  /\ consumed \in [Valves -> Seq(Nat)]

\* A valve is never removed from the aggregate, and the positions lie between
\* what was dropped and what was accepted.  Without a valve nothing is kept.
PositionShape ==
  /\ attached \subseteq counted /\ counted \subseteq Valves
  /\ pos \in [Valves -> Nat] /\ joined \in [Valves -> Nat]
  /\ next \in 0..MaxEmits /\ oldest \in 0..next
  /\ flushing \in BOOLEAN /\ failed \in BOOLEAN
  /\ ring \in Seq(Nat) /\ Len(ring) <= Window
  /\ \A v \in counted : pos[v] \in oldest..next /\ joined[v] <= pos[v]
  /\ counted = {} => oldest = 0 /\ ring = <<>> /\ ~flushing

\* The ring holds the events that were accepted and not dropped.
RingShape ==
  /\ failed = FALSE
  /\ ring = Stretch(oldest, next)
  /\ next - oldest <= Window

\* What a valve's consumer was sent, consumed or not.
Passed(v) == consumed[v] \o buffer[v] \o wire[v]

PassedShape ==
  /\ \A v \in counted : Passed(v) = Stretch(joined[v], pos[v])
  /\ \A v \in Valves \ counted : Passed(v) = <<>>

InOrder == RingShape /\ PassedShape

MultiInv == LinksTyped /\ PositionShape /\ (Attended => InOrder)

-----------------------------------------------------------------------------
(* The least position. *)

\* The least of a nonempty set of natural numbers exists and is in it.
LEMMA LeastIs ==
  ASSUME NEW S \in SUBSET Nat, S # {}
  PROVE  Least(S) \in S /\ \A x \in S : Least(S) <= x
<1> DEFINE T == {0..x : x \in S}
           R == StrictSubsetOrdering(Nat)
<1>1. T \subseteq FiniteSubsetsOf(Nat) /\ T # {}
  <2>1. ASSUME NEW x \in S PROVE 0..x \in FiniteSubsetsOf(Nat)
    <3>1. IsFiniteSet(0..x) /\ 0..x \subseteq Nat
      BY FS_Interval
    <3> QED
      BY <3>1 DEF FiniteSubsetsOf
  <2> QED
    BY <2>1
<1>2. PICK I \in T : \A J \in T : ~(<<J, I>> \in R)
  <2>1. IsWellFoundedOn(R, FiniteSubsetsOf(Nat))
    BY FS_StrictSubsetOrderingWellFounded
  <2> HIDE DEF T, R
  <2> QED
    BY <1>1, <2>1, WFMin
<1>3. PICK m \in S : I = 0..m
  BY <1>2
<1>4. ASSUME NEW y \in S PROVE m <= y
  <2>1. SUFFICES ASSUME y < m PROVE FALSE
    OBVIOUS
  <2>2. 0..y \subseteq 0..m /\ m \notin 0..y /\ m \in 0..m /\ 0..m \subseteq Nat
    BY <2>1
  <2>3. <<0..y, I>> \in R
    BY <1>3, <2>2 DEF StrictSubsetOrdering
  <2> QED
    BY <1>2, <2>3
<1>5. Min(S) \in S /\ \A x \in S : Min(S) <= x
  BY <1>4 DEF Min
<1> QED
  BY <1>5 DEF Least

\* The slowest valve is within what the ring holds; without a valve the
\* aggregate has its neutral element.
LEMMA SlowestBounds ==
  ASSUME PositionShape
  PROVE  /\ counted # {} => /\ Slowest \in oldest..next
                            /\ \E w \in counted : Slowest = pos[w]
         /\ counted = {} => Slowest = MaxEmits + 1
         /\ \A v \in counted : Slowest \in Nat /\ Slowest <= pos[v]
<1> DEFINE P == {pos[v] : v \in counted}
<1>1. P \subseteq Nat /\ \A v \in counted : pos[v] \in P
  BY DEF PositionShape
<1>2. Slowest = Least(P)
  BY DEF Slowest, SlowestOf
<1>3. CASE counted = {}
  BY <1>2, <1>3 DEF Least, Infinity
<1>4. CASE counted # {}
  <2>1. P # {}
    BY <1>4
  <2>2. Least(P) \in P /\ \A x \in P : Least(P) <= x
    <3> HIDE DEF P
    <3> QED
      BY <1>1, <2>1, LeastIs
  <2>3. PICK w \in counted : Least(P) = pos[w]
    BY <2>2
  <2>4. Slowest \in oldest..next /\ Slowest \in Nat
    BY <1>2, <2>3 DEF PositionShape
  <2> QED
    BY <1>1, <1>2, <1>4, <2>2, <2>3, <2>4
<1> QED
  BY <1>3, <1>4

-----------------------------------------------------------------------------
(* Sums of tokens. *)

\* Induction over the naturals, from the order of finite sets by inclusion.
LEMMA SetInduction ==
  ASSUME NEW S, 0 \in S, \A n \in Nat : n \in S => n + 1 \in S
  PROVE  Nat \subseteq S
  <1> SUFFICES ASSUME Nat \ S # {} PROVE FALSE
    OBVIOUS
  <1> DEFINE T == {0..n : n \in Nat \ S}
  <1>1. T \subseteq FiniteSubsetsOf(Nat) /\ T # {}
    <2>1. \A n \in Nat : IsFiniteSet(0..n)
      BY FS_Interval
    <2>2. QED
      BY <2>1 DEF FiniteSubsetsOf
  <1>2. PICK x \in T : \A y \in T : ~ (<<y, x>> \in StrictSubsetOrdering(Nat))
    <2> HIDE DEF T
    <2>1. QED
      BY <1>1, WFMin, FS_StrictSubsetOrderingWellFounded
  <1>3. PICK n \in Nat \ S : x = 0..n
    OBVIOUS
  <1>4. n - 1 \in Nat \ S
    <2>1. n # 0
      OBVIOUS
    <2>2. QED
      BY <2>1
  <1>5. <<0..(n - 1), 0..n>> \in StrictSubsetOrdering(Nat)
    <2>1. n \in 0..n /\ n \notin 0..(n - 1)
      OBVIOUS
    <2>2. 0..(n - 1) \subseteq 0..n /\ 0..(n - 1) # 0..n /\ 0..n \subseteq Nat
      BY <2>1
    <2>3. QED
      BY <2>2 DEF StrictSubsetOrdering
  <1>6. QED
    BY <1>2, <1>3, <1>4, <1>5

\* f is the sum of the first elements of s, up to the n-th.
IsSum(f, s, n) == f = [i \in 0..n |-> IF i = 0 THEN 0 ELSE f[i - 1] + s[i]]

\* There is such a function.
LEMMA SumExists ==
  ASSUME NEW s, NEW n \in Nat
  PROVE  \E f : IsSum(f, s, n)
<1> DEFINE S == {k \in Nat : \E f : IsSum(f, s, k)}
<1>1. 0 \in S
  <2> DEFINE f == [i \in 0..0 |-> 0]
  <2>1. IsSum(f, s, 0)
    BY DEF IsSum
  <2> QED
    BY <2>1
<1>2. ASSUME NEW k \in Nat, k \in S
      PROVE  k + 1 \in S
  <2>1. PICK f : IsSum(f, s, k)
    BY <1>2
  <2> DEFINE g == [i \in 0..(k + 1) |-> IF i = k + 1 THEN f[k] + s[k + 1] ELSE f[i]]
  <2>2. \A i \in 0..k : f[i] = IF i = 0 THEN 0 ELSE f[i - 1] + s[i]
    BY <2>1 DEF IsSum
  <2>3. \A i \in 0..(k + 1) : g[i] = IF i = 0 THEN 0 ELSE g[i - 1] + s[i]
    <3> TAKE i \in 0..(k + 1)
    <3>1. CASE i = k + 1
      <4>1. i - 1 \in 0..(k + 1) /\ i - 1 # k + 1 /\ i - 1 = k /\ i # 0
        BY <3>1
      <4>2. g[i - 1] = f[k] /\ g[i] = f[k] + s[k + 1]
        BY <3>1, <4>1
      <4> QED
        BY <3>1, <4>1, <4>2
    <3>2. CASE i # k + 1
      <4>1. i \in 0..k /\ g[i] = f[i] /\ (i # 0 => g[i - 1] = f[i - 1])
        BY <3>2
      <4> QED
        BY <2>2, <4>1
    <3> QED
      BY <3>1, <3>2
  <2>4. IsSum(g, s, k + 1)
    <3>1. g = [i \in 0..(k + 1) |-> g[i]]
      OBVIOUS
    <3> HIDE DEF g
    <3> QED
      BY <2>3, <3>1 DEF IsSum
  <2> QED
    BY <2>4
<1>3. Nat \subseteq S
  <2> HIDE DEF S
  <2> QED
    BY <1>1, <1>2, SetInduction
<1> QED
  BY <1>3

\* SumOf is the last of these sums.
LEMMA SumOfIs ==
  ASSUME NEW s \in Seq(Nat)
  PROVE  \E f : IsSum(f, s, Len(s)) /\ SumOf(s) = f[Len(s)]
<1> DEFINE f == CHOOSE g : g = [i \in 0..Len(s) |-> IF i = 0 THEN 0 ELSE g[i - 1] + s[i]]
<1>1. IsSum(f, s, Len(s))
  <2>1. \E g : IsSum(g, s, Len(s))
    BY LenProperties, SumExists
  <2> QED
    BY <2>1 DEF IsSum
<1>2. SumOf(s) = f[Len(s)]
  BY DEF SumOf
<1> HIDE DEF f
<1> QED
  BY <1>1, <1>2

\* The values of such a function.
LEMMA SumValues ==
  ASSUME NEW f, NEW s, NEW n \in Nat, IsSum(f, s, n)
  PROVE  f[0] = 0 /\ \A i \in Nat : i + 1 <= n => f[i + 1] = f[i] + s[i + 1]
<1>1. \A i \in 0..n : f[i] = IF i = 0 THEN 0 ELSE f[i - 1] + s[i]
  BY DEF IsSum
<1>2. ASSUME NEW i \in Nat, i + 1 <= n
      PROVE  f[i + 1] = f[i] + s[i + 1]
  <2>1. i + 1 \in 0..n /\ i + 1 # 0 /\ (i + 1) - 1 = i
    BY <1>2
  <2> QED
    BY <1>1, <2>1
<1> QED
  BY <1>1, <1>2

\* Sums of natural numbers are natural numbers.
LEMMA SumNat ==
  ASSUME NEW f, NEW s, NEW n \in Nat, IsSum(f, s, n), \A i \in 1..n : s[i] \in Nat
  PROVE  \A i \in 0..n : f[i] \in Nat
<1> DEFINE S == {k \in Nat : k <= n => f[k] \in Nat}
<1>1. 0 \in S
  BY SumValues
<1>2. ASSUME NEW k \in Nat, k \in S
      PROVE  k + 1 \in S
  <2> SUFFICES ASSUME k + 1 <= n PROVE f[k + 1] \in Nat
    OBVIOUS
  <2>1. f[k + 1] = f[k] + s[k + 1]
    BY SumValues
  <2>2. f[k] \in Nat /\ s[k + 1] \in Nat
    BY <1>2
  <2> QED
    BY <2>1, <2>2
<1>3. Nat \subseteq S
  <2> HIDE DEF S
  <2> QED
    BY <1>1, <1>2, SetInduction
<1> QED
  BY <1>3

\* The first n elements of s, of which f is the sum, are d places on in the
\* sequence t, of which g is the sum.
Shifted(f, g, s, t, n, m, d) ==
  /\ n \in Nat /\ m \in Nat /\ d \in Nat /\ n + d <= m
  /\ IsSum(f, s, n) /\ IsSum(g, t, m)
  /\ \A i \in 1..m : t[i] \in Nat
  /\ \A i \in 1..n : s[i] = t[i + d]

\* The sum of what s and t have in common.
LEMMA SumShifted ==
  ASSUME NEW f, NEW g, NEW s, NEW t, NEW n, NEW m, NEW d, Shifted(f, g, s, t, n, m, d)
  PROVE  g[n + d] = g[d] + f[n]
<1> USE DEF Shifted
<1> DEFINE S == {k \in Nat : k <= n => g[k + d] = g[d] + f[k]}
<1>1. \A i \in 1..n : s[i] \in Nat
  BY SMT
<1>2. /\ \A i \in 0..n : f[i] \in Nat
      /\ \A i \in 0..m : g[i] \in Nat
  <2>1. \A i \in 0..n : f[i] \in Nat
    BY <1>1, SumNat
  <2>2. \A i \in 0..m : g[i] \in Nat
    BY SumNat
  <2> QED
    BY <2>1, <2>2
<1>3. 0 \in S
  <2>1. f[0] = 0 /\ g[d] \in Nat
    BY <1>2, SumValues
  <2> QED
    BY <2>1
<1>4. ASSUME NEW k \in Nat, k \in S
      PROVE  k + 1 \in S
  <2> SUFFICES ASSUME k + 1 <= n PROVE g[(k + 1) + d] = g[d] + f[k + 1]
    OBVIOUS
  <2>1. f[k + 1] = f[k] + s[k + 1]
    BY SumValues
  <2>2. g[(k + d) + 1] = g[k + d] + t[(k + d) + 1]
    <3>1. k + d \in Nat /\ (k + d) + 1 <= m
      OBVIOUS
    <3> QED
      BY <3>1, SumValues
  <2>3. s[k + 1] = t[(k + 1) + d] /\ (k + 1) + d = (k + d) + 1
    OBVIOUS
  <2>4. g[k + d] = g[d] + f[k]
    BY <1>4
  <2>5. f[k] \in Nat /\ g[d] \in Nat /\ s[k + 1] \in Nat
    BY <1>1, <1>2
  <2> HIDE DEF S
  <2> QED
    BY <2>1, <2>2, <2>3, <2>4, <2>5
<1>5. Nat \subseteq S
  <2> HIDE DEF S
  <2> QED
    BY <1>3, <1>4, SetInduction
<1> QED
  BY <1>5

\* The tokens of a single grant.
LEMMA SumOfOne ==
  ASSUME NEW x \in Nat
  PROVE  SumOf(<<x>>) = x
<1> DEFINE s == <<x>>
<1>1. s \in Seq(Nat) /\ Len(s) = 1 /\ s[1] = x
  OBVIOUS
<1> HIDE DEF s
<1>2. PICK f : IsSum(f, s, 1) /\ SumOf(s) = f[1]
  BY <1>1, SumOfIs
<1>3. f[0] = 0 /\ f[0 + 1] = f[0] + s[0 + 1]
  BY <1>2, SumValues
<1> QED
  BY <1>1, <1>2, <1>3 DEF s

\* A grant more ...
LEMMA SumOfAppend ==
  ASSUME NEW s \in Seq(Nat), NEW x \in Nat
  PROVE  SumOf(s) \in Nat /\ SumOf(Append(s, x)) = SumOf(s) + x
<1> DEFINE t == Append(s, x)
           n == Len(s)
<1>1. /\ t \in Seq(Nat) /\ Len(t) = n + 1 /\ n \in Nat
      /\ \A i \in 1..n : t[i] = s[i]
      /\ t[n + 1] = x
  BY AppendProperties, LenProperties
<1>2. \A i \in 1..n : s[i] \in Nat
  BY ElementOfSeq
<1>3. \A i \in 1..(n + 1) : t[i] \in Nat
  <2> HIDE DEF t
  <2> QED
    BY <1>1, ElementOfSeq
<1>4. PICK f : IsSum(f, s, n) /\ SumOf(s) = f[n]
  BY SumOfIs
<1>5. PICK g : IsSum(g, t, n + 1) /\ SumOf(t) = g[n + 1]
  <2> HIDE DEF t
  <2> QED
    BY <1>1, SumOfIs
<1> HIDE DEF t, n
<1>6. f[n] \in Nat
  BY <1>1, <1>2, <1>4, SumNat
<1>7. g[n + 0] = g[0] + f[n]
  <2> DEFINE m == n + 1
  <2>1. m \in Nat /\ n + 0 <= m /\ IsSum(g, t, m) /\ \A i \in 1..m : t[i] \in Nat
    BY <1>1, <1>3, <1>5
  <2>2. \A i \in 1..n : s[i] = t[i + 0]
    BY <1>1
  <2>3. 0 \in Nat /\ n \in Nat
    BY <1>1
  <2> HIDE DEF m
  <2> DEFINE d == 0
  <2>4. d \in Nat /\ n + d <= m /\ \A i \in 1..n : s[i] = t[i + d]
    BY <2>1, <2>2
  <2> HIDE DEF d
  <2>5. Shifted(f, g, s, t, n, m, d)
    BY <1>4, <2>1, <2>3, <2>4 DEF Shifted
  <2>6. g[n + d] = g[d] + f[n]
    BY <2>5, SumShifted
  <2> QED
    BY <2>6 DEF d
<1>8. g[0] = 0 /\ g[n + 1] = g[n] + t[n + 1]
  <2> DEFINE m == n + 1
  <2>1. m \in Nat /\ n + 1 <= m /\ IsSum(g, t, m)
    BY <1>1, <1>5
  <2> HIDE DEF m
  <2> QED
    BY <1>1, <2>1, SumValues, SMTT(30)
<1>9. n + 0 = n /\ 0 + f[n] = f[n]
  BY <1>1, <1>6
<1> QED
  BY <1>1, <1>4, <1>5, <1>6, <1>7, <1>8, <1>9 DEF t

\* ... and the oldest grant gone.
LEMMA SumOfTail ==
  ASSUME NEW s \in Seq(Nat), s # <<>>
  PROVE  SumOf(Tail(s)) \in Nat /\ Head(s) \in Nat /\ SumOf(s) = Head(s) + SumOf(Tail(s))
<1> DEFINE t == Tail(s)
           n == Len(t)
<1>1. /\ t \in Seq(Nat) /\ Len(s) = n + 1 /\ n \in Nat
      /\ \A i \in 1..n : t[i] = s[i + 1]
      /\ Head(s) = s[1] /\ s[1] \in Nat
  <2>1. /\ Head(s) \in Nat /\ t \in Seq(Nat) /\ Len(t) = Len(s) - 1
        /\ \A i \in 1..Len(t) : t[i] = s[i + 1]
    BY HeadTailProperties
  <2>2. Head(s) = s[1]
    OBVIOUS
  <2>3. Len(s) \in Nat /\ Len(t) \in Nat
    BY <2>1, LenProperties
  <2> HIDE DEF t
  <2> QED
    BY <2>1, <2>2, <2>3
<1>2. \A i \in 1..(n + 1) : s[i] \in Nat
  BY <1>1, ElementOfSeq
<1>3. PICK f : IsSum(f, t, n) /\ SumOf(t) = f[n]
  <2> HIDE DEF t
  <2> QED
    BY <1>1, SumOfIs
<1>4. PICK g : IsSum(g, s, n + 1) /\ SumOf(s) = g[n + 1]
  BY <1>1, SumOfIs
<1> HIDE DEF t, n
<1>5. f[n] \in Nat
  <2>1. \A i \in 1..n : t[i] \in Nat
    BY <1>1, <1>2
  <2>2. \A i \in 0..n : f[i] \in Nat
    BY <1>1, <1>3, <2>1, SumNat
  <2> QED
    BY <1>1, <2>2
<1>6. g[n + 1] = g[1] + f[n]
  <2> DEFINE m == n + 1
  <2>1. m \in Nat /\ n + 1 <= m /\ IsSum(g, s, m) /\ \A i \in 1..m : s[i] \in Nat
    BY <1>1, <1>2, <1>4
  <2> HIDE DEF m
  <2> DEFINE d == 1
  <2>2. d \in Nat /\ n \in Nat /\ n + d <= m /\ \A i \in 1..n : t[i] = s[i + d]
    BY <1>1, <2>1
  <2> HIDE DEF d
  <2>3. Shifted(f, g, t, s, n, m, d)
    BY <1>3, <1>4, <2>1, <2>2 DEF Shifted
  <2>4. g[n + d] = g[d] + f[n]
    BY <2>3, SumShifted
  <2> QED
    BY <2>4 DEF d
<1>7. g[0] = 0 /\ g[0 + 1] = g[0] + s[0 + 1]
  <2> DEFINE m == n + 1
  <2>1. m \in Nat /\ 0 + 1 <= m /\ IsSum(g, s, m)
    BY <1>1, <1>4
  <2> HIDE DEF m
  <2> QED
    BY <2>1, SumValues
<1>8. g[1] = s[1]
  BY <1>1, <1>7
<1> QED
  BY <1>1, <1>3, <1>4, <1>5, <1>6, <1>8 DEF t

-----------------------------------------------------------------------------
(* Stretches of events. *)

\* A stretch is a sequence of as many events as it spans.
LEMMA StretchIs ==
  ASSUME NEW a \in Nat, NEW b \in Nat, a <= b
  PROVE  /\ Stretch(a, b) \in Seq(Nat)
         /\ Len(Stretch(a, b)) = b - a
         /\ \A i \in 1..(b - a) : Stretch(a, b)[i] = a + i
<1>1. b - a \in Nat
  OBVIOUS
<1>2. \A i \in 1..(b - a) : a + i \in Nat
  OBVIOUS
<1>3. Stretch(a, b) \in [1..(b - a) -> Nat]
  BY <1>2 DEF Stretch
<1>4. Stretch(a, b) \in Seq(Nat)
  BY DEF Stretch
<1>5. DOMAIN Stretch(a, b) = 1..(b - a)
  BY DEF Stretch
<1>6. Len(Stretch(a, b)) = b - a
  BY <1>1, <1>4, <1>5, LenProperties, SMT
<1> QED
  BY <1>4, <1>6 DEF Stretch

\* A stretch from a place to itself is empty.
LEMMA StretchNone ==
  ASSUME NEW a \in Nat
  PROVE  Stretch(a, a) = <<>>
<1>1. Stretch(a, a) \in Seq(Nat) /\ Len(Stretch(a, a)) = 0
  BY StretchIs
<1> QED
  BY <1>1, EmptySeq

\* Two adjacent stretches are one.
LEMMA StretchJoins ==
  ASSUME NEW a \in Nat, NEW b \in Nat, NEW c \in Nat, a <= b, b <= c
  PROVE  Stretch(a, b) \o Stretch(b, c) = Stretch(a, c)
<1> DEFINE s == Stretch(a, b)
           t == Stretch(b, c)
           u == Stretch(a, c)
<1>1. /\ s \in Seq(Nat) /\ Len(s) = b - a
      /\ \A i \in 1..(b - a) : s[i] = a + i
  BY StretchIs
<1>2. /\ t \in Seq(Nat) /\ Len(t) = c - b
      /\ \A i \in 1..(c - b) : t[i] = b + i
  BY StretchIs
<1>3. /\ u \in Seq(Nat) /\ Len(u) = c - a
      /\ \A i \in 1..(c - a) : u[i] = a + i
  BY StretchIs
<1> HIDE DEF s, t, u
<1>4. /\ s \o t \in Seq(Nat)
      /\ Len(s \o t) = Len(s) + Len(t)
      /\ \A i \in 1..Len(s) + Len(t) :
           (s \o t)[i] = IF i <= Len(s) THEN s[i] ELSE t[i - Len(s)]
  BY <1>1, <1>2, ConcatProperties
<1>5. Len(s \o t) = Len(u)
  BY <1>1, <1>2, <1>3, <1>4
<1>6. ASSUME NEW i \in 1..Len(s \o t)
      PROVE  (s \o t)[i] = u[i]
  <2>1. i \in 1..(c - a) /\ i \in 1..Len(s) + Len(t) /\ u[i] = a + i
    BY <1>3, <1>4, <1>5
  <2>2. CASE i <= Len(s)
    <3>1. i \in 1..(b - a)
      BY <1>1, <2>1, <2>2
    <3> QED
      BY <1>1, <1>4, <2>1, <2>2, <3>1
  <2>3. CASE ~(i <= Len(s))
    <3>1. i - Len(s) \in 1..(c - b) /\ b + (i - Len(s)) = a + i
      BY <1>1, <2>1, <2>3
    <3>2. t[i - Len(s)] = b + (i - Len(s))
      BY <1>2, <3>1
    <3>3. (s \o t)[i] = t[i - Len(s)]
      BY <1>4, <2>1, <2>3
    <3> QED
      BY <2>1, <3>1, <3>2, <3>3
  <2> QED
    BY <2>2, <2>3
<1>7. s \o t = u
  BY <1>3, <1>4, <1>5, <1>6, SeqEqual
<1> QED
  BY <1>7 DEF s, t, u

\* The next event prolongs a stretch.
LEMMA StretchGrows ==
  ASSUME NEW a \in Nat, NEW b \in Nat, a <= b
  PROVE  Append(Stretch(a, b), b + 1) = Stretch(a, b + 1)
<1> DEFINE s == Stretch(a, b)
           u == Stretch(a, b + 1)
<1>1. /\ s \in Seq(Nat) /\ Len(s) = b - a
      /\ \A i \in 1..(b - a) : s[i] = a + i
  BY StretchIs
<1>2. /\ u \in Seq(Nat) /\ Len(u) = b + 1 - a
      /\ \A i \in 1..(b + 1 - a) : u[i] = a + i
  <2>1. b + 1 \in Nat /\ a <= b + 1
    OBVIOUS
  <2> QED
    BY <2>1, StretchIs
<1> HIDE DEF s, u
<1> DEFINE x == b + 1
<1>3. x \in Nat
  OBVIOUS
<1> HIDE DEF x
<1>4. /\ Append(s, x) \in Seq(Nat)
      /\ Len(Append(s, x)) = Len(s) + 1
      /\ \A i \in 1..Len(s) : Append(s, x)[i] = s[i]
      /\ Append(s, x)[Len(s) + 1] = x
  BY <1>1, <1>3, AppendProperties
<1>5. Len(Append(s, x)) = Len(u)
  BY <1>1, <1>2, <1>4
<1>6. ASSUME NEW i \in 1..Len(Append(s, x))
      PROVE  Append(s, x)[i] = u[i]
  <2>1. i \in 1..(b + 1 - a) /\ u[i] = a + i
    BY <1>2, <1>5
  <2>2. CASE i \in 1..(b - a)
    BY <1>1, <1>4, <2>1, <2>2
  <2>3. CASE i = b - a + 1
    <3>1. i = Len(s) + 1 /\ a + i = x
      BY <1>1, <2>3 DEF x
    <3> QED
      BY <1>4, <2>1, <3>1
  <2> QED
    BY <2>1, <2>2, <2>3
<1>7. Append(s, x) = u
  BY <1>2, <1>4, <1>5, <1>6, SeqEqual
<1> QED
  BY <1>7 DEF s, u, x

\* Reading the events from position p to position e of a ring that is past o:
\* they are at its places l to h.
LEMMA StretchRead ==
  ASSUME NEW o \in Nat, NEW n \in Nat, NEW p \in Nat, NEW e \in Nat,
         NEW l \in Int, NEW h \in Int,
         o <= p, p <= e, e <= n, l = p - o + 1, h = e - o
  PROVE  SubSeq(Stretch(o, n), l, h) = Stretch(p, e)
<1> DEFINE s == Stretch(o, n)
           u == Stretch(p, e)
           k == e - p
<1>1. /\ s \in Seq(Nat) /\ Len(s) = n - o
      /\ \A i \in 1..(n - o) : s[i] = o + i
  BY StretchIs
<1>2. /\ u \in Seq(Nat) /\ Len(u) = k
      /\ \A i \in 1..k : u[i] = p + i
  BY StretchIs
<1>3. k \in Nat /\ h - l + 1 = k /\ l >= 1 /\ h <= n - o
  OBVIOUS
<1> HIDE DEF k
<1>4. \A i \in l..h : s[i] \in Nat
  <2>1. \A i \in l..h : i \in 1..(n - o) /\ o + i \in Nat
    BY <1>3
  <2> HIDE DEF s
  <2> QED
    BY <1>1, <2>1
<1>5. \A i \in 1..k : s[l + i - 1] = p + i
  <2>1. \A i \in 1..k : l + i - 1 \in 1..(n - o) /\ o + (l + i - 1) = p + i
    BY <1>3
  <2> HIDE DEF s
  <2> QED
    BY <1>1, <2>1
<1> HIDE DEF s, u
<1>6. /\ SubSeq(s, l, h) \in Seq(Nat)
      /\ Len(SubSeq(s, l, h)) = IF l <= h THEN h - l + 1 ELSE 0
      /\ \A i \in 1..h - l + 1 : SubSeq(s, l, h)[i] = s[l + i - 1]
  BY <1>3, <1>4, SubSeqProperties
<1>7. Len(SubSeq(s, l, h)) = k
  BY <1>3, <1>6
<1>8. \A i \in 1..Len(SubSeq(s, l, h)) : SubSeq(s, l, h)[i] = u[i]
  BY <1>2, <1>3, <1>5, <1>6, <1>7
<1>9. SubSeq(s, l, h) = u
  BY <1>2, <1>6, <1>7, <1>8, SeqEqual
<1> QED
  BY <1>9 DEF s, u

\* Taking the head of one sequence to the end of the one before it.
LEMMA HandOver ==
  ASSUME NEW c \in Seq(Nat), NEW b \in Seq(Nat), b # <<>>
  PROVE  /\ Append(c, Head(b)) \in Seq(Nat) /\ Tail(b) \in Seq(Nat)
         /\ Append(c, Head(b)) \o Tail(b) = c \o b
<1> DEFINE h == Head(b)
           t == Tail(b)
           d == Append(c, h)
<1>1. /\ h \in Nat /\ t \in Seq(Nat) /\ Len(t) = Len(b) - 1
      /\ \A i \in 1..Len(t) : t[i] = b[i + 1]
  BY HeadTailProperties
<1>2. h = b[1]
  OBVIOUS
<1> HIDE DEF h, t
<1>3. /\ d \in Seq(Nat) /\ Len(d) = Len(c) + 1
      /\ \A i \in 1..Len(c) : d[i] = c[i]
      /\ d[Len(c) + 1] = h
  BY <1>1, AppendProperties
<1> HIDE DEF d
<1>4. Len(c) \in Nat /\ Len(b) \in Nat
  BY LenProperties
<1>5. /\ d \o t \in Seq(Nat)
      /\ Len(d \o t) = Len(d) + Len(t)
      /\ \A i \in 1..Len(d) + Len(t) :
           (d \o t)[i] = IF i <= Len(d) THEN d[i] ELSE t[i - Len(d)]
  BY <1>1, <1>3, ConcatProperties
<1>6. /\ c \o b \in Seq(Nat)
      /\ Len(c \o b) = Len(c) + Len(b)
      /\ \A i \in 1..Len(c) + Len(b) :
           (c \o b)[i] = IF i <= Len(c) THEN c[i] ELSE b[i - Len(c)]
  BY ConcatProperties
<1>7. Len(d \o t) = Len(c \o b) /\ Len(d \o t) = Len(c) + Len(b)
  BY <1>1, <1>3, <1>4, <1>5, <1>6
<1>8. ASSUME NEW i \in 1..Len(d \o t)
      PROVE  (d \o t)[i] = (c \o b)[i]
  <2>1. i \in 1..Len(d) + Len(t) /\ i \in 1..Len(c) + Len(b)
    BY <1>1, <1>3, <1>4, <1>7
  <2>2. CASE i \in 1..Len(c)
    <3>1. i <= Len(d) /\ i <= Len(c)
      BY <1>3, <1>4, <2>2
    <3> QED
      BY <1>3, <1>5, <1>6, <2>1, <2>2, <3>1
  <2>3. CASE i = Len(c) + 1
    <3>1. i <= Len(d) /\ ~(i <= Len(c)) /\ i - Len(c) = 1
      BY <1>3, <1>4, <2>3
    <3>2. (d \o t)[i] = d[i] /\ (c \o b)[i] = b[i - Len(c)]
      BY <1>5, <1>6, <2>1, <3>1
    <3> QED
      BY <1>2, <1>3, <2>3, <3>1, <3>2
  <2>4. CASE i > Len(c) + 1
    <3>1. /\ ~(i <= Len(d)) /\ ~(i <= Len(c))
          /\ i - Len(d) \in 1..Len(t) /\ (i - Len(d)) + 1 = i - Len(c)
      <4>1. i \in Nat /\ Len(d) = Len(c) + 1 /\ Len(t) \in Nat
        BY <1>1, <1>3, <1>4
      <4>2. i <= Len(d) + Len(t)
        BY <1>3, <1>4, <2>1, <4>1
      <4> QED
        BY <1>4, <2>4, <4>1, <4>2
    <3>2. (d \o t)[i] = t[i - Len(d)] /\ (c \o b)[i] = b[i - Len(c)]
      BY <1>5, <1>6, <2>1, <3>1
    <3>3. t[i - Len(d)] = b[(i - Len(d)) + 1]
      BY <1>1, <3>1
    <3> QED
      BY <3>1, <3>2, <3>3
  <2>5. i \in Nat /\ i >= 1 /\ Len(c) \in Nat
    BY <1>1, <1>3, <1>4, <2>1
  <2>6. i \in 1..Len(c) \/ i = Len(c) + 1 \/ i > Len(c) + 1
    BY <2>5
  <2> QED
    BY <2>2, <2>3, <2>4, <2>6
<1>9. d \o t = c \o b
  BY <1>5, <1>6, <1>7, <1>8, SeqEqual
<1> QED
  BY <1>1, <1>3, <1>9 DEF d, h, t

\* Concatenation is associative.
LEMMA Associative ==
  ASSUME NEW s \in Seq(Nat), NEW t \in Seq(Nat), NEW u \in Seq(Nat)
  PROVE  (s \o t) \o u = s \o (t \o u)
BY SMTT(30)

\* The sequences c, b and w, one after the other.
Chain(c, b, w) == c \o b \o w

\* What arrives was sent before, and stays behind what was consumed.
LEMMA ArriveKeepsOrder ==
  ASSUME NEW c \in Seq(Nat), NEW b \in Seq(Nat), NEW w \in Seq(Nat), w # <<>>
  PROVE  /\ Append(b, Head(w)) \in Seq(Nat) /\ Tail(w) \in Seq(Nat)
         /\ Chain(c, Append(b, Head(w)), Tail(w)) = Chain(c, b, w)
<1> DEFINE d == Append(b, Head(w))
           t == Tail(w)
<1>1. d \in Seq(Nat) /\ t \in Seq(Nat) /\ d \o t = b \o w
  BY HandOver
<1> HIDE DEF d, t
<1>2. (c \o d) \o t = c \o (d \o t)
  BY <1>1, Associative
<1>3. (c \o b) \o w = c \o (b \o w)
  BY Associative
<1>4. (c \o d) \o t = (c \o b) \o w
  BY <1>1, <1>2, <1>3
<1> QED
  BY <1>1, <1>4 DEF d, t, Chain

\* A valve that has passed the events up to q, and now passes those up to e,
\* has passed the events up to e.
LEMMA PushKeepsOrder ==
  ASSUME NEW c \in Seq(Nat), NEW b \in Seq(Nat), NEW w \in Seq(Nat),
         NEW j \in Nat, NEW q \in Nat, NEW e \in Nat, j <= q, q <= e,
         Chain(c, b, w) = Stretch(j, q)
  PROVE  Chain(c, b, w \o Stretch(q, e)) = Stretch(j, e)
<1> DEFINE x == Stretch(q, e)
           d == c \o b
<1>1. d \in Seq(Nat)
  BY ConcatProperties
<1>2. x \in Seq(Nat)
  BY StretchIs
<1>3. Stretch(j, q) \o x = Stretch(j, e)
  BY StretchJoins
<1> HIDE DEF x, d
<1>4. (d \o w) \o x = d \o (w \o x)
  BY <1>1, <1>2, Associative
<1>5. d \o w = Stretch(j, q)
  BY DEF d, Chain
<1>6. d \o (w \o x) = Stretch(j, e)
  BY <1>3, <1>4, <1>5
<1> QED
  BY <1>6 DEF d, x, Chain

-----------------------------------------------------------------------------
(* The loops. *)

\* The lesser of two numbers.
LEMMA LesserIs ==
  ASSUME NEW x \in Int, NEW y \in Int
  PROVE  /\ Min({x, y}) \in {x, y}
         /\ Min({x, y}) <= x /\ Min({x, y}) <= y
<1> DEFINE S == {x, y}
<1>1. PICK m \in S : m <= x /\ m <= y
  OBVIOUS
<1>2. \E least \in S : \A z \in S : least <= z
  BY <1>1
<1> HIDE DEF S
<1>3. Min(S) \in S /\ \A z \in S : Min(S) <= z
  BY <1>2 DEF Min
<1> QED
  BY <1>3 DEF S

\* A loop passes on what the budget allows of what there is.
LEMMA MovesIs ==
  ASSUME NEW b \in [Valves -> Nat], NEW n \in Nat, NEW p \in [Valves -> Nat],
         NEW v \in Valves, p[v] <= n
  PROVE  /\ Moves(b, n, p, v) \in Nat
         /\ Moves(b, n, p, v) <= b[v]
         /\ p[v] + Moves(b, n, p, v) <= n
<1> DEFINE x == b[v]
           y == n - p[v]
<1>1. x \in Nat /\ y \in Nat /\ x \in Int /\ y \in Int
  OBVIOUS
<1>2. Moves(b, n, p, v) = Min({x, y})
  BY DEF Moves
<1> HIDE DEF x, y
<1>3. Min({x, y}) \in {x, y} /\ Min({x, y}) <= x /\ Min({x, y}) <= y
  BY <1>1, LesserIs
<1>4. Min({x, y}) \in Nat
  BY <1>1, <1>3
<1> QED
  BY <1>2, <1>3, <1>4 DEF x, y

\* What a loop reads are at most as many events as it asked for, even where it
\* runs into the end of the ring.
LEMMA ReadTyped ==
  ASSUME oldest \in Nat, NEW r \in Seq(Nat), NEW q \in Nat, NEW j \in Nat,
         oldest <= q
  PROVE  Read(r, q, j) \in Seq(Nat) /\ Len(Read(r, q, j)) <= j
<1> DEFINE x == q - oldest + j
           y == Len(r)
           l == q - oldest + 1
           h == Min({x, y})
<1>1. y \in Nat /\ x \in Int /\ y \in Int
  BY LenProperties
<1>2. Read(r, q, j) = SubSeq(r, l, h)
  BY DEF Read
<1>3. x = q - oldest + j /\ l \in Int /\ l >= 1 /\ l = q - oldest + 1
  OBVIOUS
<1>4. \A i \in 1..y : r[i] \in Nat
  BY ElementOfSeq
<1> HIDE DEF x, y
<1>5. h \in Int /\ h <= x /\ h <= y
  BY <1>1, LesserIs
<1> HIDE DEF l, h
<1>6. \A i \in l..h : r[i] \in Nat
  <2>1. \A i \in l..h : i \in 1..y
    BY <1>1, <1>3, <1>5
  <2> QED
    BY <1>4, <2>1
<1>7. /\ SubSeq(r, l, h) \in Seq(Nat)
      /\ Len(SubSeq(r, l, h)) = IF l <= h THEN h - l + 1 ELSE 0
  BY <1>3, <1>5, <1>6, SubSeqProperties
<1>8. (IF l <= h THEN h - l + 1 ELSE 0) <= j
  BY <1>1, <1>3, <1>5
<1> QED
  BY <1>2, <1>7, <1>8

\* A loop that stays within what the ring holds reads the stretch after its
\* position.
LEMMA ReadIs ==
  ASSUME oldest \in Nat, NEW n \in Nat, NEW q \in Nat, NEW j \in Nat,
         oldest <= q, q + j <= n
  PROVE  Read(Stretch(oldest, n), q, j) = Stretch(q, q + j)
<1> DEFINE s == Stretch(oldest, n)
           x == q - oldest + j
           y == Len(s)
           h == Min({x, y})
<1>1. s \in Seq(Nat) /\ y = n - oldest
  <2>1. oldest <= n
    OBVIOUS
  <2> QED
    BY <2>1, StretchIs
<1>2. Read(s, q, j) = SubSeq(s, q - oldest + 1, h)
  BY DEF Read
<1>3. SubSeq(s, q - oldest + 1, x) = Stretch(q, q + j)
  <2> DEFINE l == q - oldest + 1
             e == q + j
  <2>1. /\ l \in Int /\ x \in Int /\ e \in Nat /\ q <= e /\ e <= n
        /\ l = q - oldest + 1 /\ x = e - oldest
    OBVIOUS
  <2> HIDE DEF l, x, e
  <2>2. SubSeq(Stretch(oldest, n), l, x) = Stretch(q, e)
    BY <2>1, StretchRead
  <2> QED
    BY <2>2 DEF l, e
<1>4. x \in Int /\ y \in Int /\ x <= y
  BY <1>1
<1> HIDE DEF x, y
<1>5. h = x
  <2>1. h \in {x, y} /\ h <= x /\ h <= y
    BY <1>4, LesserIs
  <2> HIDE DEF h
  <2> QED
    BY <1>4, <2>1
<1> HIDE DEF s, h
<1>6. Read(s, q, j) = Stretch(q, q + j)
  BY <1>2, <1>3, <1>5
<1> QED
  BY <1>6 DEF s

\* What the loops of the valves of V do to the positions p, in whatever ring
\* with the events up to the n-th: no position goes back or beyond n, and the
\* other valves stand still.
Moved(n, p, V) ==
  /\ budget' \in [Valves -> Nat] /\ pos' \in [Valves -> Nat]
  /\ wire' \in [Valves -> Seq(Nat)]
  /\ flushing' \in BOOLEAN /\ failed' \in BOOLEAN
  /\ \A v \in V : pos'[v] \in p[v]..n
  /\ \A v \in Valves \ V : pos'[v] = p[v] /\ wire'[v] = wire[v]
  /\ V = {} => flushing' = flushing

\* Every event passed on is paid for from the tokens b.
Paid(b) == \A v \in Valves : budget'[v] + Len(wire'[v]) = b[v] + Len(wire[v])

\* What the loops do in a ring without gaps: each passes on the stretch from
\* its position p[v] to its new one.
Ran(p, V) ==
  /\ failed' = FALSE
  /\ \A v \in V : wire'[v] = wire[v] \o Stretch(p[v], pos'[v])

\* The valves of V are at the positions p and hold the tokens b, where the ring
\* r is past `oldest`.
Ready(r, b, n, p, V) ==
  /\ LinksTyped /\ n \in Nat /\ oldest \in Nat /\ oldest <= n
  /\ flushing \in BOOLEAN /\ r \in Seq(Nat)
  /\ b \in [Valves -> Nat] /\ p \in [Valves -> Nat]
  /\ V \in SUBSET Valves /\ \A v \in V : p[v] \in oldest..n

\* The loops move the positions forward, and pay for what they pass on.
LEMMA MovingEffect ==
  ASSUME NEW r, NEW b, NEW n, NEW p, NEW V, NEW C, Ready(r, b, n, p, V),
         Moving(r, b, n, p, V, C)
  PROVE  Moved(n, p, V) /\ Paid(b)
<1> USE DEF Ready
<1> DEFINE k == [v \in Valves |-> IF v \in V THEN Moves(b, n, p, v) ELSE 0]
<1>1. PICK ran \in SUBSET V :
        LET out == [v \in Valves |->
                      IF v \in ran THEN Read(r, p[v], k[v]) ELSE <<>>]
            moved == [v \in Valves |-> p[v] + Len(out[v])] IN
        /\ Push(b, out)
        /\ pos' = moved
        /\ flushing' = (flushing \/ (moved # p /\ Droppable(C, moved)))
        /\ failed' \in BOOLEAN
  BY DEF Moving
<1> DEFINE out == [v \in Valves |-> IF v \in ran THEN Read(r, p[v], k[v]) ELSE <<>>]
           moved == [v \in Valves |-> p[v] + Len(out[v])]
<1>2. /\ Push(b, out) /\ pos' = moved
      /\ flushing' = (flushing \/ (moved # p /\ Droppable(C, moved)))
      /\ failed' \in BOOLEAN
  BY <1>1
<1>3. \A v \in V : k[v] \in Nat /\ k[v] <= b[v] /\ p[v] + k[v] <= n
  <2> TAKE v \in V
  <2>1. /\ v \in Valves /\ p[v] <= n /\ n \in Nat
        /\ b \in [Valves -> Nat] /\ p \in [Valves -> Nat]
    OBVIOUS
  <2>2. k[v] = Moves(b, n, p, v)
    BY <2>1
  <2> HIDE DEF k
  <2>3. /\ Moves(b, n, p, v) \in Nat /\ Moves(b, n, p, v) <= b[v]
        /\ p[v] + Moves(b, n, p, v) <= n
    BY <2>1, MovesIs
  <2> QED
    BY <2>2, <2>3
<1>4. <<>> \in Seq(Nat) /\ Len(<<>>) = 0
  BY EmptySeq
<1>5. ASSUME NEW v \in V
      PROVE  out[v] \in Seq(Nat) /\ Len(out[v]) <= k[v]
  <2> HIDE DEF k
  <2>1. k[v] \in Nat /\ p[v] \in Nat /\ oldest <= p[v] /\ v \in Valves
    BY <1>3
  <2>2. CASE v \in ran
    <3>1. out[v] = Read(r, p[v], k[v])
      BY <2>1, <2>2
    <3> HIDE DEF out
    <3>2. /\ Read(r, p[v], k[v]) \in Seq(Nat)
          /\ Len(Read(r, p[v], k[v])) <= k[v]
      BY <2>1, ReadTyped
    <3> QED
      BY <3>1, <3>2
  <2>3. CASE v \notin ran
    <3>1. out[v] = <<>>
      BY <2>1, <2>3
    <3> HIDE DEF out
    <3>2. 0 <= k[v]
      BY <2>1
    <3> QED
      BY <1>4, <3>1, <3>2
  <2> QED
    BY <2>2, <2>3
<1>6. \A v \in Valves \ V : out[v] = <<>>
  OBVIOUS
<1> HIDE DEF k, out
<1>7. \A v \in Valves : /\ out[v] \in Seq(Nat) /\ Len(out[v]) \in Nat
                        /\ Len(out[v]) <= b[v]
  <2> TAKE v \in Valves
  <2>1. b[v] \in Nat
    OBVIOUS
  <2>2. CASE v \in V
    <3>1. out[v] \in Seq(Nat) /\ Len(out[v]) <= k[v] /\ k[v] <= b[v] /\ k[v] \in Nat
      BY <1>3, <1>5, <2>2
    <3>2. Len(out[v]) \in Nat
      BY <3>1, LenProperties
    <3> QED
      BY <2>1, <3>1, <3>2
  <2>3. CASE v \notin V
    <3>1. out[v] = <<>> /\ 0 \in Nat /\ 0 <= b[v]
      BY <1>6, <2>1, <2>3
    <3> QED
      BY <1>4, <3>1
  <2> QED
    BY <2>2, <2>3
<1>8. /\ budget' = [v \in Valves |-> b[v] - Len(out[v])]
      /\ wire' = [v \in Valves |-> wire[v] \o out[v]]
  BY <1>2 DEF Push
<1>9. budget' \in [Valves -> Nat]
  <2>1. \A v \in Valves : b[v] - Len(out[v]) \in Nat
    <3> TAKE v \in Valves
    <3>1. b[v] \in Nat /\ Len(out[v]) \in Nat /\ Len(out[v]) <= b[v]
      BY <1>7
    <3> QED
      BY <3>1
  <2> QED
    BY <1>8, <2>1
<1>10. wire' \in [Valves -> Seq(Nat)]
  <2>1. \A v \in Valves : wire[v] \o out[v] \in Seq(Nat)
    BY <1>7, ConcatProperties DEF LinksTyped
  <2> QED
    BY <1>8, <2>1
<1>11. pos' \in [Valves -> Nat] /\ \A v \in Valves : pos'[v] = p[v] + Len(out[v])
  <2>1. \A v \in Valves : p[v] + Len(out[v]) \in Nat
    <3> TAKE v \in Valves
    <3>1. p[v] \in Nat /\ Len(out[v]) \in Nat
      BY <1>7
    <3> QED
      BY <3>1
  <2> QED
    BY <1>2, <2>1
<1>12. ASSUME NEW v \in V PROVE pos'[v] \in p[v]..n
  <2>1. /\ pos'[v] = p[v] + Len(out[v]) /\ Len(out[v]) \in Nat
        /\ Len(out[v]) <= k[v] /\ p[v] \in Nat /\ k[v] \in Nat
        /\ p[v] + k[v] <= n
    BY <1>3, <1>5, <1>7, <1>11
  <2> QED
    BY <2>1
<1>13. ASSUME NEW v \in Valves \ V
       PROVE  pos'[v] = p[v] /\ wire'[v] = wire[v]
  <2>1. out[v] = <<>> /\ wire'[v] = wire[v] \o out[v]
    BY <1>6, <1>8
  <2>2. wire[v] \in Seq(Nat)
    BY DEF LinksTyped
  <2>3. wire[v] \o <<>> = wire[v]
    BY <2>2, ConcatEmptySeq
  <2>4. wire'[v] = wire[v]
    BY <2>1, <2>3, Zenon
  <2>5. pos'[v] = p[v] + 0 /\ p[v] \in Nat
    BY <1>4, <1>11, <2>1
  <2> QED
    BY <2>4, <2>5
<1>14. ASSUME V = {} PROVE flushing' = flushing
  <2>1. \A v \in Valves : pos'[v] = p[v]
    BY <1>13, <1>14
  <2>2. pos' = [v \in Valves |-> pos'[v]]
    BY <1>11
  <2>3. p = [v \in Valves |-> p[v]]
    OBVIOUS
  <2>4. [v \in Valves |-> pos'[v]] = [v \in Valves |-> p[v]]
    BY <2>1
  <2>5. moved = p
    BY <1>2, <2>2, <2>3, <2>4, Zenon
  <2> HIDE DEF moved
  <2> QED
    BY <1>2, <2>5
<1>15. flushing' \in BOOLEAN
  BY <1>2
<1>16. Paid(b)
  <2> SUFFICES ASSUME NEW v \in Valves
               PROVE  budget'[v] + Len(wire'[v]) = b[v] + Len(wire[v])
    BY DEF Paid
  <2>1. budget'[v] = b[v] - Len(out[v]) /\ wire'[v] = wire[v] \o out[v]
    BY <1>8
  <2>2. wire[v] \in Seq(Nat) /\ out[v] \in Seq(Nat) /\ b[v] \in Nat
    BY <1>7 DEF LinksTyped
  <2>3. Len(wire[v] \o out[v]) = Len(wire[v]) + Len(out[v])
    BY <2>2, ConcatProperties
  <2>4. Len(wire[v]) \in Nat /\ Len(out[v]) \in Nat
    BY <2>2, LenProperties
  <2>5. Len(wire'[v]) = Len(wire[v]) + Len(out[v])
    BY <2>1, <2>3
  <2> DEFINE x == Len(wire[v])
             y == Len(out[v])
             z == b[v]
  <2>6. budget'[v] = z - y /\ Len(wire'[v]) = x + y /\ x \in Nat /\ y \in Nat /\ z \in Nat
    BY <2>1, <2>2, <2>4, <2>5
  <2> HIDE DEF x, y, z
  <2>7. budget'[v] + Len(wire'[v]) = z + x
    BY <2>6
  <2> QED
    BY <2>7 DEF x, z
<1>17. Moved(n, p, V)
  BY <1>2, <1>9, <1>10, <1>11, <1>12, <1>13, <1>14, <1>15 DEF Moved
<1> QED
  BY <1>16, <1>17

\* When the ring holds all the events after `oldest`, no loop reads outside it,
\* and each passes on the stretch of events from its position on.
LEMMA MovingInOrder ==
  ASSUME NEW r, NEW b, NEW n, NEW p, NEW V, NEW C, Ready(r, b, n, p, V),
         r = Stretch(oldest, n), Moving(r, b, n, p, V, C)
  PROVE  Ran(p, V)
<1> USE DEF Ready
<1> DEFINE k == [v \in Valves |-> IF v \in V THEN Moves(b, n, p, v) ELSE 0]
           out == [v \in Valves |-> IF v \in V THEN Read(r, p[v], k[v]) ELSE <<>>]
<1>1. \A v \in V : k[v] \in Nat /\ p[v] + k[v] <= n
  <2> TAKE v \in V
  <2>1. /\ v \in Valves /\ p[v] <= n /\ n \in Nat
        /\ b \in [Valves -> Nat] /\ p \in [Valves -> Nat]
    OBVIOUS
  <2>2. k[v] = Moves(b, n, p, v)
    BY <2>1
  <2> HIDE DEF k
  <2>3. /\ Moves(b, n, p, v) \in Nat /\ Moves(b, n, p, v) <= b[v]
        /\ p[v] + Moves(b, n, p, v) <= n
    BY <2>1, MovesIs
  <2> QED
    BY <2>2, <2>3
<1>2. Len(r) = n - oldest
  BY StretchIs
<1>3. \A v \in V : InRange(r, p[v], k[v])
  <2> HIDE DEF k
  <2> TAKE v \in V
  <2>1. /\ p[v] \in Nat /\ k[v] \in Nat /\ p[v] >= oldest
        /\ p[v] + k[v] <= n
    BY <1>1
  <2> QED
    BY <1>2, <2>1 DEF InRange
<1>4. {v \in V : ~InRange(r, p[v], k[v])} = {}
  BY <1>3
<1>5. /\ Push(b, out) /\ pos' = [v \in Valves |-> p[v] + Len(out[v])]
      /\ failed' = FALSE
  BY <1>4 DEF Moving
<1> HIDE DEF k
<1>6. ASSUME NEW v \in V
      PROVE  out[v] = Stretch(p[v], p[v] + Len(out[v]))
  <2>1. /\ p[v] \in Nat /\ k[v] \in Nat /\ p[v] >= oldest
        /\ p[v] + k[v] <= n /\ v \in Valves
    BY <1>1
  <2>2. out[v] = Read(r, p[v], k[v])
    BY <2>1
  <2> HIDE DEF out
  <2> DEFINE q == p[v]
             j == k[v]
             e == q + j
  <2>3. /\ q \in Nat /\ j \in Nat /\ e \in Nat /\ oldest <= q /\ q + j <= n
        /\ q <= e /\ e - q = j
    BY <2>1
  <2>4. out[v] = Read(r, q, j)
    BY <2>2
  <2> HIDE DEF q, j
  <2>5. Read(Stretch(oldest, n), q, j) = Stretch(q, q + j)
    BY <2>3, ReadIs
  <2> HIDE DEF e
  <2>6. Len(Stretch(q, e)) = j
    BY <2>3, StretchIs
  <2>7. out[v] = Stretch(q, e)
    BY <2>4, <2>5 DEF e
  <2>8. out[v] = Stretch(q, q + Len(out[v]))
    BY <2>6, <2>7 DEF e
  <2> QED
    BY <2>8 DEF q
<1> HIDE DEF out
<1>7. ASSUME NEW v \in V
      PROVE  wire'[v] = wire[v] \o Stretch(p[v], pos'[v])
  <2>1. /\ wire'[v] = wire[v] \o out[v] /\ pos'[v] = p[v] + Len(out[v])
    BY <1>5 DEF Push
  <2> QED
    BY <1>6, <2>1
<1> QED
  BY <1>5, <1>7 DEF Ran

-----------------------------------------------------------------------------
(* The consumers. *)

\* The parts of the invariant that a consumer's step on valve v can disturb
\* stay when what the valve's consumer was sent stays.
LEMMA ConsumerKeeps ==
  ASSUME MultiInv, NEW v \in Valves, ConsumerStep(v), UNCHANGED multiVars
  PROVE  MultiInv'
<1>1. /\ next' = next /\ oldest' = oldest /\ ring' = ring
      /\ attached' = attached /\ counted' = counted /\ pos' = pos
      /\ joined' = joined /\ flushing' = flushing /\ failed' = failed
  BY DEF multiVars
<1>2. PositionShape' /\ (RingShape => RingShape') /\ (Attended' => Attended)
  BY <1>1 DEF MultiInv, PositionShape, RingShape, Stretch, Attended
<1> DEFINE c == consumed[v]
           b == buffer[v]
           w == wire[v]
<1>3. c \in Seq(Nat) /\ b \in Seq(Nat) /\ w \in Seq(Nat)
  BY DEF MultiInv, LinksTyped
<1>4. LinksTyped' /\ \A u \in Valves : Passed(u)' = Passed(u)
  <2>1. CASE Arrive(v)
    <3>1. /\ w # <<>>
          /\ wire' = [wire EXCEPT ![v] = Tail(w)]
          /\ buffer' = [buffer EXCEPT ![v] = Append(b, Head(w))]
          /\ budget' = budget /\ consumed' = consumed /\ tokens' = tokens
          /\ grants' = grants
      BY <2>1 DEF Arrive, consumerVars
    <3> HIDE DEF c, b, w
    <3>2. /\ Append(b, Head(w)) \in Seq(Nat) /\ Tail(w) \in Seq(Nat)
          /\ Chain(c, Append(b, Head(w)), Tail(w)) = Chain(c, b, w)
      <4>1. w # <<>>
        BY <3>1
      <4> QED
        BY <1>3, <4>1, ArriveKeepsOrder
    <3>3. LinksTyped'
      BY <3>1, <3>2 DEF MultiInv, LinksTyped
    <3>4. wire'[v] = Tail(w) /\ buffer'[v] = Append(b, Head(w))
      BY <3>1 DEF MultiInv, LinksTyped
    <3>5. Passed(v)' = Passed(v)
      BY <3>1, <3>2, <3>4 DEF Passed, Chain, c, b, w
    <3>6. \A u \in Valves \ {v} : wire'[u] = wire[u] /\ buffer'[u] = buffer[u]
      <4>1. wire \in [Valves -> Seq(Nat)] /\ buffer \in [Valves -> Seq(Nat)]
        BY DEF MultiInv, LinksTyped
      <4>2. \A u \in Valves \ {v} : wire'[u] = wire[u]
        BY <3>1, <4>1
      <4>3. \A u \in Valves \ {v} : buffer'[u] = buffer[u]
        BY <3>1, <4>1
      <4> QED
        BY <4>2, <4>3
    <3>7. \A u \in Valves \ {v} : Passed(u)' = Passed(u)
      BY <3>1, <3>6 DEF Passed
    <3> QED
      BY <3>3, <3>5, <3>7
  <2>2. CASE Consume(v)
    <3>1. /\ b # <<>>
          /\ buffer' = [buffer EXCEPT ![v] = Tail(b)]
          /\ consumed' = [consumed EXCEPT ![v] = Append(c, Head(b))]
          /\ budget' = budget /\ wire' = wire
          /\ Return(v)
      BY <2>2 DEF Consume
    <3>2. tokens' \in [Valves -> Nat] /\ grants' \in [Valves -> Seq(Nat)]
      <4>1. tokens \in [Valves -> Nat] /\ grants \in [Valves -> Seq(Nat)]
        BY DEF MultiInv, LinksTyped
      <4>2. Append(grants[v], 1) \in Seq(Nat) /\ tokens[v] + 1 \in Nat
        BY <4>1, AppendProperties
      <4> QED
        BY <3>1, <4>1, <4>2 DEF Return
    <3> HIDE DEF c, b, w
    <3>3. /\ Append(c, Head(b)) \in Seq(Nat) /\ Tail(b) \in Seq(Nat)
          /\ Append(c, Head(b)) \o Tail(b) = c \o b
      BY <1>3, <3>1, HandOver
    <3>4. LinksTyped'
      BY <3>1, <3>2, <3>3 DEF MultiInv, LinksTyped
    <3>5. buffer'[v] = Tail(b) /\ consumed'[v] = Append(c, Head(b))
      BY <3>1 DEF MultiInv, LinksTyped
    <3>6. Passed(v)' = Passed(v)
      BY <3>1, <3>3, <3>5 DEF Passed, c, b, w
    <3>7. \A u \in Valves \ {v} : /\ buffer'[u] = buffer[u]
                                  /\ consumed'[u] = consumed[u]
      BY <3>1 DEF MultiInv, LinksTyped
    <3>8. \A u \in Valves \ {v} : Passed(u)' = Passed(u)
      BY <3>1, <3>7 DEF Passed
    <3> QED
      BY <3>4, <3>6, <3>8
  <2>3. CASE Preempted(v)
    <3>1. /\ grants' = [grants EXCEPT ![v] = Append(@, tokens[v])]
          /\ tokens' = [tokens EXCEPT ![v] = 0]
          /\ budget' = budget /\ wire' = wire /\ buffer' = buffer
          /\ consumed' = consumed
      BY <2>3 DEF Preempted
    <3>2. tokens' \in [Valves -> Nat] /\ grants' \in [Valves -> Seq(Nat)]
      <4>1. tokens \in [Valves -> Nat] /\ grants \in [Valves -> Seq(Nat)]
        BY DEF MultiInv, LinksTyped
      <4>2. Append(grants[v], tokens[v]) \in Seq(Nat)
        BY <4>1, AppendProperties
      <4> QED
        BY <3>1, <4>1, <4>2
    <3> QED
      BY <3>1, <3>2 DEF MultiInv, LinksTyped, Passed
  <2> QED
    BY <2>1, <2>2, <2>3 DEF ConsumerStep
<1>5. PassedShape => PassedShape'
  BY <1>1, <1>4 DEF MultiInv, PassedShape, PositionShape, Stretch
<1> QED
  BY <1>2, <1>4, <1>5 DEF MultiInv, InOrder

-----------------------------------------------------------------------------
(* The multi-valve. *)

\* After the loops of the valves in V ran, each valve counted was passed the
\* stretch from where it was attached to its new position.
LEMMA PassedAfterMoving ==
  ASSUME LinksTyped, PassedShape, NEW n \in Nat, NEW V \in SUBSET Valves,
         NEW p \in [Valves -> Nat], NEW v \in counted, v \in Valves,
         p[v] = pos[v], joined[v] \in Nat, joined[v] <= pos[v],
         consumed' = consumed, buffer' = buffer, Moved(n, p, V), Ran(p, V)
  PROVE  Passed(v)' = Stretch(joined[v], pos'[v]) /\ joined[v] <= pos'[v]
<1> DEFINE c == consumed[v]
           b == buffer[v]
           w == wire[v]
           j == joined[v]
           q == pos[v]
           e == pos'[v]
<1>1. c \in Seq(Nat) /\ b \in Seq(Nat) /\ w \in Seq(Nat)
  BY DEF LinksTyped
<1>2. Chain(c, b, w) = Stretch(j, q)
  BY DEF PassedShape, Passed, Chain
<1>3. j \in Nat /\ q \in Nat /\ e \in Nat /\ j <= q
  BY DEF Moved
<1>4. Passed(v)' = Chain(c, b, wire'[v])
  BY DEF Passed, Chain
<1>5. CASE v \in V
  <2>1. q <= e /\ wire'[v] = w \o Stretch(q, e)
    <3>1. /\ pos'[v] \in p[v]..n
          /\ wire'[v] = wire[v] \o Stretch(p[v], pos'[v])
      BY <1>5 DEF Moved, Ran
    <3>2. e \in q..n /\ wire'[v] = w \o Stretch(q, e)
      BY <3>1
    <3> HIDE DEF q, e, w
    <3> QED
      BY <1>3, <3>2
  <2> HIDE DEF c, b, w, j, q, e
  <2>2. Chain(c, b, w \o Stretch(q, e)) = Stretch(j, e)
    BY <1>1, <1>2, <1>3, <2>1, PushKeepsOrder
  <2>5. j <= e
    BY <1>3, <2>1
  <2>6. Passed(v)' = Stretch(j, e)
    BY <1>4, <2>1, <2>2
  <2> QED
    BY <2>5, <2>6 DEF j, e
<1>6. CASE v \notin V
  <2>1. e = q /\ wire'[v] = w
    BY <1>6 DEF Moved
  <2> HIDE DEF c, b, w, q, e, j
  <2>2. Passed(v)' = Stretch(j, e) /\ j <= e
    BY <1>2, <1>3, <1>4, <2>1
  <2> QED
    BY <2>2 DEF j, e
<1> QED
  BY <1>5, <1>6

\* What stays when the loops of the valves of V run and the events up to the
\* m-th are accepted.
OnlyMoved(m, V) ==
  /\ m \in next..MaxEmits /\ V \in SUBSET attached
  /\ Moved(m, pos, V)
  /\ next' = m /\ oldest' = oldest
  /\ attached' = attached /\ counted' = counted /\ joined' = joined
  /\ buffer' = buffer /\ consumed' = consumed /\ tokens' = tokens
  /\ grants' \in [Valves -> Seq(Nat)]

\* What is known of the numbers.
LEMMA Numbers ==
  ASSUME PositionShape, NEW m, NEW V, OnlyMoved(m, V)
  PROVE  /\ next \in Nat /\ m \in Nat /\ oldest \in Nat /\ oldest <= next
         /\ next <= m /\ m <= MaxEmits /\ MaxEmits \in Nat
         /\ pos \in [Valves -> Nat] /\ joined \in [Valves -> Nat]
         /\ counted \in SUBSET Valves /\ V \in SUBSET Valves
         /\ V \subseteq counted
         /\ \A v \in counted : /\ pos[v] \in oldest..m /\ joined[v] \in Nat
                               /\ joined[v] <= pos[v]
<1>1. /\ next \in Nat /\ m \in Nat /\ oldest \in Nat /\ oldest <= next
      /\ next <= m /\ m <= MaxEmits /\ MaxEmits \in Nat
  BY MultiAssumption DEF PositionShape, OnlyMoved
<1>2. /\ pos \in [Valves -> Nat] /\ joined \in [Valves -> Nat]
      /\ counted \in SUBSET Valves /\ V \in SUBSET Valves
      /\ V \subseteq counted
  BY DEF PositionShape, OnlyMoved
<1>3. \A v \in counted : /\ pos[v] \in oldest..m /\ joined[v] \in Nat
                         /\ joined[v] <= pos[v]
  BY <1>1, <1>2 DEF PositionShape
<1> QED
  BY <1>1, <1>2, <1>3

\* The types and the positions after loops ran.
LEMMA LoopsKeepShape ==
  ASSUME LinksTyped, PositionShape, NEW m, NEW V, OnlyMoved(m, V),
         ring' \in Seq(Nat), Len(ring') <= Window, counted = {} => ring' = ring
  PROVE  LinksTyped' /\ PositionShape'
<1>1. LinksTyped'
  BY DEF LinksTyped, OnlyMoved, Moved
<1>2. /\ next \in Nat /\ m \in Nat /\ oldest \in Nat /\ oldest <= m
      /\ m <= MaxEmits /\ MaxEmits \in Nat
      /\ V \subseteq counted /\ counted \in SUBSET Valves
      /\ \A v \in counted : /\ pos[v] \in oldest..m /\ joined[v] \in Nat
                            /\ joined[v] <= pos[v]
  BY Numbers
<1>3. \A v \in counted : pos'[v] \in oldest..m /\ joined[v] <= pos'[v]
  <2> TAKE v \in counted
  <2>1. /\ pos[v] \in oldest..m /\ joined[v] \in Nat /\ joined[v] <= pos[v]
        /\ v \in Valves
    BY <1>2
  <2>2. CASE v \in V
    <3>1. pos'[v] \in pos[v]..m
      BY <2>2 DEF OnlyMoved, Moved
    <3> QED
      BY <1>2, <2>1, <3>1
  <2>3. CASE v \notin V
    <3>1. pos'[v] = pos[v]
      BY <2>1, <2>3 DEF OnlyMoved, Moved
    <3> QED
      BY <2>1, <3>1
  <2> QED
    BY <2>2, <2>3
<1>4. counted = {} => oldest' = 0 /\ ring' = <<>> /\ ~flushing'
  <2> SUFFICES ASSUME counted = {} PROVE oldest' = 0 /\ ring' = <<>> /\ ~flushing'
    OBVIOUS
  <2>1. V = {}
    BY <1>2
  <2> QED
    BY <2>1 DEF PositionShape, OnlyMoved, Moved
<1>5. next' \in 0..MaxEmits /\ oldest' \in 0..next'
  BY <1>2 DEF OnlyMoved
<1>6. /\ attached' \subseteq counted' /\ counted' \subseteq Valves
      /\ pos' \in [Valves -> Nat] /\ joined' \in [Valves -> Nat]
      /\ flushing' \in BOOLEAN /\ failed' \in BOOLEAN
  BY DEF PositionShape, OnlyMoved, Moved
<1>7. \A v \in counted' : pos'[v] \in oldest'..next' /\ joined'[v] <= pos'[v]
  BY <1>3 DEF OnlyMoved
<1>8. counted' = {} => oldest' = 0 /\ ring' = <<>> /\ ~flushing'
  BY <1>4 DEF OnlyMoved
<1> QED
  BY <1>1, <1>5, <1>6, <1>7, <1>8 DEF PositionShape

\* The order of the events after loops ran in a ring without gaps.
LEMMA LoopsKeepOrder ==
  ASSUME LinksTyped, PositionShape, InOrder, NEW m, NEW V, OnlyMoved(m, V),
         Ran(pos, V), ring' = Stretch(oldest, m), m - oldest <= Window
  PROVE  InOrder'
<1>1. PassedShape
  BY DEF InOrder
<1>2. /\ m \in Nat /\ pos \in [Valves -> Nat] /\ V \in SUBSET Valves
      /\ V \subseteq counted /\ counted \in SUBSET Valves
      /\ \A v \in counted : joined[v] \in Nat /\ joined[v] <= pos[v]
  BY Numbers
<1>3. /\ Moved(m, pos, V) /\ consumed' = consumed /\ buffer' = buffer
      /\ counted' = counted /\ joined' = joined /\ next' = m /\ oldest' = oldest
  BY DEF OnlyMoved
<1>4. \A v \in counted : Passed(v)' = Stretch(joined[v], pos'[v])
  <2> TAKE v \in counted
  <2>1. v \in Valves /\ pos[v] = pos[v] /\ joined[v] \in Nat /\ joined[v] <= pos[v]
    BY <1>2
  <2> QED
    BY <1>1, <1>2, <1>3, <2>1, PassedAfterMoving
<1>5. \A v \in Valves \ counted : Passed(v)' = <<>>
  <2> TAKE v \in Valves \ counted
  <2>1. wire'[v] = wire[v] /\ Passed(v) = <<>>
    BY <1>1, <1>2, <1>3 DEF Moved, PassedShape
  <2> QED
    BY <1>3, <2>1 DEF Passed
<1>6. RingShape'
  BY <1>3 DEF RingShape, Stretch, Ran
<1>7. PassedShape'
  BY <1>3, <1>4, <1>5 DEF PassedShape, Stretch
<1> QED
  BY <1>6, <1>7 DEF InOrder

\* An event accepted enters the ring if some valve still has to take it.
LEMMA EmitKeeps ==
  ASSUME LinksTyped, PositionShape, Emit
  PROVE  /\ LinksTyped' /\ PositionShape' /\ Paid(budget)
         /\ counted' = counted /\ joined' = joined /\ next' > 0
         /\ InOrder /\ counted # {} => InOrder'
<1> DEFINE m == next + 1
           r == Append(ring, m)
<1>1. /\ Len(ring) < Window /\ next < MaxEmits /\ next' = m
      /\ Moving(r, budget, m, pos, attached, counted)
      /\ ring' = IF Slowest > m THEN ring ELSE r
      /\ buffer' = buffer /\ consumed' = consumed /\ tokens' = tokens
      /\ grants' = grants /\ oldest' = oldest /\ attached' = attached
      /\ counted' = counted /\ joined' = joined
  BY DEF Emit, Room, consumerVars
<1>2. /\ next \in Nat /\ m \in Nat /\ oldest \in Nat /\ oldest <= next
      /\ oldest <= m /\ next <= m /\ m <= MaxEmits /\ Window \in Nat
      /\ MaxEmits \in Nat /\ m > 0 /\ m = next + 1
  BY <1>1, MultiAssumption DEF PositionShape
<1> HIDE DEF m
<1>3. /\ ring \in Seq(Nat) /\ r \in Seq(Nat) /\ Len(r) = Len(ring) + 1
      /\ Len(ring) \in Nat
  <2>1. ring \in Seq(Nat)
    BY DEF PositionShape
  <2> QED
    BY <1>2, <2>1, AppendProperties, LenProperties
<1> HIDE DEF r
<1>4. /\ budget \in [Valves -> Nat] /\ pos \in [Valves -> Nat]
      /\ attached \in SUBSET Valves /\ flushing \in BOOLEAN
      /\ counted \in SUBSET Valves
  BY DEF LinksTyped, PositionShape
<1>5. \A v \in attached : pos[v] \in oldest..m
  BY <1>2, <1>4 DEF PositionShape
<1>6. Ready(r, budget, m, pos, attached)
  BY <1>2, <1>3, <1>4, <1>5 DEF Ready
<1>7. Moved(m, pos, attached) /\ Paid(budget)
  BY <1>1, <1>6, MovingEffect
<1>8. OnlyMoved(m, attached)
  <2>1. m \in next..MaxEmits
    BY <1>2
  <2>2. grants' \in [Valves -> Seq(Nat)]
    BY <1>1 DEF LinksTyped
  <2> QED
    BY <1>1, <1>7, <2>1, <2>2 DEF OnlyMoved
<1>9. ring' \in Seq(Nat) /\ Len(ring') <= Window
  BY <1>1, <1>2, <1>3
<1>10. ASSUME counted = {} PROVE ring' = ring
  <2>1. Slowest = MaxEmits + 1
    BY <1>10, SlowestBounds
  <2>2. Slowest > m
    BY <1>2, <2>1
  <2> QED
    BY <1>1, <2>2
<1>11. LinksTyped' /\ PositionShape'
  BY <1>8, <1>9, <1>10, LoopsKeepShape
<1>12. ASSUME InOrder, counted # {} PROVE InOrder'
  <2>1. ring = Stretch(oldest, next)
    BY <1>12 DEF InOrder, RingShape
  <2>2. r = Stretch(oldest, m)
    BY <1>2, <2>1, StretchGrows DEF r
  <2>3. Slowest \in oldest..next
    BY <1>12, SlowestBounds
  <2>4. ~(Slowest > m)
    BY <1>2, <2>3
  <2>5. ring' = Stretch(oldest, m)
    BY <1>1, <2>2, <2>4
  <2>6. Len(ring) = next - oldest
    BY <1>2, <2>1, StretchIs
  <2>7. m - oldest <= Window
    BY <1>1, <1>2, <2>6
  <2>8. Ran(pos, attached)
    BY <1>1, <1>6, <2>2, MovingInOrder
  <2> QED
    BY <1>8, <1>12, <2>5, <2>7, <2>8, LoopsKeepOrder
<1>13. next' > 0
  BY <1>1, <1>2
<1> QED
  BY <1>1, <1>7, <1>11, <1>12, <1>13

\* A grant that arrives, with the loop it may set in motion.
LEMMA GrantKeeps ==
  ASSUME LinksTyped, PositionShape, NEW v \in Valves, GrantArrives(v)
  PROVE  /\ LinksTyped' /\ PositionShape' /\ Paid(Granted(v))
         /\ counted' = counted /\ joined' = joined /\ next' = next
         /\ InOrder => InOrder'
<1> DEFINE V == IF Available(budget, v) THEN {} ELSE {v} \cap attached
           b == Granted(v)
<1>1. /\ grants[v] # <<>> /\ grants' = [grants EXCEPT ![v] = Tail(@)]
      /\ Moving(ring, b, next, pos, V, counted)
      /\ buffer' = buffer /\ consumed' = consumed /\ tokens' = tokens
      /\ next' = next /\ oldest' = oldest /\ ring' = ring
      /\ attached' = attached /\ counted' = counted /\ joined' = joined
  BY DEF GrantArrives, consumerVars
<1>2. /\ next \in Nat /\ oldest \in Nat /\ oldest <= next
      /\ next \in next..MaxEmits
  BY MultiAssumption DEF PositionShape
<1>3. /\ pos \in [Valves -> Nat] /\ flushing \in BOOLEAN
      /\ V \in SUBSET Valves /\ V \in SUBSET attached
      /\ ring \in Seq(Nat) /\ Len(ring) <= Window
  BY DEF PositionShape
<1>4. \A u \in V : pos[u] \in oldest..next
  BY <1>3 DEF PositionShape
<1>5. Head(grants[v]) \in Nat /\ Tail(grants[v]) \in Seq(Nat)
  <2>1. grants[v] \in Seq(Nat)
    BY DEF LinksTyped
  <2> QED
    BY <1>1, <2>1, HeadTailProperties
<1>6. b \in [Valves -> Nat]
  BY <1>5 DEF Granted, LinksTyped
<1>7. grants' \in [Valves -> Seq(Nat)]
  BY <1>1, <1>5 DEF LinksTyped
<1> HIDE DEF V, b
<1>8. Ready(ring, b, next, pos, V)
  BY <1>2, <1>3, <1>4, <1>6 DEF Ready
<1>9. Moved(next, pos, V) /\ Paid(b)
  BY <1>1, <1>8, MovingEffect
<1>10. OnlyMoved(next, V)
  BY <1>1, <1>2, <1>3, <1>7, <1>9 DEF OnlyMoved
<1>11. LinksTyped' /\ PositionShape'
  <2>1. ring' \in Seq(Nat) /\ Len(ring') <= Window /\ (counted = {} => ring' = ring)
    BY <1>1, <1>3
  <2> QED
    BY <1>10, <2>1, LoopsKeepShape
<1>12. ASSUME InOrder PROVE InOrder'
  <2>1. ring = Stretch(oldest, next) /\ next - oldest <= Window
    BY <1>12 DEF InOrder, RingShape
  <2>2. Ran(pos, V)
    BY <1>1, <1>8, <2>1, MovingInOrder
  <2>3. ring' = Stretch(oldest, next)
    BY <1>1, <2>1
  <2> QED
    BY <1>10, <1>12, <2>1, <2>2, <2>3, LoopsKeepOrder
<1> QED
  BY <1>1, <1>9, <1>11, <1>12 DEF b

\* A valve that is attached starts with the slowest one, within the ring.
LEMMA AttachKeeps ==
  ASSUME LinksTyped, PositionShape, NEW v \in Valves, Attach(v)
  PROVE  /\ LinksTyped' /\ PositionShape' /\ Paid(budget)
         /\ Attended' => Attended
         /\ InOrder => InOrder'
<1> DEFINE s == Slowest
           j == Min({s, next})
           p == [pos EXCEPT ![v] = j]
<1>1. /\ v \notin counted
      /\ attached' = attached \cup {v} /\ counted' = counted \cup {v}
      /\ joined' = [joined EXCEPT ![v] = j]
      /\ buffer' = buffer /\ consumed' = consumed /\ tokens' = tokens
      /\ grants' = grants /\ next' = next /\ oldest' = oldest /\ ring' = ring
      /\ Moving(ring, budget, next, [pos EXCEPT ![v] = joined'[v]], {v}, counted')
  BY DEF Attach, consumerVars
<1>2. /\ next \in Nat /\ oldest \in Nat /\ oldest <= next /\ next <= MaxEmits
      /\ MaxEmits \in Nat
  BY MultiAssumption DEF PositionShape
<1>3. /\ s \in Nat /\ s >= oldest
      /\ counted = {} => s > 0
      /\ counted # {} => \E w \in counted : s = pos[w]
  <2>1. CASE counted = {}
    <3>1. s = MaxEmits + 1
      BY <2>1, SlowestBounds
    <3> HIDE DEF s
    <3> QED
      BY <1>2, <2>1, <3>1
  <2>2. CASE counted # {}
    <3>1. s \in oldest..next /\ \E w \in counted : s = pos[w]
      BY <2>2, SlowestBounds
    <3> HIDE DEF s
    <3> QED
      BY <1>2, <2>2, <3>1
  <2> QED
    BY <2>1, <2>2
<1> HIDE DEF s
<1>4. j \in oldest..next /\ (j = s \/ j = next)
  <2>1. j \in {s, next} /\ j <= s /\ j <= next
    BY <1>2, <1>3, LesserIs
  <2> HIDE DEF j
  <2> QED
    BY <1>2, <1>3, <2>1
<1> HIDE DEF j
<1>5. /\ pos \in [Valves -> Nat] /\ flushing \in BOOLEAN /\ j \in Nat
      /\ joined \in [Valves -> Nat] /\ counted \in SUBSET Valves
      /\ attached \subseteq counted /\ budget \in [Valves -> Nat]
      /\ {v} \in SUBSET Valves
      /\ ring \in Seq(Nat) /\ Len(ring) <= Window
  <2>1. j \in Nat
    BY <1>2, <1>4
  <2> QED
    BY <2>1 DEF PositionShape, LinksTyped
<1>6. /\ joined' \in [Valves -> Nat] /\ joined'[v] = j
      /\ \A u \in counted : joined'[u] = joined[u]
  BY <1>1, <1>5
<1>7. /\ p \in [Valves -> Nat] /\ p[v] = j
      /\ \A u \in Valves \ {v} : p[u] = pos[u]
  BY <1>5
<1>8. Moving(ring, budget, next, p, {v}, counted')
  BY <1>1, <1>6
<1> HIDE DEF p
<1>9. \A u \in {v} : p[u] \in oldest..next
  BY <1>4, <1>7
<1>10. Ready(ring, budget, next, p, {v})
  BY <1>2, <1>5, <1>7, <1>9 DEF Ready
<1>11. Moved(next, p, {v}) /\ Paid(budget)
  BY <1>8, <1>10, MovingEffect
<1>12. LinksTyped'
  BY <1>1, <1>11 DEF LinksTyped, Moved
<1>13. \A u \in counted : /\ u \in Valves \ {v} /\ pos'[u] = pos[u]
                          /\ wire'[u] = wire[u]
  BY <1>1, <1>5, <1>7, <1>11 DEF Moved
<1>14. pos'[v] \in j..next
  BY <1>7, <1>11 DEF Moved
<1>15. \A u \in counted' : pos'[u] \in oldest..next /\ joined'[u] <= pos'[u]
  <2>1. \A u \in counted : pos'[u] \in oldest..next /\ joined'[u] <= pos'[u]
    BY <1>6, <1>13 DEF PositionShape
  <2>2. pos'[v] \in oldest..next /\ joined'[v] <= pos'[v]
    <3>1. pos'[v] \in Int /\ j <= pos'[v] /\ pos'[v] <= next /\ oldest <= j
      BY <1>2, <1>4, <1>5, <1>14
    <3> QED
      BY <1>2, <1>5, <1>6, <3>1
  <2> QED
    BY <1>1, <2>1, <2>2
<1>16. PositionShape'
  <2>1. attached' \subseteq counted' /\ counted' \subseteq Valves /\ counted' # {}
    BY <1>1, <1>5
  <2>2. next' \in 0..MaxEmits /\ oldest' \in 0..next'
    BY <1>1, <1>2
  <2>3. /\ pos' \in [Valves -> Nat] /\ flushing' \in BOOLEAN
        /\ failed' \in BOOLEAN
    BY <1>11 DEF Moved
  <2>4. ring' \in Seq(Nat) /\ Len(ring') <= Window
    BY <1>1, <1>5
  <2>5. \A u \in counted' : pos'[u] \in oldest'..next' /\ joined'[u] <= pos'[u]
    BY <1>1, <1>15
  <2> QED
    BY <1>6, <2>1, <2>2, <2>3, <2>4, <2>5 DEF PositionShape
<1>17. ASSUME Attended' PROVE Attended
  <2> SUFFICES ASSUME next > 0 PROVE \E u \in counted : joined[u] = 0
    BY DEF Attended
  <2>1. PICK u \in counted \cup {v} : joined'[u] = 0
    BY <1>1, <1>17 DEF Attended
  <2>2. CASE u \in counted
    BY <1>6, <2>1, <2>2
  <2>3. CASE u = v
    <3>1. j = 0
      BY <1>6, <2>1, <2>3
    <3>2. s = 0
      BY <1>2, <1>4, <3>1
    <3>3. PICK w \in counted : pos[w] = 0
      BY <1>3, <3>2
    <3>4. joined[w] \in Nat /\ joined[w] <= 0
      BY <1>5, <3>3 DEF PositionShape
    <3> QED
      BY <3>4
  <2> QED
    BY <2>1, <2>2, <2>3
<1>18. ASSUME InOrder PROVE InOrder'
  <2>1. /\ ring = Stretch(oldest, next) /\ next - oldest <= Window
        /\ PassedShape
    BY <1>18 DEF InOrder, RingShape
  <2>2. Ran(p, {v})
    BY <1>8, <1>10, <2>1, MovingInOrder
  <2>3. RingShape'
    BY <1>1, <2>1, <2>2 DEF RingShape, Stretch, Ran
  <2>4. Passed(v)' = Stretch(joined'[v], pos'[v])
    <3> DEFINE c == consumed[v]
               b == buffer[v]
               w == wire[v]
               e == pos'[v]
    <3>1. c \in Seq(Nat) /\ b \in Seq(Nat) /\ w \in Seq(Nat)
      BY DEF LinksTyped
    <3>2. Chain(c, b, w) = <<>>
      BY <1>1, <2>1 DEF PassedShape, Passed, Chain
    <3>3. e \in Nat /\ j <= e /\ wire'[v] = w \o Stretch(j, e)
      <4>1. wire'[v] = wire[v] \o Stretch(p[v], pos'[v])
        BY <2>2 DEF Ran
      <4>2. pos'[v] \in Nat /\ j <= pos'[v]
        BY <1>2, <1>5, <1>14
      <4> QED
        BY <1>7, <4>1, <4>2
    <3>4. Passed(v)' = Chain(c, b, wire'[v])
      BY <1>1 DEF Passed, Chain
    <3> HIDE DEF c, b, w, e
    <3>5. Chain(c, b, w) = Stretch(j, j)
      BY <1>5, <3>2, StretchNone
    <3>6. Chain(c, b, w \o Stretch(j, e)) = Stretch(j, e)
      <4>1. j <= j
        BY <1>5
      <4> QED
        BY <1>5, <3>1, <3>3, <3>5, <4>1, PushKeepsOrder
    <3> QED
      BY <1>6, <3>3, <3>4, <3>6 DEF e
  <2>5. \A u \in counted : Passed(u)' = Stretch(joined'[u], pos'[u])
    <3> TAKE u \in counted
    <3>1. Passed(u)' = Passed(u)
      BY <1>1, <1>13 DEF Passed
    <3>2. Passed(u) = Stretch(joined[u], pos[u])
      BY <2>1 DEF PassedShape
    <3> QED
      BY <1>6, <1>13, <3>1, <3>2
  <2>6. \A u \in Valves \ counted' : Passed(u)' = <<>>
    <3> TAKE u \in Valves \ counted'
    <3>1. u \in Valves \ {v} /\ u \in Valves \ counted
      BY <1>1
    <3>2. Passed(u)' = Passed(u)
      BY <1>1, <1>11, <3>1 DEF Passed, Moved
    <3> QED
      BY <2>1, <3>1, <3>2 DEF PassedShape
  <2>7. PassedShape'
    BY <1>1, <2>4, <2>5, <2>6 DEF PassedShape, Stretch
  <2> QED
    BY <2>3, <2>7 DEF InOrder
<1> QED
  BY <1>11, <1>12, <1>16, <1>17, <1>18

\* A valve that is removed stays in the aggregate.
LEMMA DetachKeeps ==
  ASSUME MultiInv, NEW v \in Valves, Detach(v)
  PROVE  MultiInv'
<1>1. v \in attached /\ attached' = attached \ {v} /\ counted' = counted \cup {v}
  BY DEF Detach, Uncount
<1>2. attached \subseteq counted
  BY DEF MultiInv, PositionShape
<1>3. counted' = counted /\ attached' \subseteq counted
  BY <1>1, <1>2
<1>4. /\ budget' = budget /\ wire' = wire /\ buffer' = buffer
      /\ consumed' = consumed /\ tokens' = tokens /\ grants' = grants
      /\ next' = next /\ oldest' = oldest /\ ring' = ring /\ pos' = pos
      /\ joined' = joined /\ flushing' = flushing /\ failed' = failed
  BY DEF Detach, linkVars, consumerVars
<1>5. LinksTyped' /\ (RingShape => RingShape')
  BY <1>4 DEF MultiInv, LinksTyped, RingShape, Stretch
<1>6. PositionShape'
  BY <1>3, <1>4 DEF MultiInv, PositionShape
<1>7. PassedShape => PassedShape'
  BY <1>3, <1>4 DEF MultiInv, PassedShape, Passed, Stretch
<1>8. Attended' => Attended
  BY <1>3, <1>4 DEF Attended
<1> QED
  BY <1>5, <1>6, <1>7, <1>8 DEF MultiInv, InOrder

\* A flush drops what every valve has taken, and no more.
LEMMA FlushKeeps ==
  ASSUME MultiInv, Flush
  PROVE  MultiInv'
<1> DEFINE s == Slowest
           total == s - oldest
<1>1. /\ flushing /\ flushing' = FALSE /\ oldest' = oldest + total
      /\ IF total <= Len(ring)
           THEN ring' = SubSeq(ring, total + 1, Len(ring)) /\ failed' = failed
           ELSE failed' = TRUE /\ ring' = ring
      /\ budget' = budget /\ wire' = wire /\ buffer' = buffer
      /\ consumed' = consumed /\ tokens' = tokens /\ grants' = grants
      /\ next' = next /\ attached' = attached /\ counted' = counted
      /\ pos' = pos /\ joined' = joined
  BY DEF Flush, linkVars, consumerVars
<1>2. LinksTyped /\ PositionShape /\ (Attended => InOrder)
  BY DEF MultiInv
<1>3. /\ next \in Nat /\ oldest \in Nat /\ oldest <= next /\ next <= MaxEmits
      /\ Window \in Nat /\ ring \in Seq(Nat) /\ Len(ring) <= Window
      /\ Len(ring) \in Nat
  BY <1>2, MultiAssumption, LenProperties DEF PositionShape
<1>4. counted # {}
  BY <1>1, <1>2 DEF PositionShape
<1>5. /\ s \in oldest..next
      /\ \A v \in counted : s <= pos[v]
  BY <1>2, <1>4, SlowestBounds
<1> HIDE DEF s
<1>6. /\ s \in Nat /\ oldest <= s /\ s <= next /\ total \in Nat
      /\ oldest + total = s /\ total + 1 = s - oldest + 1
  BY <1>3, <1>5
<1>7. oldest' = s
  BY <1>1, <1>6
<1>8. ring' \in Seq(Nat) /\ Len(ring') <= Window /\ failed' \in BOOLEAN
  <2>1. CASE total <= Len(ring)
    <3> DEFINE l == total + 1
               h == Len(ring)
    <3>1. ring' = SubSeq(ring, l, h) /\ failed' = failed
      BY <1>1, <2>1
    <3>2. l \in Int /\ h \in Int /\ l >= 1 /\ h \in Nat
      BY <1>3, <1>6
    <3>3. \A i \in 1..h : ring[i] \in Nat
      BY <1>3, ElementOfSeq
    <3> HIDE DEF l, h
    <3>4. \A i \in l..h : ring[i] \in Nat
      BY <3>2, <3>3
    <3>5. /\ SubSeq(ring, l, h) \in Seq(Nat)
          /\ Len(SubSeq(ring, l, h)) = IF l <= h THEN h - l + 1 ELSE 0
      BY <3>2, <3>4, SubSeqProperties
    <3>6. Len(ring') <= h
      BY <3>1, <3>2, <3>5
    <3>7. Len(ring') <= Window
      <4>1. Len(ring') \in Int
        BY <3>1, <3>5, LenProperties
      <4> QED
        BY <1>3, <3>6, <4>1 DEF h
    <3> QED
      BY <1>2, <3>1, <3>5, <3>7 DEF PositionShape
  <2>2. CASE ~(total <= Len(ring))
    BY <1>1, <1>3, <2>2
  <2> QED
    BY <2>1, <2>2
<1>9. LinksTyped'
  BY <1>1, <1>2 DEF LinksTyped
<1>10. PositionShape'
  <2>1. \A v \in counted : pos[v] \in s..next
    <3> TAKE v \in counted
    <3>1. pos[v] \in oldest..next /\ s <= pos[v]
      BY <1>2, <1>5 DEF PositionShape
    <3> QED
      BY <1>3, <1>6, <3>1
  <2>2. s \in 0..next
    BY <1>3, <1>6
  <2> QED
    BY <1>1, <1>2, <1>4, <1>7, <1>8, <2>1, <2>2 DEF PositionShape
<1>11. Attended' => Attended
  BY <1>1 DEF Attended
<1>12. ASSUME InOrder PROVE InOrder'
  <2>1. /\ ring = Stretch(oldest, next) /\ next - oldest <= Window
        /\ failed = FALSE /\ PassedShape
    BY <1>12 DEF InOrder, RingShape
  <2>2. Len(ring) = next - oldest
    BY <1>3, <2>1, StretchIs
  <2>3. total <= Len(ring)
    BY <1>3, <1>6, <2>2
  <2>4. ring' = Stretch(s, next)
    <3> DEFINE l == s - oldest + 1
               h == next - oldest
    <3>1. l \in Int /\ h \in Int /\ s <= next /\ oldest <= s /\ l = s - oldest + 1
      BY <1>3, <1>6
    <3>2. h = next - oldest /\ oldest \in Nat /\ next \in Nat /\ s \in Nat
      BY <1>3, <1>6
    <3> HIDE DEF l, h
    <3>3. SubSeq(Stretch(oldest, next), l, h) = Stretch(s, next)
      BY <3>1, <3>2, StretchRead
    <3>4. ring' = SubSeq(Stretch(oldest, next), s - oldest + 1, next - oldest)
      BY <1>1, <1>6, <2>1, <2>2, <2>3
    <3> QED
      BY <3>3, <3>4 DEF l, h
  <2>5. RingShape'
    <3>1. next - s <= Window
      BY <1>3, <1>6, <2>1
    <3>2. failed' = FALSE
      BY <1>1, <2>1, <2>3
    <3> QED
      BY <1>1, <1>7, <2>4, <3>1, <3>2 DEF RingShape, Stretch
  <2>6. PassedShape'
    BY <1>1, <2>1 DEF PassedShape, Passed, Stretch
  <2> QED
    BY <2>5, <2>6 DEF InOrder
<1> QED
  BY <1>2, <1>9, <1>10, <1>11, <1>12 DEF MultiInv

-----------------------------------------------------------------------------
(* The invariant. *)

\* The initial state satisfies the invariant.
LEMMA MultiInitKeeps == Init => MultiInv
<1> SUFFICES ASSUME Init PROVE MultiInv
  OBVIOUS
<1> USE LinkAssumption, MultiAssumption DEF Init, LinkInit, MultiInit
<1>1. LinksTyped
  BY DEF LinksTyped
<1>2. PositionShape
  <2>1. 0 \in 0..MaxEmits /\ 0 \in 0..0 /\ FALSE \in BOOLEAN
    OBVIOUS
  <2>2. pos \in [Valves -> Nat] /\ joined \in [Valves -> Nat]
    OBVIOUS
  <2>3. /\ attached = {} /\ counted = {} /\ next = 0 /\ oldest = 0
        /\ ring = <<>> /\ flushing = FALSE /\ failed = FALSE
    OBVIOUS
  <2>4. <<>> \in Seq(Nat) /\ Len(<<>>) = 0 /\ 0 <= Window
    BY EmptySeq
  <2> QED
    BY <2>1, <2>2, <2>3, <2>4 DEF PositionShape
<1>3. RingShape
  BY StretchNone DEF RingShape
<1>4. PassedShape
  <2>1. <<>> \o <<>> \o <<>> = <<>>
    BY EmptySeq, ConcatEmptySeq
  <2>2. \A v \in Valves : Passed(v) = <<>> \o <<>> \o <<>>
    BY DEF Passed
  <2> QED
    BY <2>1, <2>2 DEF PassedShape
<1> QED
  BY <1>1, <1>2, <1>3, <1>4 DEF MultiInv, InOrder

\* Every step keeps the invariant.
LEMMA MultiStep == MultiInv /\ [Next]_vars => MultiInv'
<1> SUFFICES ASSUME MultiInv, [Next]_vars PROVE MultiInv'
  OBVIOUS
<1>1. CASE Emit
  <2>1. Attended' => Attended /\ counted # {}
    BY <1>1, EmitKeeps DEF MultiInv, Attended
  <2> QED
    BY <1>1, <2>1, EmitKeeps DEF MultiInv
<1>2. CASE Flush
  BY <1>2, FlushKeeps
<1>3. ASSUME NEW v \in Valves, GrantArrives(v) \/ Attach(v) \/ Detach(v)
      PROVE  MultiInv'
  <2>1. CASE GrantArrives(v)
    <3>1. Attended' => Attended
      BY <2>1, GrantKeeps DEF MultiInv, Attended
    <3> QED
      BY <2>1, <3>1, GrantKeeps DEF MultiInv
  <2>2. CASE Attach(v)
    BY <2>2, AttachKeeps DEF MultiInv
  <2> QED
    BY <1>3, <2>1, <2>2, DetachKeeps
<1>4. ASSUME NEW v \in Valves, Arrive(v) \/ Consume(v) \/ Preempted(v),
             UNCHANGED multiVars
      PROVE  MultiInv'
  BY <1>4, ConsumerKeeps DEF ConsumerStep
<1>5. CASE UNCHANGED vars
  BY <1>5 DEF vars, linkVars, consumerVars, multiVars, MultiInv, LinksTyped,
              PositionShape, InOrder, RingShape, PassedShape, Passed, Stretch,
              Attended
<1> QED
  BY <1>1, <1>2, <1>3, <1>4, <1>5 DEF Next

\* The inductive invariant of the multi-valve holds in every reachable state,
\* whatever valves are attached and removed, and however grants, flushes and
\* the consumers' batches interleave.
THEOREM MultiInvariant == Spec => []MultiInv
<1>1. Init => MultiInv
  BY MultiInitKeeps
<1>2. MultiInv /\ [Next]_vars => MultiInv'
  BY MultiStep
<1> QED
  BY <1>1, <1>2, PTL DEF Spec

\* If no event was emitted before the first valve was attached, what the
\* consumer of a valve was sent is a stretch of the emitted events, without gap
\* or repetition, from the position at which `+=` attached it (MultiValve.scala,
\* the loop `moving`).
THEOREM EachInOrderHolds == Spec => []EachInOrder
<1>1. MultiInv => EachInOrder
  BY DEF MultiInv, InOrder, PassedShape, Passed, Stretch, EachInOrder
<1> QED
  BY <1>1, MultiInvariant, PTL

\* The ring never holds more than its window; and if no event was emitted before
\* the first valve was attached, it holds exactly the events after `oldest`, at
\* least what an attached valve has not taken, and no loop and no flush reads
\* outside it (MultiValve.scala, `ring(pos - oldest)` and `ring.dequeue`).
THEOREM RingHoldsTheMissingHolds == Spec => []RingHoldsTheMissing
<1>1. MultiInv => RingHoldsTheMissing
  <2> SUFFICES ASSUME MultiInv PROVE RingHoldsTheMissing
    OBVIOUS
  <2>1. Len(ring) <= Window
    BY DEF MultiInv, PositionShape
  <2>2. Attended => failed = FALSE /\ ring = Stretch(oldest, next)
    BY DEF MultiInv, InOrder, RingShape
  <2>3. next \in Nat /\ oldest \in Nat /\ oldest <= next
    BY MultiAssumption DEF MultiInv, PositionShape
  <2>4. \A v \in attached : pos[v] \in oldest..next
    BY DEF MultiInv, PositionShape
  <2>5. \A v \in attached : pos[v] >= oldest
    BY <2>3, <2>4
  <2> QED
    BY <2>1, <2>2, <2>5 DEF RingHoldsTheMissing, Stretch
<1> QED
  BY <1>1, MultiInvariant, PTL

-----------------------------------------------------------------------------
(* The links' tokens. *)

\* Where the tokens of v's link are.
Granting(v) == SumOf(grants[v])
Sent(v) == Len(wire[v])
Buffered(v) == Len(buffer[v])
TokensOf(v) == budget[v] + Granting(v) + tokens[v] + Sent(v) + Buffered(v)

\* Conservation, in these words.
LEMMA ConservationIs == Conservation <=> \A v \in Valves : TokensOf(v) = Size
BY DEF Conservation, TokensOf, Granting, Sent, Buffered

\* What is counted are natural numbers.
LEMMA TokensNat ==
  ASSUME LinksTyped, NEW v \in Valves
  PROVE  /\ budget[v] \in Nat /\ Granting(v) \in Nat /\ tokens[v] \in Nat
         /\ Sent(v) \in Nat /\ Buffered(v) \in Nat
<1>1. /\ budget[v] \in Nat /\ grants[v] \in Seq(Nat) /\ tokens[v] \in Nat
      /\ wire[v] \in Seq(Nat) /\ buffer[v] \in Seq(Nat)
  BY DEF LinksTyped
<1>2. SumOf(grants[v]) \in Nat
  BY <1>1, SumOfAppend
<1> QED
  BY <1>1, <1>2, LenProperties DEF Granting, Sent, Buffered

\* The same after a step.
LEMMA SentNat ==
  ASSUME LinksTyped', NEW v \in Valves
  PROVE  budget'[v] \in Nat /\ Sent(v)' \in Nat
<1>1. budget'[v] \in Nat /\ wire'[v] \in Seq(Nat)
  BY DEF LinksTyped
<1> QED
  BY <1>1, LenProperties DEF Sent

\* A step keeps the tokens when it keeps those of each link.
LEMMA SizeStays ==
  ASSUME \A v \in Valves : TokensOf(v)' = Size
  PROVE  Conservation'
BY DEF Conservation, TokensOf, Granting, Sent, Buffered

\* No token appears or disappears with what the loops pass on, when the grants
\* and the buffers stay.
LEMMA PaidKeeps ==
  ASSUME LinksTyped, LinksTyped', Paid(budget), Conservation,
         grants' = grants, tokens' = tokens, buffer' = buffer
  PROVE  Conservation'
<1> SUFFICES ASSUME NEW v \in Valves PROVE TokensOf(v)' = Size
  BY SizeStays
<1>1. TokensOf(v) = Size
  BY ConservationIs
<1>2. budget'[v] + Sent(v)' = budget[v] + Sent(v)
  BY DEF Paid, Sent
<1>3. budget'[v] \in Nat /\ Sent(v)' \in Nat
  BY SentNat
<1>4. /\ budget[v] \in Nat /\ Granting(v) \in Nat /\ tokens[v] \in Nat
      /\ Sent(v) \in Nat /\ Buffered(v) \in Nat
  BY TokensNat
<1>5. Granting(v)' = Granting(v) /\ Buffered(v)' = Buffered(v) /\ tokens'[v] = tokens[v]
  BY DEF Granting, Buffered
<1> QED
  BY <1>1, <1>2, <1>3, <1>4, <1>5 DEF TokensOf

\* A grant that arrives is tokens to use.
LEMMA GrantCounts ==
  ASSUME MultiInv, NEW v \in Valves, GrantArrives(v), LinksTyped', Paid(Granted(v)),
         Conservation
  PROVE  Conservation'
<1>1. /\ grants[v] # <<>> /\ grants' = [grants EXCEPT ![v] = Tail(@)]
      /\ buffer' = buffer /\ tokens' = tokens
  BY DEF GrantArrives, consumerVars
<1>2. LinksTyped
  BY DEF MultiInv
<1>3. grants \in [Valves -> Seq(Nat)] /\ budget \in [Valves -> Nat]
  BY <1>2 DEF LinksTyped
<1> SUFFICES ASSUME NEW u \in Valves PROVE TokensOf(u)' = Size
  BY SizeStays
<1>4. TokensOf(u) = Size
  BY ConservationIs
<1>5. budget'[u] + Sent(u)' = Granted(v)[u] + Sent(u)
  BY DEF Paid, Sent
<1>6. budget'[u] \in Nat /\ Sent(u)' \in Nat
  BY SentNat
<1>7. /\ budget[u] \in Nat /\ Granting(u) \in Nat /\ tokens[u] \in Nat
      /\ Sent(u) \in Nat /\ Buffered(u) \in Nat
  BY <1>2, TokensNat
<1>10. Buffered(u)' = Buffered(u) /\ tokens'[u] = tokens[u]
  BY <1>1 DEF Buffered
<1>8. CASE u = v
  <2>1. /\ SumOf(Tail(grants[v])) \in Nat /\ Head(grants[v]) \in Nat
        /\ SumOf(grants[v]) = Head(grants[v]) + SumOf(Tail(grants[v]))
    BY <1>1, <1>3, SumOfTail
  <2>2. Granted(v)[u] = budget[u] + Head(grants[v]) /\ grants'[u] = Tail(grants[v])
    BY <1>1, <1>3, <1>8 DEF Granted
  <2>3. Granting(u)' = SumOf(Tail(grants[v])) /\ Granting(u) = SumOf(grants[v])
    BY <1>8, <2>2 DEF Granting
  <2> DEFINE h == Head(grants[v])
  <2>4. h \in Nat /\ Granting(u) = h + Granting(u)' /\ Granted(v)[u] = budget[u] + h
    BY <2>1, <2>2, <2>3
  <2>5. Granting(u)' \in Nat
    BY <2>1, <2>3
  <2> HIDE DEF h
  <2>6. TokensOf(u)' = budget'[u] + Granting(u)' + tokens'[u] + Sent(u)' + Buffered(u)'
    BY DEF TokensOf
  <2>7. Size = budget[u] + Granting(u) + tokens[u] + Sent(u) + Buffered(u)
    BY <1>4 DEF TokensOf
  <2>8. budget'[u] + Sent(u)' + Granting(u)' = budget[u] + Sent(u) + Granting(u)
    BY <1>5, <1>6, <1>7, <2>4, <2>5
  <2> QED
    BY <1>6, <1>7, <1>10, <2>5, <2>6, <2>7, <2>8
<1>9. CASE u # v
  <2>1. Granted(v)[u] = budget[u] /\ grants'[u] = grants[u]
    BY <1>1, <1>3, <1>9 DEF Granted
  <2>2. Granting(u)' = Granting(u)
    BY <2>1 DEF Granting
  <2> QED
    BY <1>4, <1>5, <1>6, <1>7, <1>10, <2>1, <2>2 DEF TokensOf
<1> QED
  BY <1>8, <1>9

\* An event that arrives, is taken out of the buffer, or the end of a batch.
LEMMA ConsumerCounts ==
  ASSUME MultiInv, NEW v \in Valves, ConsumerStep(v), Conservation
  PROVE  Conservation'
<1>1. LinksTyped
  BY DEF MultiInv
<1>2. /\ budget \in [Valves -> Nat] /\ tokens \in [Valves -> Nat]
      /\ grants \in [Valves -> Seq(Nat)] /\ wire \in [Valves -> Seq(Nat)]
      /\ buffer \in [Valves -> Seq(Nat)]
  BY <1>1 DEF LinksTyped
<1> SUFFICES ASSUME NEW u \in Valves PROVE TokensOf(u)' = Size
  BY SizeStays
<1>3. TokensOf(u) = Size
  BY ConservationIs
<1>4. /\ budget[u] \in Nat /\ Granting(u) \in Nat /\ tokens[u] \in Nat
      /\ Sent(u) \in Nat /\ Buffered(u) \in Nat
  BY <1>1, TokensNat
<1>5. CASE Arrive(v)
  <2>1. /\ wire[v] # <<>> /\ wire' = [wire EXCEPT ![v] = Tail(@)]
        /\ buffer' = [buffer EXCEPT ![v] = Append(@, Head(wire[v]))]
        /\ budget' = budget /\ tokens' = tokens /\ grants' = grants
    BY <1>5 DEF Arrive, consumerVars
  <2>2. CASE u = v
    <3>1. Len(Tail(wire[v])) = Len(wire[v]) - 1 /\ Head(wire[v]) \in Nat
      BY <1>2, <2>1, HeadTailProperties
    <3>2. Len(Append(buffer[v], Head(wire[v]))) = Len(buffer[v]) + 1
      BY <1>2, <3>1, AppendProperties
    <3>3. wire'[u] = Tail(wire[v]) /\ buffer'[u] = Append(buffer[v], Head(wire[v]))
      BY <1>2, <2>1, <2>2
    <3>4. Sent(u)' = Sent(u) - 1 /\ Buffered(u)' = Buffered(u) + 1
      BY <2>2, <3>1, <3>2, <3>3 DEF Sent, Buffered
    <3>5. Granting(u)' = Granting(u) /\ budget'[u] = budget[u] /\ tokens'[u] = tokens[u]
      BY <2>1 DEF Granting
    <3> QED
      BY <1>3, <1>4, <3>4, <3>5 DEF TokensOf
  <2>3. CASE u # v
    <3>1. wire'[u] = wire[u] /\ buffer'[u] = buffer[u]
      BY <1>2, <2>1, <2>3
    <3> QED
      BY <1>3, <2>1, <3>1 DEF TokensOf, Granting, Sent, Buffered
  <2> QED
    BY <2>2, <2>3
<1>6. CASE Consume(v)
  <2>1. /\ buffer[v] # <<>> /\ buffer' = [buffer EXCEPT ![v] = Tail(@)]
        /\ budget' = budget /\ wire' = wire /\ Return(v)
    BY <1>6 DEF Consume
  <2>2. CASE u = v
    <3>1. Len(Tail(buffer[v])) = Len(buffer[v]) - 1
      BY <1>2, <2>1, HeadTailProperties
    <3>2. Buffered(u)' = Buffered(u) - 1
      BY <1>2, <2>1, <2>2, <3>1 DEF Buffered
    <3>5. Sent(u)' = Sent(u) /\ budget'[u] = budget[u]
      BY <2>1 DEF Sent
    <3>3. CASE v \in Batching
      <4>1. tokens'[u] = tokens[u] + 1 /\ grants' = grants
        BY <1>2, <2>1, <2>2, <3>3 DEF Return
      <4>2. Granting(u)' = Granting(u)
        BY <4>1 DEF Granting
      <4> QED
        BY <1>3, <1>4, <3>2, <3>5, <4>1, <4>2 DEF TokensOf
    <3>4. CASE v \notin Batching
      <4>1. tokens'[u] = tokens[u]
        BY <2>1, <3>4 DEF Return
      <4>2. Granting(u)' = Granting(u) + 1
        <5>1. grants'[u] = Append(grants[u], 1)
          BY <1>2, <2>1, <2>2, <3>4 DEF Return
        <5> QED
          BY <1>2, <5>1, SumOfAppend DEF Granting
      <4>3. TokensOf(u)' = budget'[u] + Granting(u)' + tokens'[u] + Sent(u)' + Buffered(u)'
        BY DEF TokensOf
      <4>4. Size = budget[u] + Granting(u) + tokens[u] + Sent(u) + Buffered(u)
        BY <1>3 DEF TokensOf
      <4> QED
        BY <1>4, <3>2, <3>5, <4>1, <4>2, <4>3, <4>4
    <3> QED
      BY <3>3, <3>4
  <2>3. CASE u # v
    <3>1. buffer'[u] = buffer[u] /\ tokens'[u] = tokens[u] /\ grants'[u] = grants[u]
      BY <1>2, <2>1, <2>3 DEF Return
    <3> QED
      BY <1>3, <2>1, <3>1 DEF TokensOf, Granting, Sent, Buffered
  <2> QED
    BY <2>2, <2>3
<1>7. CASE Preempted(v)
  <2>1. /\ grants' = [grants EXCEPT ![v] = Append(@, tokens[v])]
        /\ tokens' = [tokens EXCEPT ![v] = 0]
        /\ budget' = budget /\ wire' = wire /\ buffer' = buffer
    BY <1>7 DEF Preempted
  <2>2. CASE u = v
    <3>1. grants'[u] = Append(grants[u], tokens[u]) /\ tokens'[u] = 0
      BY <1>2, <2>1, <2>2
    <3>2. Granting(u)' = Granting(u) + tokens[u]
      BY <1>2, <3>1, SumOfAppend DEF Granting
    <3>3. Sent(u)' = Sent(u) /\ Buffered(u)' = Buffered(u) /\ budget'[u] = budget[u]
      BY <2>1 DEF Sent, Buffered
    <3> QED
      BY <1>3, <1>4, <3>1, <3>2, <3>3 DEF TokensOf
  <2>3. CASE u # v
    <3>1. grants'[u] = grants[u] /\ tokens'[u] = tokens[u]
      BY <1>2, <2>1, <2>3
    <3> QED
      BY <1>3, <2>1, <3>1 DEF TokensOf, Granting, Sent, Buffered
  <2> QED
    BY <2>2, <2>3
<1> QED
  BY <1>5, <1>6, <1>7 DEF ConsumerStep

\* Every step keeps the tokens.
LEMMA TokensStep ==
  ASSUME MultiInv, MultiInv', [Next]_vars, Conservation
  PROVE  Conservation'
<1>1. LinksTyped /\ LinksTyped'
  BY DEF MultiInv
<1>2. CASE Emit
  <2>1. grants' = grants /\ tokens' = tokens /\ buffer' = buffer
    BY <1>2 DEF Emit, consumerVars
  <2>2. Paid(budget)
    BY <1>2, EmitKeeps DEF MultiInv
  <2> QED
    BY <1>1, <2>1, <2>2, PaidKeeps
<1>3. ASSUME NEW v \in Valves, Attach(v)
      PROVE  Conservation'
  <2>1. grants' = grants /\ tokens' = tokens /\ buffer' = buffer
    BY <1>3 DEF Attach, consumerVars
  <2>2. Paid(budget)
    BY <1>3, AttachKeeps DEF MultiInv
  <2> QED
    BY <1>1, <2>1, <2>2, PaidKeeps
<1>4. ASSUME NEW v \in Valves, GrantArrives(v)
      PROVE  Conservation'
  <2>1. Paid(Granted(v))
    BY <1>4, GrantKeeps DEF MultiInv
  <2> QED
    BY <1>1, <1>4, <2>1, GrantCounts
<1>5. CASE UNCHANGED linkVars
  BY <1>5 DEF linkVars, consumerVars, Conservation
<1>6. ASSUME Flush \/ UNCHANGED vars \/ \E v \in Valves : Detach(v)
      PROVE  UNCHANGED linkVars
  BY <1>6 DEF Flush, Detach, vars
<1>7. ASSUME NEW v \in Valves, Arrive(v) \/ Consume(v) \/ Preempted(v)
      PROVE  Conservation'
  BY <1>7, ConsumerCounts DEF ConsumerStep
<1> QED
  BY <1>2, <1>3, <1>4, <1>5, <1>6, <1>7 DEF Next

\* Each token of a link is in one place: with the producer, on its way, kept by
\* the batching policy, or in an event sent and not consumed. A consumer never
\* holds more events than its policy's size, and no race of grants with sends
\* loses pressure (backpressure-protocols.scala, defaultClient and the policies).
THEOREM ConservationHolds == Spec => []Conservation
<1>1. Init => Conservation
  <2> SUFFICES ASSUME Init, NEW v \in Valves PROVE TokensOf(v) = Size
    BY ConservationIs
  <2>1. /\ budget[v] = 0 /\ grants[v] = <<Size>> /\ tokens[v] = 0
        /\ wire[v] = <<>> /\ buffer[v] = <<>>
    BY DEF Init, LinkInit
  <2>2. SumOf(<<Size>>) = Size /\ Size \in Nat
    BY SumOfOne, LinkAssumption
  <2> QED
    BY <2>1, <2>2 DEF TokensOf, Granting, Sent, Buffered
<1>2. MultiInv /\ MultiInv' /\ [Next]_vars /\ Conservation => Conservation'
  BY TokensStep
<1> QED
  BY <1>1, <1>2, MultiInvariant, PTL DEF Spec
=============================================================================
