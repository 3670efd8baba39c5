---------------------------- MODULE SequenceProofs ----------------------------
(***************************************************************************)
(* Induction, and what the recursive operators on sequences compute.       *)
(*                                                                         *)
(* Induction is stated over sets, so that provers of first-order logic can *)
(* use it: a set of naturals with 0 that holds the successor of each of    *)
(* its elements is all of them.                                            *)
(***************************************************************************)
EXTENDS Subsequences, SequencesExt, SequenceTheorems, FiniteSetTheorems, TLAPS

\* A set of naturals that is not empty has a least element.
LEMMA LeastNatural ==
    ASSUME NEW T \in SUBSET Nat, T # {}
    PROVE  \E m \in T : \A k \in T : m <= k
<1> DEFINE F == {0..m : m \in T}
<1>1. F \subseteq FiniteSubsetsOf(Nat) /\ F # {}
  <2>1. ASSUME NEW m \in T
        PROVE  IsFiniteSet(0..m) /\ 0..m \in SUBSET Nat
    <3>1. m \in Int /\ 0 \in Int
      OBVIOUS
    <3> QED  BY <3>1, FS_Interval
  <2> QED  BY <2>1 DEF FiniteSubsetsOf
<1>2. PICK x \in F : \A y \in F : <<y, x>> \notin StrictSubsetOrdering(Nat)
  <2> HIDE DEF F
  <2> QED  BY <1>1, FS_StrictSubsetOrderingWellFounded, WFMin, Zenon
<1>3. PICK m \in T : x = 0..m
  OBVIOUS
<1>4. ASSUME NEW k \in T, k < m
      PROVE  FALSE
  <2>1. 0..k \in F /\ 0..k \in SUBSET Nat /\ 0..m \in SUBSET Nat
    OBVIOUS
  <2>2. 0..k \subseteq 0..m /\ 0..k # 0..m
    BY <1>4
  <2>3. <<0..k, 0..m>> \in StrictSubsetOrdering(Nat)
    BY <2>1, <2>2 DEF StrictSubsetOrdering
  <2> QED  BY <2>1, <2>3, <1>2, <1>3
<1> QED  BY <1>3, <1>4

\* Induction over the naturals.
LEMMA Induction ==
    ASSUME NEW S, 0 \in S, \A n \in Nat : n \in S => n + 1 \in S
    PROVE  Nat \subseteq S
<1> SUFFICES ASSUME Nat \ S # {}
             PROVE  FALSE
  OBVIOUS
<1>1. PICK m \in Nat \ S : \A k \in Nat \ S : m <= k
  BY LeastNatural
<1>2. m # 0 /\ m - 1 \in Nat /\ m - 1 \in S
  BY <1>1
<1> QED  BY <1>1, <1>2

\* Induction up to a bound.
LEMMA BoundedInduction ==
    ASSUME NEW n \in Nat, NEW S, 0 \in S, \A i \in 0..(n - 1) : i \in S => i + 1 \in S
    PROVE  0..n \subseteq S
<1> DEFINE T == {i \in Nat : i <= n => i \in S}
<1>1. 0 \in T
  OBVIOUS
<1>2. \A i \in Nat : i \in T => i + 1 \in T
  OBVIOUS
<1>3. Nat \subseteq T
  <2> HIDE DEF T
  <2> QED  BY <1>1, <1>2, Induction
<1> QED  BY <1>3

\* A bounded set of naturals that is not empty has a greatest element.
LEMMA MaxOfBounded ==
    ASSUME NEW n \in Nat, NEW T \in SUBSET (0..n), T # {}
    PROVE  Max(T) \in T /\ \A k \in T : k <= Max(T)
<1> DEFINE U == {n - k : k \in T}
<1>1. U \in SUBSET Nat /\ U # {}
  <2>1. \A k \in T : k \in Int /\ 0 <= k /\ k <= n
    OBVIOUS
  <2>2. \A k \in T : n - k \in Nat
    BY <2>1
  <2> QED  BY <2>2
<1>2. PICK m \in U : \A k \in U : m <= k
  <2> HIDE DEF U
  <2> QED  BY <1>1, LeastNatural
<1>3. PICK x \in T : m = n - x
  OBVIOUS
<1>4. \A k \in T : x >= k
  BY <1>2, <1>3
<1> QED  BY <1>4 DEF Max

-----------------------------------------------------------------------------
(* Recursive definitions.                                                  *)

\* F gives the value at each position of a sequence from the one before.
Steps(A, n) == [A \X (1..n) -> A]

IsRun(f, A, n, a, F) ==
    f \in [0..n -> A] /\ f[0] = a /\ \A i \in 1..n : f[i] = F[<<f[i - 1], i>>]

\* Recursion over the positions of a sequence.
LEMMA Recursion ==
    ASSUME NEW n \in Nat, NEW A, NEW a \in A, NEW F \in Steps(A, n)
    PROVE  \E f : IsRun(f, A, n, a, F)
<1> DEFINE P(k) == \E f \in [0..k -> A] :
                      f[0] = a /\ \A i \in 1..k : f[i] = F[<<f[i - 1], i>>]
           S == {k \in 0..n : P(k)}
<1> USE DEF Steps
<1>1. 0 \in S
  <2> DEFINE f == [i \in 0..0 |-> a]
  <2>1. f \in [0..0 -> A] /\ f[0] = a /\ \A i \in 1..0 : f[i] = F[<<f[i - 1], i>>]
    OBVIOUS
  <2> HIDE DEF f
  <2> QED  BY <2>1
<1>2. ASSUME NEW k \in 0..(n - 1), k \in S
      PROVE  k + 1 \in S
  <2>1. PICK f \in [0..k -> A] : f[0] = a /\ \A i \in 1..k : f[i] = F[<<f[i - 1], i>>]
    BY <1>2
  <2> DEFINE g == [i \in 0..(k + 1) |-> IF i = k + 1 THEN F[<<f[k], k + 1>>] ELSE f[i]]
  <2>2. f[k] \in A /\ k + 1 \in 1..n
    <3>1. k \in 0..k /\ k + 1 \in 1..n
      OBVIOUS
    <3> QED  BY <2>1, <3>1
  <2>3. g \in [0..(k + 1) -> A] /\ g[0] = a /\ \A i \in 0..k : g[i] = f[i]
    <3>1. F[<<f[k], k + 1>>] \in A
      BY <2>2
    <3>2. \A i \in 0..(k + 1) : i # k + 1 => i \in 0..k
      OBVIOUS
    <3>3. 0 \in 0..k /\ k + 1 \notin 0..k /\ 0..k \subseteq 0..(k + 1)
      OBVIOUS
    <3> QED  BY <2>1, <3>1, <3>2, <3>3
  <2>4. g[k + 1] = F[<<g[k], k + 1>>]
    <3>1. k + 1 \in 0..(k + 1) /\ k \in 0..k
      OBVIOUS
    <3>2. g[k + 1] = F[<<f[k], k + 1>>]
      BY <3>1
    <3> QED  BY <2>3, <3>1, <3>2
  <2> HIDE DEF g
  <2>5. ASSUME NEW i \in 1..(k + 1)
        PROVE  g[i] = F[<<g[i - 1], i>>]
    <3>1. CASE i = k + 1
      BY <2>4, <3>1
    <3>2. CASE i # k + 1
      <4>1. i \in 1..k /\ i \in 0..k /\ i - 1 \in 0..k
        BY <3>2
      <4> QED  BY <2>1, <2>3, <4>1
    <3> QED  BY <3>1, <3>2
  <2>6. P(k + 1)
    BY <2>3, <2>5
  <2> QED  BY <2>6
<1>3. 0..n \subseteq S
  <2> HIDE DEF S
  <2> QED  BY <1>1, <1>2, BoundedInduction
<1>4. n \in 0..n
  OBVIOUS
<1>5. n \in S
  <2> HIDE DEF S
  <2> QED  BY <1>3, <1>4
<1> QED  BY <1>5 DEF IsRun

\* f adds the elements one by one.
Keeps(f, A, s, I) ==
    /\ f \in [0..Len(s) -> Seq(A)] /\ f[0] = <<>>
    /\ \A i \in 1..Len(s) : f[i] = IF i \in I THEN Append(f[i - 1], s[i]) ELSE f[i - 1]

LEMMA KeepSteps ==
    ASSUME NEW A, NEW s \in Seq(A), NEW I
    PROVE  \E f : Keeps(f, A, s, I) /\ Keep(s, I) = f[Len(s)]
<1> DEFINE n == Len(s)
           Def(g) == [i \in 0..n |->
                        IF i = 0 THEN <<>>
                        ELSE IF i \in I THEN Append(g[i - 1], s[i]) ELSE g[i - 1]]
           kept == CHOOSE g : g = Def(g)
           F == [x \in Seq(A) \X (1..n) |->
                    IF x[2] \in I THEN Append(x[1], s[x[2]]) ELSE x[1]]
<1>1. n \in Nat /\ \A i \in 1..n : s[i] \in A
  OBVIOUS
<1>2. F \in [Seq(A) \X (1..n) -> Seq(A)] /\ <<>> \in Seq(A)
  BY <1>1
<1>3. PICK f \in [0..n -> Seq(A)] : f[0] = <<>> /\ \A i \in 1..n : f[i] = F[<<f[i - 1], i>>]
  <2> DEFINE T == Seq(A)
             none == <<>>
  <2>1. n \in Nat /\ none \in T /\ F \in Steps(T, n)
    BY <1>1, <1>2 DEF Steps
  <2> HIDE DEF F, n, T, none
  <2>2. \E f : IsRun(f, T, n, none, F)
    BY <2>1, Recursion
  <2> QED  BY <2>2 DEF T, none, IsRun
<1>4. ASSUME NEW i \in 1..n
      PROVE  f[i] = IF i \in I THEN Append(f[i - 1], s[i]) ELSE f[i - 1]
  <2>1. i - 1 \in 0..n
    BY <1>1
  <2>2. f[i - 1] \in Seq(A)
    BY <2>1, <1>3
  <2> QED  BY <2>2, <1>3
<1>5. f = Def(f)
  <2>1. DOMAIN f = 0..n /\ DOMAIN Def(f) = 0..n
    BY <1>3
  <2>2. ASSUME NEW i \in 0..n
        PROVE  f[i] = Def(f)[i]
    <3>1. CASE i = 0
      BY <1>3, <3>1
    <3>2. CASE i # 0
      <4>1. i \in 1..n
        BY <3>2
      <4> QED  BY <1>4, <3>2, <4>1
    <3> QED  BY <3>1, <3>2
  <2>3. f = [i \in 0..n |-> f[i]]
    BY <1>3
  <2> QED  BY <2>2, <2>3
<1>6. kept = Def(kept)
  <2> HIDE DEF Def
  <2> QED  BY <1>5
<1>7. \A i \in 0..n : kept[i] = f[i]
  <2> DEFINE S == {i \in 0..n : kept[i] = f[i]}
  <2>1. 0 \in S
    <3>1. 0 \in 0..n
      BY <1>1
    <3>2. kept[0] = <<>>
      <4> HIDE DEF kept
      <4> QED  BY <3>1, <1>6
    <3> QED  BY <3>1, <3>2, <1>3
  <2>2. ASSUME NEW i \in 0..(n - 1), i \in S
        PROVE  i + 1 \in S
    <3>1. i + 1 \in 1..n /\ i + 1 \in 0..n /\ (i + 1) - 1 = i /\ i + 1 # 0
      BY <1>1
    <3>2. kept[i + 1] = IF i + 1 \in I THEN Append(kept[i], s[i + 1]) ELSE kept[i]
      <4> HIDE DEF kept
      <4> QED  BY <3>1, <1>6
    <3>3. f[i + 1] = IF i + 1 \in I THEN Append(f[i], s[i + 1]) ELSE f[i]
      BY <3>1, <1>4
    <3> QED  BY <2>2, <3>1, <3>2, <3>3
  <2>3. 0..n \subseteq S
    <3> HIDE DEF S, n
    <3> QED  BY <1>1, <2>1, <2>2, BoundedInduction
  <2> QED  BY <2>3
<1>8. Keep(s, I) = kept[n]
  BY DEF Keep
<1>9. Keep(s, I) = f[n]
  <2> HIDE DEF kept
  <2>1. n \in 0..n
    BY <1>1
  <2> QED  BY <2>1, <1>7, <1>8
<1> QED  BY <1>3, <1>4, <1>9 DEF Keeps

-----------------------------------------------------------------------------
(* Filtering.                                                              *)

\* p lists the n elements of a set of naturals in their order.
Lists(p, n, I) ==
    /\ p \in [1..n -> I]
    /\ \A j, k \in 1..n : j < k => p[j] < p[k]
    /\ \A i \in I : \E k \in 1..n : p[k] = i

\* The list of a set and of a greater number.
LEMMA ListMore ==
    ASSUME NEW n \in Nat, NEW I \in SUBSET Nat, NEW p, Lists(p, n, I),
           NEW m \in Nat, \A i \in I : i < m
    PROVE  Lists([k \in 1..(n + 1) |-> IF k = n + 1 THEN m ELSE p[k]], n + 1, I \union {m})
<1> DEFINE q == [k \in 1..(n + 1) |-> IF k = n + 1 THEN m ELSE p[k]]
<1>1. \A k \in 1..n : p[k] \in I /\ q[k] = p[k] /\ k \in 1..(n + 1)
  BY DEF Lists
<1>2. n + 1 \in 1..(n + 1) /\ q[n + 1] = m /\ \A k \in 1..(n + 1) : k # n + 1 => k \in 1..n
  OBVIOUS
<1>3. q \in [1..(n + 1) -> I \union {m}]
  BY <1>1, <1>2
<1>4. ASSUME NEW j \in 1..(n + 1), NEW k \in 1..(n + 1), j < k
      PROVE  q[j] < q[k]
  <2>1. j \in 1..n
    BY <1>4
  <2>2. CASE k = n + 1
    BY <2>1, <2>2, <1>1, <1>2
  <2>3. CASE k # n + 1
    BY <2>1, <2>3, <1>1, <1>2, <1>4 DEF Lists
  <2> QED  BY <2>2, <2>3
<1>5. ASSUME NEW i \in I \union {m}
      PROVE  \E k \in 1..(n + 1) : q[k] = i
  <2>1. CASE i = m
    BY <2>1, <1>2
  <2>2. CASE i \in I
    <3>1. PICK k \in 1..n : p[k] = i
      BY <2>2 DEF Lists
    <3> QED  BY <3>1, <1>1
  <2> QED  BY <2>1, <2>2
<1> HIDE DEF q
<1>6. Lists(q, n + 1, I \union {m})
  BY <1>3, <1>4, <1>5 DEF Lists
<1> QED  BY <1>6 DEF q

IsKept(t, s, I, most) ==
    /\ Len(t) <= most
    /\ \E p : Lists(p, Len(t), I) /\ \A k \in 1..Len(t) : t[k] = s[p[k]]

\* What is kept are the elements at the given positions, each once and in order.
LEMMA KeepPositions ==
    ASSUME NEW A, NEW s \in Seq(A), NEW I \in SUBSET (1..Len(s))
    PROVE  Keep(s, I) \in Seq(A) /\ IsKept(Keep(s, I), s, I, Len(s))
<1>1. PICK f : Keeps(f, A, s, I) /\ Keep(s, I) = f[Len(s)]
  BY KeepSteps
<1> DEFINE n == Len(s)
           Upto(i) == I \intersect (1..i)
           P(i) == IsKept(f[i], s, Upto(i), i)
           S == {i \in 0..n : P(i)}
<1> USE DEF Keeps
<1>2. n \in Nat /\ \A i \in 1..n : s[i] \in A
  OBVIOUS
<1>3. 0 \in S
  <2>1. Len(f[0]) = 0 /\ Upto(0) = {}
    BY <1>1
  <2> DEFINE p == [k \in 1..0 |-> 0]
  <2>2. Lists(p, 0, {})
    BY DEF Lists
  <2> HIDE DEF p
  <2>3. P(0)
    BY <2>1, <2>2 DEF IsKept
  <2> QED  BY <2>3, <1>2
<1>4. ASSUME NEW i \in 0..(n - 1), i \in S
      PROVE  i + 1 \in S
  <2>1. i \in 0..n /\ i \in Nat /\ i + 1 \in 1..n /\ i + 1 \in 0..n /\ (i + 1) - 1 = i
    BY <1>2
  <2>2. f[i] \in Seq(A) /\ Len(f[i]) \in Nat /\ s[i + 1] \in A
    BY <2>1, <1>1, <1>2
  <2>3. PICK p : /\ Lists(p, Len(f[i]), Upto(i))
                 /\ \A k \in 1..Len(f[i]) : f[i][k] = s[p[k]]
    BY <1>4 DEF IsKept
  <2>4. Len(f[i]) <= i
    BY <1>4 DEF IsKept
  <2>5. CASE i + 1 \in I
    <3>1. f[i + 1] = Append(f[i], s[i + 1])
      BY <2>1, <2>5, <1>1
    <3>2. Len(f[i + 1]) = Len(f[i]) + 1
      BY <3>1, <2>2
    <3>3. Upto(i + 1) = Upto(i) \union {i + 1}
      BY <2>1, <2>5
    <3> DEFINE q == [k \in 1..(Len(f[i]) + 1) |-> IF k = Len(f[i]) + 1 THEN i + 1 ELSE p[k]]
    <3>4. Lists(q, Len(f[i]) + 1, Upto(i) \union {i + 1})
      <4>1. Upto(i) \in SUBSET Nat /\ i + 1 \in Nat /\ \A x \in Upto(i) : x < i + 1
        BY <2>1
      <4> HIDE DEF Upto, n
      <4> QED  BY <4>1, <2>2, <2>3, ListMore
    <3>5. ASSUME NEW k \in 1..(Len(f[i]) + 1)
          PROVE  f[i + 1][k] = s[q[k]]
      <4>1. CASE k = Len(f[i]) + 1
        BY <4>1, <3>1, <2>2
      <4>2. CASE k # Len(f[i]) + 1
        <5>1. k \in 1..Len(f[i])
          BY <4>2, <2>2
        <5>2. f[i + 1][k] = f[i][k]
          BY <5>1, <3>1, <2>2
        <5> QED  BY <5>1, <5>2, <4>2, <2>3
      <4> QED  BY <4>1, <4>2
    <3> HIDE DEF q
    <3>6. P(i + 1)
      <4>1. Len(f[i + 1]) <= i + 1
        BY <3>2, <2>1, <2>2, <2>4
      <4>2. Lists(q, Len(f[i + 1]), Upto(i + 1))
        BY <3>2, <3>3, <3>4
      <4>3. \A k \in 1..Len(f[i + 1]) : f[i + 1][k] = s[q[k]]
        BY <3>2, <3>5
      <4> QED  BY <4>1, <4>2, <4>3, Zenon DEF IsKept
    <3> QED  BY <3>6, <2>1
  <2>6. CASE i + 1 \notin I
    <3>1. f[i + 1] = f[i] /\ Upto(i + 1) = Upto(i)
      BY <2>1, <2>6, <1>1
    <3>2. P(i + 1)
      <4> HIDE DEF Upto, n, Keeps
      <4> QED  BY <3>1, <2>1, <2>2, <2>3, <2>4 DEF IsKept
    <3> QED  BY <3>2, <2>1
  <2> QED  BY <2>5, <2>6
<1>5. 0..n \subseteq S
  <2> HIDE DEF S, n
  <2> QED  BY <1>2, <1>3, <1>4, BoundedInduction
<1>6. n \in 0..n /\ Upto(n) = I
  <2>1. n \in 0..n
    BY <1>2
  <2>2. \A i \in I : i \in 1..n
    OBVIOUS
  <2>3. Upto(n) = I
    BY <2>2
  <2> QED  BY <2>1, <2>3
<1>7. n \in S /\ f[n] \in Seq(A)
  <2> HIDE DEF S
  <2> QED  BY <1>1, <1>5, <1>6
<1>8. IsKept(f[n], s, I, n)
  BY <1>6, <1>7
<1> QED
  BY <1>1, <1>7, <1>8

\* What is kept, as a set.
LEMMA KeepElements ==
    ASSUME NEW A, NEW s \in Seq(A), NEW I \in SUBSET (1..Len(s))
    PROVE  ToSet(Keep(s, I)) = {s[i] : i \in I}
<1>1. Keep(s, I) \in Seq(A) /\ IsKept(Keep(s, I), s, I, Len(s))
  BY KeepPositions
<1> DEFINE t == Keep(s, I)
           n == Len(t)
<1>2. PICK p : Lists(p, n, I) /\ \A k \in 1..n : t[k] = s[p[k]]
  BY <1>1 DEF IsKept
<1>3. DOMAIN t = 1..n /\ ToSet(t) = {t[k] : k \in 1..n}
  BY <1>1 DEF ToSet
<1> HIDE DEF t, n
<1>4. {t[k] : k \in 1..n} = {s[i] : i \in I}
  BY <1>2 DEF Lists
<1> QED  BY <1>3, <1>4 DEF t

\* The list of the first elements of a set is how the list of the set begins.
LEMMA ListPrefix ==
    ASSUME NEW n \in Nat, NEW m \in Nat, NEW J \in SUBSET Nat, NEW I \in SUBSET J,
           \A i \in I, j \in J : j <= i => j \in I,
           NEW p, NEW q, Lists(p, n, I), Lists(q, m, J)
    PROVE  n <= m /\ \A k \in 1..n : p[k] = q[k]
<1> DEFINE Agree(k) == k <= n /\ k <= m => k = 0 \/ p[k] = q[k]
           S == {k \in Nat : \A j \in 0..k : Agree(j)}
<1>1. 0 \in S
  OBVIOUS
<1>2. ASSUME NEW k \in Nat, k \in S
      PROVE  k + 1 \in S
  <2>1. ASSUME k + 1 <= n, k + 1 <= m
        PROVE  p[k + 1] = q[k + 1]
    <3>1. k + 1 \in 1..n /\ k + 1 \in 1..m
      BY <2>1
    <3>2. p[k + 1] \in I /\ q[k + 1] \in J /\ p[k + 1] \in Nat /\ q[k + 1] \in Nat
      BY <3>1 DEF Lists
    <3>3. PICK i \in 1..m : q[i] = p[k + 1]
      BY <3>2 DEF Lists
    <3>5. i > k
      <4>1. SUFFICES ASSUME i <= k
                     PROVE  FALSE
        BY <3>3
      <4>2. i \in 0..k /\ i \in 1..n /\ p[i] = q[i]
        BY <4>1, <2>1, <1>2
      <4>3. p[i] < p[k + 1]
        BY <4>1, <4>2, <3>1 DEF Lists
      <4>4. p[i] \in Nat
        BY <4>2 DEF Lists
      <4> QED  BY <4>2, <4>3, <4>4, <3>3
    <3>6. q[k + 1] <= p[k + 1]
      BY <3>1, <3>2, <3>3, <3>5 DEF Lists
    <3>4. PICK j \in 1..n : p[j] = q[k + 1]
      <4>1. q[k + 1] \in I
        BY <3>2, <3>6
      <4> QED  BY <4>1 DEF Lists
    <3>7. j > k
      <4>1. SUFFICES ASSUME j <= k
                     PROVE  FALSE
        BY <3>4
      <4>2. j \in 0..k /\ j \in 1..m /\ p[j] = q[j]
        BY <4>1, <2>1, <1>2
      <4>3. q[j] < q[k + 1]
        BY <4>1, <4>2, <3>1 DEF Lists
      <4>4. q[j] \in Nat
        BY <4>2 DEF Lists
      <4> QED  BY <4>2, <4>3, <4>4, <3>4
    <3>8. p[k + 1] <= q[k + 1]
      BY <3>1, <3>2, <3>4, <3>7 DEF Lists
    <3> QED  BY <3>2, <3>6, <3>8
  <2>2. Agree(k + 1)
    BY <2>1
  <2>3. \A j \in 0..(k + 1) : j \in 0..k \/ j = k + 1
    OBVIOUS
  <2>4. \A j \in 0..k : Agree(j)
    BY <1>2
  <2> HIDE DEF Agree
  <2> QED  BY <2>2, <2>3, <2>4
<1>3. Nat \subseteq S
  <2> HIDE DEF S
  <2> QED  BY <1>1, <1>2, Induction
<1>4. ASSUME NEW k \in Nat, k # 0, k <= n, k <= m
      PROVE  p[k] = q[k]
  <2>1. k \in S /\ k \in 0..k
    BY <1>3
  <2>2. Agree(k)
    BY <2>1
  <2> QED  BY <2>2, <1>4
<1>5. ~(m < n)
  <2> SUFFICES ASSUME m < n
               PROVE  FALSE
    OBVIOUS
  <2>0. m + 1 \in 1..n
    OBVIOUS
  <2>1. m + 1 \in 1..n /\ p[m + 1] \in J
    BY <2>0 DEF Lists
  <2>2. PICK j \in 1..m : q[j] = p[m + 1]
    BY <2>1 DEF Lists
  <2>3. j \in 1..n /\ p[j] = q[j] /\ j < m + 1
    BY <2>2, <1>4
  <2>4. p[j] < p[m + 1] /\ p[j] \in Nat
    BY <2>1, <2>3 DEF Lists
  <2> QED  BY <2>2, <2>3, <2>4
<1>6. n <= m
  BY <1>5
<1> QED  BY <1>4, <1>6

\* The list of a set and then of greater numbers.
LEMMA ListJoin ==
    ASSUME NEW n \in Nat, NEW m \in Nat, NEW I \in SUBSET Nat, NEW J \in SUBSET Nat,
           NEW p, NEW r, Lists(p, n, I), Lists(r, m, J), \A i \in I, j \in J : i < j
    PROVE  Lists([k \in 1..(n + m) |-> IF k <= n THEN p[k] ELSE r[k - n]], n + m, I \union J)
<1> DEFINE q == [k \in 1..(n + m) |-> IF k <= n THEN p[k] ELSE r[k - n]]
<1>1. \A k \in 1..n : k \in 1..(n + m) /\ q[k] = p[k] /\ p[k] \in I
  BY DEF Lists
<1>2. \A k \in 1..m : /\ n + k \in 1..(n + m) /\ ~(n + k <= n) /\ (n + k) - n = k
                      /\ q[n + k] = r[k] /\ r[k] \in J
  BY DEF Lists
<1>3. \A k \in 1..(n + m) : k \in 1..n \/ \E j \in 1..m : k = n + j
  <2> SUFFICES ASSUME NEW k \in 1..(n + m), ~(k \in 1..n)
               PROVE  k - n \in 1..m /\ k = n + (k - n)
    OBVIOUS
  <2> QED  OBVIOUS
<1> HIDE DEF q
<1>4. \A k \in 1..(n + m) : q[k] \in I \union J
  BY <1>1, <1>2, <1>3
<1>5. q \in [1..(n + m) -> I \union J]
  BY <1>4 DEF q
<1>6. ASSUME NEW j \in 1..(n + m), NEW k \in 1..(n + m), j < k
      PROVE  q[j] < q[k]
  <2>1. CASE k \in 1..n
    <3>1. j \in 1..n
      BY <1>6, <2>1
    <3> QED  BY <1>1, <1>6, <2>1, <3>1 DEF Lists
  <2>2. ASSUME NEW x \in 1..m, k = n + x
        PROVE  q[j] < q[k]
    <3>1. CASE j \in 1..n
      BY <1>1, <1>2, <2>2, <3>1
    <3>2. ASSUME NEW y \in 1..m, j = n + y
          PROVE  q[j] < q[k]
      <4>1. y < x
        BY <1>6, <2>2, <3>2
      <4>2. r[y] < r[x]
        BY <4>1 DEF Lists
      <4> QED  BY <1>2, <2>2, <3>2, <4>2
    <3> QED  BY <1>3, <3>1, <3>2
  <2> QED  BY <1>3, <2>1, <2>2
<1>7. ASSUME NEW i \in I \union J
      PROVE  \E k \in 1..(n + m) : q[k] = i
  <2>1. CASE i \in I
    BY <1>1, <2>1 DEF Lists
  <2>2. CASE i \in J
    <3>1. PICK k \in 1..m : r[k] = i
      BY <2>2 DEF Lists
    <3> QED  BY <1>2, <3>1
  <2> QED  BY <2>1, <2>2
<1>8. Lists(q, n + m, I \union J)
  BY <1>5, <1>6, <1>7 DEF Lists
<1> QED  BY <1>8 DEF q

\* Two lists of one set are the same.
LEMMA ListUnique ==
    ASSUME NEW n \in Nat, NEW m \in Nat, NEW I \in SUBSET Nat, NEW p, NEW q,
           Lists(p, n, I), Lists(q, m, I)
    PROVE  n = m /\ \A k \in 1..n : p[k] = q[k]
<1>1. n <= m /\ \A k \in 1..n : p[k] = q[k]
  BY ListPrefix
<1>2. m <= n
  BY ListPrefix
<1> QED  BY <1>1, <1>2

\* The length of a list counts its set.
LEMMA ListCounts ==
    ASSUME NEW n \in Nat, NEW I \in SUBSET Nat, NEW p, Lists(p, n, I)
    PROVE  Cardinality(I) = n
<1>1. \A j, k \in 1..n : p[j] = p[k] => j = k
  <2> SUFFICES ASSUME NEW j \in 1..n, NEW k \in 1..n, p[j] = p[k], j < k
               PROVE  FALSE
    OBVIOUS
  <2>1. p[j] < p[k] /\ p[j] \in Nat
    BY DEF Lists
  <2> QED  BY <2>1
<1>2. p \in Bijection(1..n, I)
  BY <1>1 DEF Lists, Bijection, Injection, Surjection, IsInjective
<1> QED  BY <1>2, FS_CountingElements DEF ExistsBijection

\* What Only keeps, as a set; and elements that differ still do.
LEMMA OnlyThose ==
    ASSUME NEW A, NEW s \in Seq(A), NEW T
    PROVE  /\ Only(s, T) \in Seq(A) /\ ToSet(Only(s, T)) = ToSet(s) \intersect T
           /\ IsInjective(s) => IsInjective(Only(s, T))
<1> DEFINE I == {i \in DOMAIN s : s[i] \in T}
           t == Keep(s, I)
           n == Len(t)
<1>1. I \in SUBSET (1..Len(s)) /\ DOMAIN s = 1..Len(s)
  OBVIOUS
<1>2. t \in Seq(A) /\ IsKept(t, s, I, Len(s)) /\ ToSet(t) = {s[i] : i \in I}
  BY <1>1, KeepPositions, KeepElements
<1>3. PICK p : Lists(p, n, I) /\ \A k \in 1..n : t[k] = s[p[k]]
  BY <1>2 DEF IsKept
<1>4. DOMAIN t = 1..n /\ n \in Nat
  BY <1>2
<1>5. ToSet(t) = ToSet(s) \intersect T
  BY <1>2 DEF ToSet
<1> HIDE DEF t, n
<1>6. ASSUME IsInjective(s), NEW j \in 1..n, NEW k \in 1..n, t[j] = t[k]
      PROVE  j = k
  <2>1. p[j] \in I /\ p[k] \in I /\ s[p[j]] = s[p[k]]
    BY <1>3, <1>6 DEF Lists
  <2>2. p[j] = p[k]
    BY <1>6, <2>1 DEF IsInjective
  <2>3. p[j] \in Nat
    BY <1>1, <2>1
  <2>4. ~(j < k) /\ ~(k < j)
    BY <1>3, <2>2, <2>3 DEF Lists
  <2> QED  BY <2>4
<1>7. IsInjective(s) => IsInjective(t)
  BY <1>4, <1>6 DEF IsInjective
<1> QED  BY <1>2, <1>5, <1>7 DEF Only, t

\* Elements that differ are as many as the sequence is long.
LEMMA DifferentElements ==
    ASSUME NEW A, NEW s \in Seq(A), IsInjective(s)
    PROVE  IsFiniteSet(ToSet(s)) /\ Cardinality(ToSet(s)) = Len(s) /\ Len(s) \in Nat
<1>1. DOMAIN s = 1..Len(s) /\ Len(s) \in Nat
  OBVIOUS
<1>2. s \in Bijection(1..Len(s), ToSet(s))
  BY <1>1 DEF Bijection, Injection, Surjection, IsInjective, ToSet
<1>3. ExistsBijection(1..Len(s), ToSet(s)) /\ IsFiniteSet(1..Len(s))
  BY <1>1, <1>2, FS_Interval DEF ExistsBijection
<1> QED  BY <1>1, <1>3, FS_CountingElements, FS_Bijection

\* The elements of two sequences in one.
LEMMA JoinedElements ==
    ASSUME NEW A, NEW s \in Seq(A), NEW t \in Seq(A)
    PROVE  s \o t \in Seq(A) /\ ToSet(s \o t) = ToSet(s) \union ToSet(t)
<1> DEFINE u == s \o t
<1>1. /\ u \in Seq(A) /\ DOMAIN u = 1..(Len(s) + Len(t)) /\ Len(s) \in Nat /\ Len(t) \in Nat
      /\ DOMAIN s = 1..Len(s) /\ DOMAIN t = 1..Len(t)
  OBVIOUS
<1>2. \A i \in DOMAIN u : u[i] = IF i <= Len(s) THEN s[i] ELSE t[i - Len(s)]
  OBVIOUS
<1> HIDE DEF u
<1>3. ASSUME NEW i \in DOMAIN u
      PROVE  u[i] \in ToSet(s) \union ToSet(t)
  <2>1. CASE i <= Len(s)
    BY <1>1, <1>2, <2>1 DEF ToSet
  <2>2. CASE ~(i <= Len(s))
    <3>1. i - Len(s) \in DOMAIN t
      BY <1>1, <2>2
    <3> QED  BY <1>2, <2>2, <3>1 DEF ToSet
  <2> QED  BY <2>1, <2>2
<1>4. ASSUME NEW k \in DOMAIN s
      PROVE  s[k] \in ToSet(u)
  <2>1. k \in DOMAIN u /\ k <= Len(s)
    BY <1>1
  <2> QED  BY <1>2, <2>1 DEF ToSet
<1>5. ASSUME NEW k \in DOMAIN t
      PROVE  t[k] \in ToSet(u)
  <2>1. Len(s) + k \in DOMAIN u /\ ~(Len(s) + k <= Len(s)) /\ (Len(s) + k) - Len(s) = k
    BY <1>1
  <2>2. u[Len(s) + k] = t[k]
    BY <1>2, <2>1
  <2> QED  BY <2>1, <2>2 DEF ToSet
<1>6. ToSet(u) \subseteq ToSet(s) \union ToSet(t)
  BY <1>3 DEF ToSet
<1>7. ToSet(s) \subseteq ToSet(u)
  BY <1>4 DEF ToSet
<1>8. ToSet(t) \subseteq ToSet(u)
  BY <1>5 DEF ToSet
<1> QED  BY <1>1, <1>6, <1>7, <1>8 DEF u

\* The elements of sequences that are put one after the other.
LEMMA Flattening ==
    ASSUME NEW A, NEW seqs \in Seq(Seq(A))
    PROVE  /\ FlattenSeq(seqs) \in Seq(A)
           /\ ToSet(FlattenSeq(seqs)) = UNION {ToSet(seqs[i]) : i \in DOMAIN seqs}
<1> DEFINE n == Len(seqs)
           Def(g) == [i \in 1..n |-> IF i = 1 THEN seqs[i] ELSE g[i - 1] \o seqs[i]]
           flatten == CHOOSE g : g = Def(g)
           F == [x \in Seq(A) \X (1..n) |-> x[1] \o seqs[x[2]]]
           All(i) == UNION {ToSet(seqs[j]) : j \in 1..i}
<1>1. n \in Nat /\ DOMAIN seqs = 1..n /\ \A i \in 1..n : seqs[i] \in Seq(A)
  OBVIOUS
<1>2. CASE n = 0
  <2>1. seqs = <<>> /\ FlattenSeq(seqs) = seqs
    BY <1>2 DEF FlattenSeq
  <2>2. DOMAIN seqs = {} /\ seqs \in Seq(A)
    BY <1>1, <1>2, <2>1
  <2>3. ToSet(seqs) = {} /\ UNION {ToSet(seqs[i]) : i \in DOMAIN seqs} = {}
    BY <2>2 DEF ToSet
  <2> QED  BY <2>1, <2>2, <2>3
<1>3. CASE n # 0
  <2>1. PICK f \in [0..n -> Seq(A)] : f[0] = <<>> /\ \A i \in 1..n : f[i] = F[<<f[i - 1], i>>]
    <3> DEFINE T == Seq(A)
               none == <<>>
    <3>1. n \in Nat /\ none \in T /\ F \in Steps(T, n)
      BY <1>1 DEF Steps
    <3> HIDE DEF F, n, T, none
    <3>2. \E f : IsRun(f, T, n, none, F)
      BY <3>1, Recursion
    <3> QED  BY <3>2 DEF T, none, IsRun
  <2>2. ASSUME NEW i \in 1..n
        PROVE  f[i] = f[i - 1] \o seqs[i] /\ f[i - 1] \in Seq(A) /\ f[i] \in Seq(A)
    <3>1. i - 1 \in 0..n /\ i \in 0..n
      BY <1>1
    <3> QED  BY <2>1, <3>1
  <2>3. \A i \in 1..n : f[i] = IF i = 1 THEN seqs[i] ELSE f[i - 1] \o seqs[i]
    <3> SUFFICES ASSUME NEW i \in 1..n, i = 1
                 PROVE  f[i] = seqs[i]
      BY <2>2
    <3>1. f[i - 1] = <<>> /\ seqs[i] \in Seq(A)
      BY <1>1, <2>1
    <3>2. <<>> \o seqs[i] = seqs[i]
      BY <3>1
    <3>3. f[i] = f[i - 1] \o seqs[i]
      BY <2>2
    <3> QED  BY <3>1, <3>2, <3>3
  <2> DEFINE h == [i \in 1..n |-> f[i]]
  <2>4. h = Def(h)
    <3>1. \A i \in 1..n : i # 1 => i - 1 \in 1..n
      BY <1>1
    <3> HIDE DEF F, n
    <3> QED  BY <2>3, <3>1
  <2>5. flatten = Def(flatten)
    <3> HIDE DEF Def, h
    <3> QED  BY <2>4
  <2>6. \A i \in 1..n : flatten[i] = f[i]
    <3> DEFINE S == {i \in 0..n : i = 0 \/ flatten[i] = f[i]}
    <3>1. 0 \in S
      BY <1>1
    <3>2. ASSUME NEW i \in 0..(n - 1), i \in S
          PROVE  i + 1 \in S
      <4>1. i + 1 \in 1..n /\ i + 1 \in 0..n /\ (i + 1) - 1 = i /\ (i = 0 <=> i + 1 = 1)
        BY <1>1
      <4>2. flatten[i + 1] = IF i + 1 = 1 THEN seqs[i + 1] ELSE flatten[i] \o seqs[i + 1]
        <5> HIDE DEF flatten
        <5> QED  BY <4>1, <2>5
      <4>3. f[i + 1] = IF i + 1 = 1 THEN seqs[i + 1] ELSE f[i] \o seqs[i + 1]
        BY <4>1, <2>3
      <4> HIDE DEF flatten, F
      <4> QED  BY <3>2, <4>1, <4>2, <4>3
    <3>3. 0..n \subseteq S
      <4> HIDE DEF S, n
      <4> QED  BY <1>1, <3>1, <3>2, BoundedInduction
    <3>4. \A i \in 1..n : i \in 0..n /\ i # 0
      BY <1>1
    <3> HIDE DEF n, flatten
    <3> QED  BY <3>3, <3>4
  <2>7. \A i \in 0..n : ToSet(f[i]) = All(i)
    <3> DEFINE S == {i \in 0..n : ToSet(f[i]) = All(i)}
    <3>1. 0 \in S
      BY <1>1, <2>1 DEF ToSet
    <3>2. ASSUME NEW i \in 0..(n - 1), i \in S
          PROVE  i + 1 \in S
      <4>1. i + 1 \in 1..n /\ i + 1 \in 0..n /\ (i + 1) - 1 = i /\ i \in Nat
        BY <1>1
      <4>2. f[i + 1] = f[i] \o seqs[i + 1] /\ f[i] \in Seq(A) /\ seqs[i + 1] \in Seq(A)
        <5> HIDE DEF F, n
        <5> QED  BY <1>1, <2>2, <4>1
      <4>3. ToSet(f[i] \o seqs[i + 1]) = ToSet(f[i]) \union ToSet(seqs[i + 1])
        BY <4>2, JoinedElements
      <4>4. 1..(i + 1) = (1..i) \union {i + 1}
        BY <4>1
      <4>5. All(i + 1) = All(i) \union ToSet(seqs[i + 1])
        BY <4>4
      <4>6. ToSet(f[i]) = All(i)
        BY <3>2
      <4>7. ToSet(f[i + 1]) = ToSet(f[i]) \union ToSet(seqs[i + 1])
        BY <4>2, <4>3
      <4>8. ToSet(f[i + 1]) = All(i + 1)
        <5> HIDE DEF All, n
        <5> QED  BY <4>5, <4>6, <4>7
      <4> QED  BY <4>1, <4>8
    <3>3. 0..n \subseteq S
      <4> HIDE DEF S, n
      <4> QED  BY <1>1, <3>1, <3>2, BoundedInduction
    <3> HIDE DEF n, All
    <3> QED  BY <3>3
  <2>8. FlattenSeq(seqs) = flatten[n]
    BY <1>3 DEF FlattenSeq
  <2>9. n \in 1..n /\ n \in 0..n
    BY <1>1, <1>3
  <2> HIDE DEF n, flatten, F, h
  <2> QED  BY <1>1, <2>1, <2>6, <2>7, <2>8, <2>9
<1> QED  BY <1>2, <1>3

\* The elements of a sequence that is made of another, one by one.
LEMMA MappedElements ==
    ASSUME NEW A, NEW s \in Seq(A), NEW B, NEW f \in [A -> B]
    PROVE  /\ [i \in DOMAIN s |-> f[s[i]]] \in Seq(B) /\ Len([i \in DOMAIN s |-> f[s[i]]]) = Len(s)
           /\ ToSet([i \in DOMAIN s |-> f[s[i]]]) = {f[x] : x \in ToSet(s)}
<1> DEFINE t == [i \in DOMAIN s |-> f[s[i]]]
<1>1. DOMAIN s = 1..Len(s) /\ Len(s) \in Nat /\ \A i \in 1..Len(s) : s[i] \in A /\ f[s[i]] \in B
  OBVIOUS
<1>2. t \in Seq(B) /\ Len(t) = Len(s)
  BY <1>1
<1>3. DOMAIN t = DOMAIN s /\ \A i \in DOMAIN s : t[i] = f[s[i]]
  OBVIOUS
<1> HIDE DEF t
<1>4. ToSet(t) = {f[x] : x \in ToSet(s)}
  BY <1>3 DEF ToSet
<1> QED  BY <1>2, <1>4 DEF t

\* A set with one more element.
LEMMA OneMore ==
    ASSUME NEW S, IsFiniteSet(S), NEW d
    PROVE  IsFiniteSet(S \union {d}) /\ Cardinality(S \union {d}) <= Cardinality(S) + 1
<1>1. Cardinality(S) \in Nat
  BY FS_CardinalityType
<1> QED  BY <1>1, FS_AddElement

-----------------------------------------------------------------------------
(* Folding.                                                                *)

\* g folds every set of positions from the least to the greatest.
IsFold(g, A, n, a, F) ==
    /\ g \in [SUBSET (1..n) -> A] /\ g[{}] = a
    /\ \A T \in SUBSET (1..n) : T # {} => g[T] = F[<<g[T \ {Max(T)}], Max(T)>>]

LEMMA Folding ==
    ASSUME NEW n \in Nat, NEW A, NEW a \in A, NEW F \in Steps(A, n)
    PROVE  \E g : IsFold(g, A, n, a, F)
<1> DEFINE Fun(k) == [SUBSET (1..k) -> A]
           Fold(g, k) == /\ g \in Fun(k) /\ g[{}] = a
                         /\ \A T \in SUBSET (1..k) :
                               T # {} => g[T] = F[<<g[T \ {Max(T)}], Max(T)>>]
           S == {k \in 0..n : \E g : Fold(g, k)}
<1>1. 0 \in S
  <2> DEFINE g == [T \in SUBSET (1..0) |-> a]
  <2>1. SUBSET (1..0) = {{}}
    OBVIOUS
  <2>2. g \in Fun(0) /\ g[{}] = a
    OBVIOUS
  <2> HIDE DEF g
  <2>3. Fold(g, 0)
    BY <2>1, <2>2
  <2> HIDE DEF Fold
  <2> QED  BY <2>3
<1>2. ASSUME NEW k \in 0..(n - 1), k \in S
      PROVE  k + 1 \in S
  <2>1. PICK g : Fold(g, k)
    BY <1>2
  <2> DEFINE h == [T \in SUBSET (1..(k + 1)) |->
                      IF k + 1 \in T THEN F[<<g[T \ {k + 1}], k + 1>>] ELSE g[T]]
  <2>2. k + 1 \in 1..n /\ k + 1 \in 0..n /\ k \in Nat
    OBVIOUS
  <2>3. ASSUME NEW T \in SUBSET (1..(k + 1))
        PROVE  T \ {k + 1} \in SUBSET (1..k)
    BY <2>2
  <2>4. ASSUME NEW T \in SUBSET (1..k)
        PROVE  T \in SUBSET (1..(k + 1)) /\ k + 1 \notin T /\ h[T] = g[T] /\ g[T] \in A
    <3>1. T \in SUBSET (1..(k + 1)) /\ k + 1 \notin T
      BY <2>2
    <3> QED  BY <3>1, <2>1
  <2>5. ASSUME NEW T \in SUBSET (1..(k + 1)), k + 1 \in T
        PROVE  /\ Max(T) = k + 1
               /\ h[T] = F[<<h[T \ {Max(T)}], Max(T)>>]
               /\ h[T] \in A
    <3>1. \A i \in T : i \in Nat /\ i <= k + 1
      BY <2>2
    <3>2. T \in SUBSET (0..(k + 1)) /\ T # {} /\ k + 1 \in Nat
      BY <2>5, <2>2
    <3>3. Max(T) \in T /\ k + 1 <= Max(T)
      BY <3>2, <2>5, MaxOfBounded
    <3>4. Max(T) = k + 1
      <4> DEFINE m == Max(T)
      <4>1. m \in Nat /\ m <= k + 1 /\ k + 1 <= m
        BY <3>1, <3>3
      <4> HIDE DEF m
      <4>2. m = k + 1
        BY <4>1, <2>2
      <4> QED  BY <4>2 DEF m
    <3>5. h[T \ {k + 1}] = g[T \ {k + 1}] /\ g[T \ {k + 1}] \in A
      BY <2>3, <2>4
    <3>6. h[T] = F[<<g[T \ {k + 1}], k + 1>>]
      BY <2>5
    <3>7. F[<<g[T \ {k + 1}], k + 1>>] \in A
      BY <3>5, <2>2 DEF Steps
    <3> QED  BY <3>4, <3>5, <3>6, <3>7
  <2>6. ASSUME NEW T \in SUBSET (1..(k + 1)), k + 1 \notin T
        PROVE  T \in SUBSET (1..k)
    BY <2>6, <2>3
  <2>7. h = [T \in SUBSET (1..(k + 1)) |-> h[T]]
    OBVIOUS
  <2> HIDE DEF h
  <2>8. h \in Fun(k + 1)
    BY <2>4, <2>5, <2>6, <2>7
  <2>9. h[{}] = a
    BY <2>1, <2>4
  <2>10. ASSUME NEW T \in SUBSET (1..(k + 1)), T # {}
         PROVE  h[T] = F[<<h[T \ {Max(T)}], Max(T)>>]
    <3>1. CASE k + 1 \in T
      BY <3>1, <2>5
    <3>2. CASE k + 1 \notin T
      <4>1. T \in SUBSET (1..k) /\ T \ {Max(T)} \in SUBSET (1..k)
        BY <3>2, <2>6
      <4>2. g[T] = F[<<g[T \ {Max(T)}], Max(T)>>]
        BY <4>1, <2>1, <2>10
      <4> QED  BY <4>1, <4>2, <2>4
    <3> QED  BY <3>1, <3>2
  <2>11. Fold(h, k + 1)
    BY <2>8, <2>9, <2>10
  <2> HIDE DEF Fold
  <2> QED  BY <2>2, <2>11
<1>3. 0..n \subseteq S
  <2> HIDE DEF S
  <2> QED  BY <1>1, <1>2, BoundedInduction
<1>4. n \in 0..n
  OBVIOUS
<1>5. PICK g : Fold(g, n)
  <2> HIDE DEF Fold
  <2> QED  BY <1>3, <1>4
<1>6. IsFold(g, A, n, a, F)
  BY <1>5 DEF IsFold
<1> QED  BY <1>6

\* The last of the first i positions.
LEMMA MaxOfInitial ==
    ASSUME NEW n \in Nat, NEW i \in 1..n
    PROVE  /\ 1..i \in SUBSET (1..n) /\ 1..i # {} /\ Max(1..i) = i
           /\ (1..i) \ {i} = 1..(i - 1) /\ 1..(i - 1) \in SUBSET (1..n)
<1>1. 1..i \in SUBSET (0..n) /\ i \in 1..i
  OBVIOUS
<1>2. Max(1..i) \in 1..i /\ i <= Max(1..i)
  BY <1>1, MaxOfBounded
<1> QED  BY <1>1, <1>2

================================================================================
