----------------------------- MODULE MatcherProofs -----------------------------
(***************************************************************************)
(* What the operators of the matcher compute, for any graph and any answer *)
(* of the language model: the elements of each list, the order of the list *)
(* that is shown, and what the lists of a prompt have in common with the   *)
(* rules.                                                                  *)
(***************************************************************************)
EXTENDS Matcher, SequenceProofs

(* The order of the list that is shown.                                    *)

\* A sequence of suggestions, of which only the confidences have a type.
IsScored(all, n) ==
    DOMAIN all = 1..n /\ \A i \in 1..n : all[i].confidence \in Int

\* The position that a suggestion gets among those that are kept.
Rank(all, i) == Cardinality(Ahead(all, i)) + 1

\* A suggestion that is ahead of another has the lower rank, and one of two is ahead.
LEMMA RanksDiffer ==
    ASSUME NEW n \in Nat, NEW all, IsScored(all, n)
    PROVE  /\ Kept(all) \subseteq 1..n /\ IsFiniteSet(Kept(all)) /\ Cardinality(Kept(all)) \in Nat
           /\ \A i \in Kept(all) : Rank(all, i) \in 1..Cardinality(Kept(all))
           /\ \A i, j \in Kept(all) :
                /\ i \in Ahead(all, j) => Rank(all, i) < Rank(all, j)
                /\ i \in Ahead(all, j) \/ j \in Ahead(all, i) \/ i = j
<1> DEFINE K == Kept(all)
           C(i) == all[i].confidence
           A(i) == {j \in K : C(j) > C(i) \/ (C(j) = C(i) /\ j < i)}
<1>1. K \subseteq 1..n /\ \A i \in K : i \in Int /\ C(i) \in Int
  BY DEF IsScored, Kept
<1>2. IsFiniteSet(K) /\ Cardinality(K) \in Nat
  <2>1. IsFiniteSet(1..n)
    BY FS_Interval
  <2> HIDE DEF K
  <2> QED  BY <1>1, <2>1, FS_Subset, FS_CardinalityType
<1>3. \A i : Ahead(all, i) = A(i)
  BY DEF Ahead
<1> HIDE DEF K, C
<1>4. \A i \in K : A(i) \in SUBSET (K \ {i})
  BY <1>1
<1>5. ASSUME NEW i \in K, NEW j \in K, i \in A(j)
      PROVE  A(i) \union {i} \in SUBSET A(j) /\ i \notin A(i)
  <2>1. i \in Int /\ j \in Int /\ C(i) \in Int /\ C(j) \in Int
    BY <1>1
  <2>2. C(i) > C(j) \/ (C(i) = C(j) /\ i < j)
    BY <1>5
  <2>3. ASSUME NEW k \in A(i)
        PROVE  k \in A(j)
    <3>1. k \in K /\ k \in Int /\ C(k) \in Int
      BY <1>1
    <3>2. C(k) > C(i) \/ (C(k) = C(i) /\ k < i)
      OBVIOUS
    <3>3. C(k) > C(j) \/ (C(k) = C(j) /\ k < j)
      BY <2>1, <2>2, <3>1, <3>2
    <3> QED  BY <3>1, <3>3
  <2>4. i \notin A(i)
    BY <2>1
  <2> QED  BY <1>5, <2>3, <2>4
<1>6. \A i, j \in K : i \in A(j) \/ j \in A(i) \/ i = j
  BY <1>1
<1> HIDE DEF A
<1>7. \A i \in K : IsFiniteSet(A(i)) /\ Cardinality(A(i)) \in 0..(Cardinality(K) - 1)
  <2> SUFFICES ASSUME NEW i \in K
               PROVE  IsFiniteSet(A(i)) /\ Cardinality(A(i)) \in 0..(Cardinality(K) - 1)
    OBVIOUS
  <2>1. IsFiniteSet(K \ {i}) /\ Cardinality(K \ {i}) = Cardinality(K) - 1
    BY <1>2, FS_RemoveElement
  <2>2. IsFiniteSet(A(i)) /\ Cardinality(A(i)) <= Cardinality(K \ {i})
    BY <1>4, <2>1, FS_Subset
  <2>3. Cardinality(A(i)) \in Nat
    BY <2>2, FS_CardinalityType
  <2> QED  BY <1>2, <2>1, <2>2, <2>3
<1>8. ASSUME NEW i \in K, NEW j \in K, i \in A(j)
      PROVE  Cardinality(A(i)) < Cardinality(A(j))
  <2>1. Cardinality(A(i) \union {i}) = Cardinality(A(i)) + 1
    BY <1>5, <1>7, <1>8, FS_AddElement
  <2>2. Cardinality(A(i) \union {i}) <= Cardinality(A(j))
    BY <1>5, <1>7, <1>8, FS_Subset
  <2> QED  BY <1>7, <2>1, <2>2
<1>9. \A i \in K : Rank(all, i) = Cardinality(A(i)) + 1
  BY <1>3 DEF Rank
<1>10. \A i \in K : Rank(all, i) \in 1..Cardinality(K)
  BY <1>2, <1>7, <1>9
<1>11. \A i, j \in K : i \in A(j) => Rank(all, i) < Rank(all, j)
  BY <1>7, <1>8, <1>9
<1> QED  BY <1>1, <1>2, <1>3, <1>6, <1>10, <1>11 DEF K

\* r puts the kept suggestions in an order of confidence.
Orders(r, all, m) ==
    /\ r \in [1..m -> Kept(all)]
    /\ \A i \in Kept(all) : \E k \in 1..m : r[k] = i
    /\ \A j, k \in 1..m : j < k => /\ r[j] # r[k]
                                   /\ all[r[j]].confidence >= all[r[k]].confidence

\* The sorted list is the kept suggestions in such an order.
LEMMA SortedIs ==
    ASSUME NEW n \in Nat, NEW all, IsScored(all, n)
    PROVE  \E m \in Nat : \E r \in [1..m -> Kept(all)] :
              Orders(r, all, m) /\ Sorted(all) = [k \in 1..m |-> all[r[k]]]
<1> DEFINE K == Kept(all)
           m == Cardinality(K)
           at(k) == CHOOSE i \in K : Cardinality(Ahead(all, i)) = k - 1
           r == [k \in 1..m |-> at(k)]
<1>1. /\ K \subseteq 1..n /\ IsFiniteSet(K) /\ m \in Nat
      /\ \A i \in K : Rank(all, i) \in 1..m
      /\ \A i, j \in K : /\ i \in Ahead(all, j) => Rank(all, i) < Rank(all, j)
                         /\ i \in Ahead(all, j) \/ j \in Ahead(all, i) \/ i = j
  BY RanksDiffer
<1>2. \A k \in 1..m : \E i \in K : Rank(all, i) = k
  <2> DEFINE f == [i \in K |-> Rank(all, i)]
  <2>1. \A i, j \in K : Rank(all, i) = Rank(all, j) => i = j
    <3> SUFFICES ASSUME NEW i \in K, NEW j \in K, Rank(all, i) = Rank(all, j), i # j
                 PROVE  FALSE
      OBVIOUS
    <3>1. Rank(all, i) < Rank(all, j) \/ Rank(all, j) < Rank(all, i)
      BY <1>1
    <3>2. Rank(all, i) \in Int
      <4> HIDE DEF K, m
      <4> QED  BY <1>1
    <3> QED  BY <3>1, <3>2
  <2>2. IsFiniteSet(1..m) /\ Cardinality(1..m) = m
    BY <1>1, FS_Interval
  <2> HIDE DEF K, m
  <2>3. f \in Injection(K, 1..m)
    BY <1>1, <2>1 DEF Injection, IsInjective
  <2>4. f \in Surjection(K, 1..m)
    BY <2>2, <2>3, FS_Injection DEF m
  <2> QED  BY <2>4 DEF Surjection
<1>3. \A k \in 1..m : r[k] \in K /\ Rank(all, r[k]) = k
  <2> SUFFICES ASSUME NEW k \in 1..m
               PROVE  at(k) \in K /\ Rank(all, at(k)) = k
    OBVIOUS
  <2>1. PICK i \in K : Rank(all, i) = k
    BY <1>2
  <2>2. \A j \in K : Cardinality(Ahead(all, j)) \in Int
    <3>1. \A j \in K : IsFiniteSet(Ahead(all, j))
      <4> HIDE DEF K
      <4>1. \A j : Ahead(all, j) \in SUBSET K
        BY DEF Ahead, K
      <4> QED  BY <1>1, <4>1, FS_Subset
    <3> QED  BY <3>1, FS_CardinalityType
  <2>3. Cardinality(Ahead(all, i)) = k - 1
    <3> HIDE DEF K, m
    <3> QED  BY <2>1, <2>2 DEF Rank
  <2>4. at(k) \in K /\ Cardinality(Ahead(all, at(k))) = k - 1
    <3> HIDE DEF K, m
    <3> QED  BY <2>3
  <2> HIDE DEF at, K, m
  <2> QED  BY <2>4 DEF Rank
<1>4. \A i \in K : \A k \in 1..m : Rank(all, i) = k => r[k] = i
  <2> SUFFICES ASSUME NEW i \in K, NEW k \in 1..m, Rank(all, i) = k, r[k] # i
               PROVE  FALSE
    OBVIOUS
  <2> HIDE DEF K, m, r
  <2>1. r[k] \in K /\ Rank(all, r[k]) = k
    BY <1>3
  <2>2. k < k
    BY <1>1, <2>1
  <2> QED  BY <2>2
<1>5. \A j, k \in 1..m : j < k => r[j] \in Ahead(all, r[k]) /\ r[j] # r[k]
  <2> SUFFICES ASSUME NEW j \in 1..m, NEW k \in 1..m, j < k
               PROVE  r[j] \in Ahead(all, r[k]) /\ r[j] # r[k]
    OBVIOUS
  <2> HIDE DEF K, m, r
  <2>1. /\ r[j] \in K /\ Rank(all, r[j]) = j /\ r[k] \in K /\ Rank(all, r[k]) = k
    BY <1>3
  <2>2. r[k] \in Ahead(all, r[j]) => k < j
    BY <1>1, <2>1
  <2>3. r[j] # r[k] /\ ~(k < j)
    BY <2>1
  <2> QED  BY <1>1, <2>1, <2>2, <2>3
<1>6. \A i \in K : all[i].confidence \in Int
  BY DEF IsScored, Kept
<1>7. \A i, j \in K : i \in Ahead(all, j) => all[i].confidence >= all[j].confidence
  <2> SUFFICES ASSUME NEW i \in K, NEW j \in K, i \in Ahead(all, j)
               PROVE  all[i].confidence >= all[j].confidence
    OBVIOUS
  <2>1. all[i].confidence > all[j].confidence \/ all[i].confidence = all[j].confidence
    BY DEF Ahead
  <2>2. all[i].confidence \in Int /\ all[j].confidence \in Int
    BY <1>6
  <2> QED  BY <2>1, <2>2
<1>8. Sorted(all) = [k \in 1..m |-> all[r[k]]]
  BY DEF Sorted
<1> HIDE DEF r, m
<1>9. r \in [1..m -> K]
  BY <1>3 DEF r
<1>10. Orders(r, all, m)
  <2>1. \A i \in K : \E k \in 1..m : r[k] = i
    BY <1>1, <1>4
  <2>2. \A j, k \in 1..m : j < k => r[j] # r[k] /\ all[r[j]].confidence >= all[r[k]].confidence
    BY <1>3, <1>5, <1>7
  <2> QED  BY <1>9, <2>1, <2>2 DEF Orders
<1> QED  BY <1>1, <1>8, <1>9, <1>10 DEF K

\* What a list that is cut is.
LEMMA TakeIs ==
    ASSUME NEW A, NEW s \in Seq(A), NEW n \in Nat
    PROVE  /\ Take(s, n) \in Seq(A) /\ DOMAIN Take(s, n) = 1..Len(Take(s, n))
           /\ Len(Take(s, n)) = IF Len(s) < n THEN Len(s) ELSE n
           /\ \A i \in 1..Len(Take(s, n)) : Take(s, n)[i] = s[i]
           /\ Len(s) <= n => Take(s, n) = s
<1>1. CASE Len(s) < n
  BY <1>1 DEF Take
<1>2. CASE ~(Len(s) < n)
  BY <1>2 DEF Take
<1> QED  BY <1>1, <1>2

\* What the list that is shown is made of: the first l of an order of confidence.
IsBest(list, all, l, m, r) ==
    /\ Orders(r, all, m) /\ l \in Nat /\ l <= m
    /\ l = m \/ l = MaxSuggestions
    /\ DOMAIN list = 1..l /\ Len(list) = l /\ l <= MaxSuggestions
    /\ \A k \in 1..l : list[k] = all[r[k]]

LEMMA RankedIs ==
    ASSUME NEW n \in Nat, NEW all, IsScored(all, n)
    PROVE  \E m \in Nat : \E l, r : IsBest(Ranked(all), all, l, m, r)
<1>1. PICK m \in Nat : \E r \in [1..m -> Kept(all)] :
              Orders(r, all, m) /\ Sorted(all) = [k \in 1..m |-> all[r[k]]]
  BY SortedIs
<1>2. PICK r : Orders(r, all, m) /\ Sorted(all) = [k \in 1..m |-> all[r[k]]]
  BY <1>1
<1> DEFINE s == Sorted(all)
           A == {all[i] : i \in Kept(all)}
           list == Take(s, MaxSuggestions)
           l == Len(list)
<1>3. s \in Seq(A) /\ Len(s) = m
  <2>1. \A k \in 1..m : all[r[k]] \in A
    BY <1>2 DEF Orders
  <2> HIDE DEF A
  <2> QED  BY <1>2, <2>1
<1>4. MaxSuggestions \in Nat
  BY LimitAssumption
<1> HIDE DEF s, A
<1>5. /\ DOMAIN list = 1..Len(list) /\ Len(list) = IF Len(s) < MaxSuggestions THEN Len(s) ELSE MaxSuggestions
      /\ \A i \in 1..Len(list) : list[i] = s[i]
  BY <1>3, <1>4, TakeIs
<1> HIDE DEF list
<1>6. l \in Nat /\ l <= m /\ l <= MaxSuggestions /\ (l = m \/ l = MaxSuggestions)
  BY <1>3, <1>4, <1>5
<1>7. \A k \in 1..l : list[k] = all[r[k]]
  <2> SUFFICES ASSUME NEW k \in 1..l
               PROVE  list[k] = all[r[k]]
    OBVIOUS
  <2>1. k \in 1..m
    BY <1>6
  <2> QED  BY <1>2, <1>5, <2>1 DEF s
<1>8. IsBest(list, all, l, m, r)
  BY <1>2, <1>5, <1>6, <1>7 DEF IsBest
<1> QED  BY <1>8 DEF Ranked, list, s

\* A sequence of suggestions whose confidences are numbers.
HasScores(s) == s \in Seq(ToSet(s)) /\ \A x \in ToSet(s) : x.confidence \in Int

LEMMA JoinedScores ==
    ASSUME NEW s, NEW t, HasScores(s), HasScores(t)
    PROVE  HasScores(s \o t)
<1> DEFINE A == ToSet(s) \union ToSet(t)
<1>1. s \in Seq(A) /\ t \in Seq(A)
  BY DEF HasScores
<1>2. s \o t \in Seq(A) /\ ToSet(s \o t) = A
  BY <1>1, JoinedElements
<1> QED  BY <1>2 DEF HasScores

LEMMA Scored ==
    ASSUME NEW s, HasScores(s)
    PROVE  Len(s) \in Nat /\ IsScored(s, Len(s))
<1>1. s \in Seq(ToSet(s)) /\ \A x \in ToSet(s) : x.confidence \in Int
  BY DEF HasScores
<1>2. Len(s) \in Nat /\ DOMAIN s = 1..Len(s)
  BY <1>1
<1>3. \A i \in 1..Len(s) : s[i].confidence \in Int
  BY <1>1, <1>2 DEF ToSet
<1> QED  BY <1>2, <1>3 DEF IsScored

-----------------------------------------------------------------------------
(* What the rules find.                                                    *)

EdgeType == [from : STRING, type : STRING, to : STRING]

IsGraph(g) == g.edges \in Seq(EdgeType) /\ IsInjective(g.edges)

\* Edges of one type.
EdgeSet(g, type) == {e \in ToSet(g.edges) : e.type = type}

LEMMA EdgesAre ==
    ASSUME NEW g, IsGraph(g), NEW type
    PROVE  /\ EdgesOf(g, type) \in Seq(EdgeType) /\ IsInjective(EdgesOf(g, type))
           /\ ToSet(EdgesOf(g, type)) = EdgeSet(g, type)
<1> DEFINE T == {e \in ToSet(g.edges) : e.type = type}
<1>1. g.edges \in Seq(EdgeType) /\ IsInjective(g.edges)
  BY DEF IsGraph
<1>2. ToSet(g.edges) \intersect T = T
  OBVIOUS
<1> HIDE DEF T
<1>3. /\ Only(g.edges, T) \in Seq(EdgeType) /\ ToSet(Only(g.edges, T)) = ToSet(g.edges) \intersect T
      /\ IsInjective(Only(g.edges, T))
  BY <1>1, OnlyThose
<1> QED  BY <1>2, <1>3 DEF EdgesOf, EdgeSet, T

\* Some of them.
LEMMA SomeEdges ==
    ASSUME NEW g, IsGraph(g), NEW type, NEW T
    PROVE  /\ Only(EdgesOf(g, type), T) \in Seq(EdgeType) /\ IsInjective(Only(EdgesOf(g, type), T))
           /\ ToSet(Only(EdgesOf(g, type), T)) = EdgeSet(g, type) \intersect T
  BY EdgesAre, OnlyThose

\* The aids there are.
AidPairs(g, me) == {p \in EdgeSet(g, "needs") \X EdgeSet(g, "offers") :
                      p[1].from = me /\ p[2].from # me /\ p[2].to = p[1].to}

AidSet(g, me) == {Aid(g, me, p[1], p[2]) : p \in AidPairs(g, me)}

LEMMA AidsAre ==
    ASSUME NEW g, IsGraph(g), NEW me
    PROVE  MutualAid(g, me) \in Seq(AidSet(g, me)) /\ ToSet(MutualAid(g, me)) = AidSet(g, me)
<1> DEFINE Mine == {e \in ToSet(g.edges) : e.from = me}
           Theirs(n) == {o \in ToSet(g.edges) : o.to = n.to /\ o.from # me}
           needs == Only(EdgesOf(g, "needs"), Mine)
           offers(n) == Only(EdgesOf(g, "offers"), Theirs(n))
           aids(n) == [j \in DOMAIN offers(n) |-> Aid(g, me, n, offers(n)[j])]
           A == AidSet(g, me)
           seqs == [i \in DOMAIN needs |-> aids(needs[i])]
<1>1. needs \in Seq(EdgeType) /\ ToSet(needs) = EdgeSet(g, "needs") \intersect Mine
  BY SomeEdges
<1>2. ASSUME NEW n \in ToSet(needs)
      PROVE  /\ aids(n) \in Seq(A)
             /\ ToSet(aids(n)) = {Aid(g, me, n, o) : o \in EdgeSet(g, "offers") \intersect Theirs(n)}
  <2> DEFINE O == EdgeSet(g, "offers") \intersect Theirs(n)
             s == offers(n)
             f == [o \in O |-> Aid(g, me, n, o)]
  <2>1. s \in Seq(EdgeType) /\ ToSet(s) = O
    BY SomeEdges
  <2>2. s \in Seq(O)
    <3> HIDE DEF s, O
    <3>1. DOMAIN s = 1..Len(s) /\ Len(s) \in Nat /\ \A i \in DOMAIN s : s[i] \in O
      BY <2>1 DEF ToSet
    <3> QED  BY <2>1, <3>1
  <2>3. \A o \in O : <<n, o>> \in AidPairs(g, me)
    BY <1>1, <1>2 DEF AidPairs, EdgeSet
  <2>4. \A o \in O : Aid(g, me, n, o) \in A
    <3> HIDE DEF O
    <3> SUFFICES ASSUME NEW o \in O
                 PROVE  \E p \in AidPairs(g, me) : Aid(g, me, n, o) = Aid(g, me, p[1], p[2])
      BY DEF AidSet
    <3>1. <<n, o>> \in AidPairs(g, me) /\ <<n, o>>[1] = n /\ <<n, o>>[2] = o
      BY <2>3
    <3> QED  BY <3>1
  <2> HIDE DEF A, O, s
  <2>5. f \in [O -> A]
    BY <2>4
  <2> HIDE DEF f
  <2>6. /\ [i \in DOMAIN s |-> f[s[i]]] \in Seq(A)
        /\ ToSet([i \in DOMAIN s |-> f[s[i]]]) = {f[x] : x \in ToSet(s)}
    BY <2>2, <2>5, MappedElements
  <2>7. \A i \in DOMAIN s : s[i] \in O /\ f[s[i]] = Aid(g, me, n, s[i])
    BY <2>2 DEF f
  <2>8. [i \in DOMAIN s |-> f[s[i]]] = [i \in DOMAIN s |-> Aid(g, me, n, s[i])]
    BY <2>7
  <2>9. {f[x] : x \in ToSet(s)} = {Aid(g, me, n, o) : o \in O}
    BY <2>1 DEF f
  <2> QED  BY <2>6, <2>8, <2>9 DEF s, O
<1>3. MutualAid(g, me) = FlattenSeq(seqs)
  BY DEF MutualAid
<1> HIDE DEF needs, offers, aids, A
<1>4. /\ DOMAIN needs = 1..Len(needs) /\ Len(needs) \in Nat
      /\ ToSet(needs) = {needs[i] : i \in DOMAIN needs}
  BY <1>1 DEF ToSet
<1>5. seqs \in Seq(Seq(A)) /\ DOMAIN seqs = DOMAIN needs
  <2>1. \A i \in 1..Len(needs) : aids(needs[i]) \in Seq(A)
    BY <1>2, <1>4
  <2> QED  BY <1>4, <2>1
<1>6. \A i \in DOMAIN needs : seqs[i] = aids(needs[i])
  OBVIOUS
<1> HIDE DEF seqs
<1>7. FlattenSeq(seqs) \in Seq(A) /\ ToSet(FlattenSeq(seqs)) = UNION {ToSet(seqs[i]) : i \in DOMAIN seqs}
  BY <1>5, Flattening
<1>8. UNION {ToSet(seqs[i]) : i \in DOMAIN seqs} = UNION {ToSet(aids(n)) : n \in ToSet(needs)}
  BY <1>4, <1>5, <1>6
<1>9. UNION {ToSet(aids(n)) : n \in ToSet(needs)} \subseteq A
  <2>1. ASSUME NEW n \in ToSet(needs), NEW x \in ToSet(aids(n))
        PROVE  x \in A
    <3>1. aids(n) \in Seq(A)
      BY <1>2
    <3> QED  BY <3>1, <2>1 DEF ToSet
  <2> QED  BY <2>1
<1>10. A \subseteq UNION {ToSet(aids(n)) : n \in ToSet(needs)}
  <2>1. ASSUME NEW p \in AidPairs(g, me)
        PROVE  p[1] \in ToSet(needs) /\ Aid(g, me, p[1], p[2]) \in ToSet(aids(p[1]))
    <3>1. /\ p[1] \in EdgeSet(g, "needs") /\ p[2] \in EdgeSet(g, "offers")
          /\ p[1].from = me /\ p[2].from # me /\ p[2].to = p[1].to
      BY DEF AidPairs
    <3>2. p[1] \in Mine /\ p[2] \in Theirs(p[1])
      BY <3>1 DEF EdgeSet
    <3>3. p[1] \in ToSet(needs) /\ p[2] \in EdgeSet(g, "offers") \intersect Theirs(p[1])
      BY <1>1, <3>1, <3>2
    <3> HIDE DEF Theirs
    <3> QED  BY <1>2, <3>3
  <2> QED  BY <2>1 DEF A, AidSet
<1> QED  BY <1>3, <1>7, <1>8, <1>9, <1>10 DEF A

\* The needs that a bulk purchase serves.
Wanted(g) == {n \in {e.to : e \in EdgeSet(g, "needs")} : Len(NeedersOf(g, n)) >= 3}

BulkSet(g) == {Bulk(g, n) : n \in Wanted(g)}

LEMMA BulksAre ==
    ASSUME NEW g, IsGraph(g)
    PROVE  BulkPurchases(g) \in Seq(BulkSet(g)) /\ ToSet(BulkPurchases(g)) \subseteq BulkSet(g)
<1> DEFINE needs == EdgesOf(g, "needs")
           N == {e.to : e \in EdgeSet(g, "needs")}
           to == [i \in DOMAIN needs |-> needs[i].to]
           firsts == {i \in DOMAIN to : \A j \in 1..(i - 1) : to[j] # to[i]}
           needed == Distinct(to)
           many == {n \in ToSet(needed) : Len(NeedersOf(g, n)) >= 3}
           wanted == Only(needed, many)
           B == BulkSet(g)
           bulks == [i \in DOMAIN wanted |-> Bulk(g, wanted[i])]
<1>1. needs \in Seq(EdgeType) /\ ToSet(needs) = EdgeSet(g, "needs")
  BY EdgesAre
<1>2. to \in Seq(N)
  <2> HIDE DEF needs
  <2>1. \A i \in DOMAIN needs : needs[i].to \in N
    BY <1>1 DEF ToSet
  <2>2. DOMAIN needs = 1..Len(needs) /\ Len(needs) \in Nat
    BY <1>1
  <2> HIDE DEF N
  <2> QED  BY <2>1, <2>2
<1>3. needed \in Seq(N)
  <2> HIDE DEF to, N
  <2>1. firsts \in SUBSET (1..Len(to))
    BY <1>2
  <2>2. Keep(to, firsts) \in Seq(N)
    BY <1>2, <2>1, KeepPositions
  <2> QED  BY <2>2 DEF Distinct
<1>4. wanted \in Seq(N) /\ ToSet(wanted) = ToSet(needed) \intersect many
  <2> HIDE DEF needed, many, N
  <2> QED  BY <1>3, OnlyThose
<1>5. \A n \in ToSet(wanted) : n \in N /\ Len(NeedersOf(g, n)) >= 3
  <2>1. \A n \in ToSet(wanted) : n \in N
    <3> HIDE DEF wanted, N
    <3> QED  BY <1>4 DEF ToSet
  <2>2. \A n \in ToSet(wanted) : n \in many
    BY <1>4
  <2> QED  BY <2>1, <2>2
<1>6. \A n \in ToSet(wanted) : Bulk(g, n) \in B
  <2> HIDE DEF wanted
  <2> QED  BY <1>5 DEF BulkSet, Wanted
<1>7. bulks \in Seq(B) /\ ToSet(bulks) \subseteq B
  <2> HIDE DEF wanted, B, N, many
  <2>1. DOMAIN wanted = 1..Len(wanted) /\ Len(wanted) \in Nat
    BY <1>4
  <2>2. \A i \in DOMAIN wanted : wanted[i] \in ToSet(wanted)
    BY DEF ToSet
  <2>3. \A i \in DOMAIN wanted : Bulk(g, wanted[i]) \in B
    BY <1>6, <2>2
  <2>4. bulks \in Seq(B)
    BY <2>1, <2>3
  <2> HIDE DEF bulks
  <2> QED  BY <2>4 DEF ToSet
<1>8. BulkPurchases(g) = bulks
  BY DEF BulkPurchases
<1> QED  BY <1>7, <1>8

\* What the rules find has confidences.
LEMMA RulesHaveScores ==
    ASSUME NEW g, IsGraph(g), NEW me
    PROVE  HasScores(RuleBased(g, me))
<1>1. ASSUME NEW A, NEW s \in Seq(A), \A x \in A : x.confidence \in Int
      PROVE  HasScores(s)
  <2>1. DOMAIN s = 1..Len(s) /\ Len(s) \in Nat /\ \A i \in DOMAIN s : s[i] \in A /\ s[i] \in ToSet(s)
    BY DEF ToSet
  <2>2. s \in Seq(ToSet(s))
    BY <2>1
  <2>3. ToSet(s) \subseteq A
    BY <2>1 DEF ToSet
  <2> QED  BY <2>2, <2>3, <1>1 DEF HasScores
<1>2. HasScores(MutualAid(g, me))
  <2>1. \A x \in AidSet(g, me) : x.confidence = 85
    BY DEF AidSet, Aid
  <2>2. \A x \in AidSet(g, me) : x.confidence \in Int
    BY <2>1
  <2>3. MutualAid(g, me) \in Seq(AidSet(g, me))
    BY AidsAre
  <2> QED  BY <1>1, <2>2, <2>3
<1>3. HasScores(BulkPurchases(g))
  <2>1. \A x \in BulkSet(g) : x.confidence = 75
    BY DEF BulkSet, Bulk
  <2>2. \A x \in BulkSet(g) : x.confidence \in Int
    BY <2>1
  <2>3. BulkPurchases(g) \in Seq(BulkSet(g))
    BY BulksAre
  <2> QED  BY <1>1, <2>2, <2>3
<1> QED  BY <1>2, <1>3, JoinedScores DEF RuleBased

-----------------------------------------------------------------------------
(* What is shown.                                                          *)

\* So has what the language model answers.
ItemType ==
    [type : STRING, title : STRING, confidence : Seq(Int), named : {FALSE}] \union
    [type : STRING, title : STRING, confidence : Seq(Int), named : {TRUE}, participants : Seq(STRING)]

IsAnswer(a) == a.read => a.items \in Seq(ItemType)

LEMMA AnswersHaveScores ==
    ASSUME NEW a, IsAnswer(a), NEW me
    PROVE  HasScores(ParsedAnswer(a, me))
<1>1. CASE ~a.read
  <2>1. ParsedAnswer(a, me) = <<>>
    BY <1>1 DEF ParsedAnswer
  <2>2. ToSet(<<>>) = {} /\ <<>> \in Seq({})
    BY DEF ToSet
  <2> QED  BY <2>1, <2>2 DEF HasScores
<1>2. CASE a.read
  <2> DEFINE T == {x \in ToSet(a.items) : "absent" \notin {x.title, x.type}}
             items == Only(a.items, T)
             score(x) == IF x.confidence = <<>> THEN 60 ELSE Clamped(x.confidence[1])
             s == ParsedAnswer(a, me)
             parsed == [i \in DOMAIN items |->
                [id |-> <<"llm", i>>, type |-> items[i].type, title |-> items[i].title,
                 confidence |-> score(items[i]),
                 participants |-> IF items[i].named THEN items[i].participants ELSE <<me>>]]
  <2>1. a.items \in Seq(ItemType)
    BY <1>2 DEF IsAnswer
  <2>2. items \in Seq(ItemType)
    <3> HIDE DEF T
    <3> QED  BY <2>1, OnlyThose
  <2>3. s = parsed
    BY <1>2 DEF ParsedAnswer
  <2> HIDE DEF items, s
  <2>4. DOMAIN items = 1..Len(items) /\ Len(items) \in Nat /\ \A i \in DOMAIN items : items[i] \in ItemType
    BY <2>2
  <2>5. \A c \in Int : Clamped(c) \in Int
    BY DEF Clamped
  <2>6. \A x \in ItemType : score(x) \in Int
    <3> SUFFICES ASSUME NEW x \in ItemType, x.confidence # <<>>
                 PROVE  Clamped(x.confidence[1]) \in Int
      OBVIOUS
    <3>1. x.confidence \in Seq(Int)
      BY DEF ItemType
    <3>2. x.confidence[1] \in Int
      BY <3>1
    <3> QED  BY <2>5, <3>2
  <2> HIDE DEF score
  <2>7. /\ DOMAIN s = 1..Len(items)
        /\ \A i \in 1..Len(items) : s[i].confidence \in Int
    BY <2>3, <2>4, <2>6
  <2>8. s = [i \in 1..Len(items) |-> s[i]]
    BY <2>3, <2>4
  <2> HIDE DEF parsed
  <2>9. \A i \in 1..Len(items) : s[i] \in ToSet(s)
    BY <2>7 DEF ToSet
  <2>10. s \in Seq(ToSet(s))
    BY <2>4, <2>8, <2>9
  <2>11. \A x \in ToSet(s) : x.confidence \in Int
    BY <2>7 DEF ToSet
  <2> QED  BY <2>10, <2>11 DEF HasScores, s
<1> QED  BY <1>1, <1>2

LEMMA FoundIsScored ==
    ASSUME NEW g, IsGraph(g), NEW a, IsAnswer(a), NEW me
    PROVE  \E n \in Nat : IsScored(RuleBased(g, me) \o ParsedAnswer(a, me), n)
<1>1. HasScores(RuleBased(g, me) \o ParsedAnswer(a, me))
  BY RulesHaveScores, AnswersHaveScores, JoinedScores
<1> QED  BY <1>1, Scored

\* The list is short.
LEMMA SuggestionsAreFew ==
    ASSUME NEW g, IsGraph(g), NEW a, IsAnswer(a), NEW me
    PROVE  Len(Suggestions(g, me, a)) <= MaxSuggestions
<1> DEFINE all == RuleBased(g, me) \o ParsedAnswer(a, me)
<1>1. PICK n \in Nat : IsScored(all, n)
  BY FoundIsScored
<1> HIDE DEF all
<1>2. PICK m \in Nat : \E l, r : IsBest(Ranked(all), all, l, m, r)
  BY <1>1, RankedIs
<1>3. Len(Ranked(all)) <= MaxSuggestions
  BY <1>2 DEF IsBest
<1>4. Len(<<>>) <= MaxSuggestions
  BY LimitAssumption
<1> QED  BY <1>3, <1>4 DEF Suggestions, all

-----------------------------------------------------------------------------
(* What the language model is told.                                        *)

\* The edges to nodes that exist, mine and the others'.
LEMMA LinkedAre ==
    ASSUME NEW g, IsGraph(g), NEW type, NEW me, NEW mine \in BOOLEAN
    PROVE  /\ Linked(g, type, me, mine) \in Seq(EdgeType) /\ IsInjective(Linked(g, type, me, mine))
           /\ \A e : e \in ToSet(Linked(g, type, me, mine)) <=>
                /\ e \in EdgeSet(g, type) /\ e.to \in DOMAIN g.nodes
                /\ e.from = me <=> mine
<1> DEFINE T == {e \in ToSet(g.edges) : e.to \in DOMAIN g.nodes /\ (e.from = me) = mine}
           U == {e \in EdgeSet(g, type) : e.to \in DOMAIN g.nodes /\ (e.from = me <=> mine)}
<1>1. EdgeSet(g, type) \intersect T = U
  <2>1. \A e : (e.from = me) = mine <=> (e.from = me <=> mine)
    OBVIOUS
  <2> QED  BY <2>1 DEF EdgeSet
<1> HIDE DEF T, U
<1>2. /\ Only(EdgesOf(g, type), T) \in Seq(EdgeType) /\ IsInjective(Only(EdgesOf(g, type), T))
      /\ ToSet(Only(EdgesOf(g, type), T)) = EdgeSet(g, type) \intersect T
  BY SomeEdges
<1> QED  BY <1>1, <1>2 DEF Linked, T, U

\* What the user `me` needs or offers, and the labels that the prompt lists of it.
OwnEdges(g, type, me) == {e \in EdgeSet(g, type) : e.to \in DOMAIN g.nodes /\ e.from = me}

LEMMA OwnLabels ==
    ASSUME NEW g, IsGraph(g), NEW type, NEW me
    PROVE  {x.title : x \in ToSet(Listed(g, type, me, TRUE))}
             = {SummaryLabel(g, e.to) : e \in OwnEdges(g, type, me)}
<1> DEFINE own == Linked(g, type, me, TRUE)
           list == Listed(g, type, me, TRUE)
<1>1. TRUE \in BOOLEAN
  OBVIOUS
<1>2. \A e : e \in ToSet(own) <=> e \in EdgeSet(g, type) /\ e.to \in DOMAIN g.nodes /\ (e.from = me <=> TRUE)
  BY <1>1, LinkedAre
<1>3. list = [i \in DOMAIN own |-> [user |-> own[i].from, title |-> SummaryLabel(g, own[i].to)]]
  BY DEF Listed
<1> HIDE DEF own, list
<1>4. ToSet(own) = OwnEdges(g, type, me)
  BY <1>2 DEF OwnEdges
<1>5. DOMAIN list = DOMAIN own /\ \A i \in DOMAIN own : list[i].title = SummaryLabel(g, own[i].to)
  BY <1>3
<1>6. {x.title : x \in ToSet(list)} = {SummaryLabel(g, e.to) : e \in ToSet(own)}
  BY <1>5 DEF ToSet
<1> QED  BY <1>4, <1>6 DEF list

\* A list that is not cut has an entry for each of them.
LEMMA ListedAre ==
    ASSUME NEW g, IsGraph(g), NEW type, NEW me, NEW mine \in BOOLEAN, NEW limit \in Nat,
           Len(Listed(g, type, me, mine)) <= limit,
           NEW e \in EdgeSet(g, type), e.to \in DOMAIN g.nodes, e.from = me <=> mine
    PROVE  [user |-> e.from, title |-> SummaryLabel(g, e.to)] \in ToSet(Take(Listed(g, type, me, mine), limit))
<1> DEFINE of == Linked(g, type, me, mine)
           entry(i) == [user |-> of[i].from, title |-> SummaryLabel(g, of[i].to)]
           A == {entry(i) : i \in DOMAIN of}
           list == Listed(g, type, me, mine)
<1>1. of \in Seq(EdgeType) /\ e \in ToSet(of)
  BY LinkedAre
<1>2. list = [i \in DOMAIN of |-> entry(i)]
  BY DEF Listed
<1> HIDE DEF of, list
<1>3. DOMAIN of = 1..Len(of) /\ Len(of) \in Nat
  BY <1>1
<1>4. list \in Seq(A)
  <2>1. \A i \in 1..Len(of) : entry(i) \in A
    BY <1>3
  <2> HIDE DEF A, entry
  <2> QED  BY <1>2, <1>3, <2>1
<1>5. PICK i \in DOMAIN of : of[i] = e
  BY <1>1 DEF ToSet
<1>6. i \in DOMAIN list /\ list[i] = [user |-> e.from, title |-> SummaryLabel(g, e.to)]
  BY <1>2, <1>5
<1> HIDE DEF A
<1>7. Take(list, limit) = list
  BY <1>4, TakeIs DEF list
<1> QED  BY <1>6, <1>7 DEF ToSet, list

\* As many users as edges, of which no two are the same.
LEMMA UsersAreCounted ==
    ASSUME NEW s \in Seq(EdgeType), IsInjective(s)
    PROVE  /\ IsFiniteSet(ToSet(s)) /\ Cardinality(ToSet(s)) \in Nat
           /\ Len(UsersOf(s)) = Cardinality(ToSet(s))
<1>1. IsFiniteSet(ToSet(s)) /\ Cardinality(ToSet(s)) = Len(s) /\ Len(s) \in Nat
  BY DifferentElements
<1>2. DOMAIN s = 1..Len(s)
  OBVIOUS
<1>3. Len(UsersOf(s)) = Len(s)
  <2> DEFINE u == UsersOf(s)
  <2>1. u = [i \in 1..Len(s) |-> s[i].from]
    BY <1>2 DEF UsersOf
  <2>2. u \in Seq({s[i].from : i \in 1..Len(s)})
    BY <1>1, <2>1
  <2>3. DOMAIN u = 1..Len(u) /\ Len(u) \in Nat /\ DOMAIN u = 1..Len(s)
    BY <2>1, <2>2
  <2> HIDE DEF u
  <2>4. Len(u) = Len(s)
    BY <1>1, <2>1, <2>2
  <2> QED  BY <2>4 DEF u
<1> QED  BY <1>1, <1>3

\* The need that a bulk purchase serves is an aggregated one, with one user less at most.
LEMMA BulksAreTold ==
    ASSUME NEW g, IsGraph(g), NEW n \in Wanted(g), n \in DOMAIN g.nodes, NEW me
    PROVE  \E a \in AggregatedNeeds(g, me) :
              a.need = SummaryLabel(g, n) /\ Len(a.users) \in Nat /\ Len(a.users) + 1 >= Len(NeedersOf(g, n))
<1> DEFINE t == SummaryLabel(g, n)
           named == Linked(g, "needs", me, FALSE)
           same == {e \in ToSet(named) : SummaryLabel(g, e.to) = t}
           D == {e \in EdgeSet(g, "needs") : e.to = n}
           users == UsersOf(Only(named, same))
<1>1. /\ named \in Seq(EdgeType) /\ IsInjective(named)
      /\ ToSet(named) = {e \in EdgeSet(g, "needs") : e.to \in DOMAIN g.nodes /\ e.from # me}
  <2>1. FALSE \in BOOLEAN
    OBVIOUS
  <2>2. /\ named \in Seq(EdgeType) /\ IsInjective(named)
        /\ \A e : e \in ToSet(named) <=>
              e \in EdgeSet(g, "needs") /\ e.to \in DOMAIN g.nodes /\ e.from # me
    BY <2>1, LinkedAre
  <2> HIDE DEF named
  <2> QED  BY <2>2
<1>2. /\ IsFiniteSet(same) /\ Cardinality(same) \in Nat /\ Len(users) = Cardinality(same)
  <2>1. ToSet(named) \intersect same = same
    OBVIOUS
  <2> HIDE DEF named, same
  <2>2. /\ Only(named, same) \in Seq(EdgeType) /\ IsInjective(Only(named, same))
        /\ ToSet(Only(named, same)) = ToSet(named) \intersect same
    BY <1>1, OnlyThose
  <2> QED  BY <2>1, <2>2, UsersAreCounted
<1>3. Len(NeedersOf(g, n)) = Cardinality(D) /\ IsFiniteSet(D) /\ Cardinality(D) \in Nat
  <2> DEFINE T == {e \in ToSet(g.edges) : e.to = n}
  <2>1. EdgeSet(g, "needs") \intersect T = D
    BY DEF EdgeSet
  <2>2. NeedersOf(g, n) = UsersOf(Only(EdgesOf(g, "needs"), T))
    BY DEF NeedersOf
  <2> HIDE DEF T, D
  <2>3. /\ Only(EdgesOf(g, "needs"), T) \in Seq(EdgeType) /\ IsInjective(Only(EdgesOf(g, "needs"), T))
        /\ ToSet(Only(EdgesOf(g, "needs"), T)) = EdgeSet(g, "needs") \intersect T
    BY SomeEdges
  <2> QED  BY <2>1, <2>2, <2>3, UsersAreCounted
<1> DEFINE d == [from |-> me, type |-> "needs", to |-> n]
<1>4. D \in SUBSET (same \union {d})
  <2> SUFFICES ASSUME NEW e \in D, e \notin same
               PROVE  e = d
    OBVIOUS
  <2>1. e \in EdgeSet(g, "needs") /\ e.to = n /\ e.type = "needs"
    BY DEF EdgeSet
  <2>2. e.from = me
    BY <1>1, <2>1
  <2>3. e \in EdgeType
    <3>1. g.edges \in Seq(EdgeType)
      BY DEF IsGraph
    <3>2. \A i \in DOMAIN g.edges : g.edges[i] \in EdgeType
      BY <3>1
    <3> QED  BY <2>1, <3>2 DEF EdgeSet, ToSet
  <2> QED  BY <2>1, <2>2, <2>3 DEF EdgeType
<1> HIDE DEF D, d
<1>5. Cardinality(D) <= Cardinality(same) + 1
  <2> HIDE DEF same
  <2>1. IsFiniteSet(same \union {d}) /\ Cardinality(same \union {d}) <= Cardinality(same) + 1
    BY <1>2, OneMore
  <2>2. Cardinality(D) <= Cardinality(same \union {d})
    BY <1>4, <2>1, FS_Subset
  <2>3. Cardinality(same \union {d}) \in Nat
    BY <2>1, FS_CardinalityType
  <2> QED  BY <1>2, <1>3, <2>1, <2>2, <2>3
<1>6. Len(NeedersOf(g, n)) >= 3
  BY DEF Wanted
<1>7. Len(users) >= 2
  <2> HIDE DEF users, same
  <2> QED  BY <1>2, <1>3, <1>5, <1>6
<1>8. same # {}
  <2> HIDE DEF same, users
  <2> QED  BY <1>2, <1>7, FS_EmptySet
<1>9. t \in {SummaryLabel(g, e.to) : e \in ToSet(named)}
  BY <1>8
<1>10. [need |-> t, users |-> users] \in AggregatedNeeds(g, me)
  <2> DEFINE us(x) == UsersOf(Only(named, {e \in ToSet(named) : SummaryLabel(g, e.to) = x}))
  <2>1. us(t) = users
    OBVIOUS
  <2>2. AggregatedNeeds(g, me) =
          {[need |-> x, users |-> us(x)] :
             x \in {s \in {SummaryLabel(g, e.to) : e \in ToSet(named)} : Len(us(s)) >= 2}}
    BY DEF AggregatedNeeds, SharedNeeds
  <2> HIDE DEF us, users, t, named
  <2> QED  BY <1>7, <1>9, <2>1, <2>2
<1> DEFINE a == [need |-> t, users |-> users]
<1>11. a.need = t /\ a.users = users
  OBVIOUS
<1> HIDE DEF users, same, a
<1> QED  BY <1>2, <1>3, <1>5, <1>10, <1>11 DEF a
================================================================================
