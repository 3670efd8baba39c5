------------------------------- MODULE SyncProofs -------------------------------
(***************************************************************************)
(* What a filter promises to the peer that answers with it, what a session *)
(* and its answer keep while logs grow, and what a subscription says of    *)
(* the sessions of its node.                                               *)
(***************************************************************************)
EXTENDS Sync, SequenceProofs

-----------------------------------------------------------------------------
(* The filter.                                                             *)

\* Every position is one of the array.
LEMMA PosInArray ==
    ASSUME NEW hash \in Hashes, NEW seed \in Seeds
    PROVE  /\ Pos(hash, seed) \in Nat
           /\ Pos(hash, seed) % 8 \in 0..7
           /\ Pos(hash, seed) \div 8 \in 0..(Bytes - 1)
<1> DEFINE raw == SimpleHash[<<hash, seed>>]
           size == 8 * Bytes
           p == raw % size
<1>1. raw \in Nat
  BY <<hash, seed>> \in Hashes \X Seeds, BloomAssumption
<1>2. Bytes \in Nat /\ Bytes > 0
  BY BloomAssumption
<1>3. size \in Nat /\ size > 0
  BY <1>2
<1>4. p \in 0..(size - 1)
  <2> HIDE DEF raw, size
  <2> QED  BY <1>1, <1>3
<1>5. p \in Nat /\ p % 8 \in 0..7 /\ p \div 8 \in 0..(Bytes - 1)
  <2> HIDE DEF p
  <2> QED  BY <1>2, <1>4
<1> QED  BY <1>5 DEF Pos

\* A peer that answers a sync.request never takes for missing what went into
\* the filter, whatever simpleHash computes and however small the array is:
\* bloomContains finds every hash that buildBloomFilter was given.
THEOREM NoFalseNegatives ==
    ASSUME NEW hashes \in SUBSET Hashes, NEW hash \in hashes
    PROVE  BloomContains(BuildBloomFilter(hashes), hash)
<1> SUFFICES ASSUME NEW seed \in Seeds
             PROVE  Pos(hash, seed) % 8
                        \in BuildBloomFilter(hashes)[Pos(hash, seed) \div 8]
  BY DEF BloomContains
<1> DEFINE byte == Pos(hash, seed) \div 8
<1>1. hash \in Hashes
  OBVIOUS
<1>2. byte \in 0..(Bytes - 1) /\ Pos(hash, seed) % 8 \in 0..7
  BY <1>1, PosInArray
<1>3. BuildBloomFilter(hashes)[byte]
        = {bit \in 0..7 : \E h \in hashes, s \in Seeds :
                              Pos(h, s) \div 8 = byte /\ Pos(h, s) % 8 = bit}
  BY <1>2 DEF BuildBloomFilter
<1> QED  BY <1>2, <1>3

\* Filters only grow: what a larger filter does not contain, a smaller one does
\* not contain either, so that a hash which is found falsely once is found
\* falsely by every later request of the same node.
THEOREM FiltersGrow ==
    ASSUME NEW few \in SUBSET Hashes, NEW many \in SUBSET Hashes, few \subseteq many,
           NEW hash \in Hashes, BloomContains(BuildBloomFilter(few), hash)
    PROVE  BloomContains(BuildBloomFilter(many), hash)
<1> SUFFICES ASSUME NEW seed \in Seeds
             PROVE  Pos(hash, seed) % 8
                        \in BuildBloomFilter(many)[Pos(hash, seed) \div 8]
  BY DEF BloomContains
<1> DEFINE byte == Pos(hash, seed) \div 8
<1>1. byte \in 0..(Bytes - 1) /\ Pos(hash, seed) % 8 \in BuildBloomFilter(few)[byte]
  BY PosInArray DEF BloomContains
<1>2. BuildBloomFilter(few)[byte] \subseteq BuildBloomFilter(many)[byte]
  BY <1>1 DEF BuildBloomFilter
<1> QED  BY <1>1, <1>2

-----------------------------------------------------------------------------
(* The adapter.                                                            *)

Chain == [last : 0..MaxEvents, spent : SUBSET (1..MaxEvents)]

\* A chain, whose events have all spent their nonces.
GoodChain(chain) == chain \in Chain /\ 1..chain.last \subseteq chain.spent

Grown(old, new) == old.last <= new.last /\ old.spent \subseteq new.spent

\* Admit keeps what a chain has and spends the nonce of the event.
LEMMA AdmitGrows ==
    ASSUME NEW chain, GoodChain(chain), NEW e \in 1..MaxEvents
    PROVE  /\ GoodChain(Admit(chain, e)) /\ Grown(chain, Admit(chain, e))
           /\ e \in Admit(chain, e).spent
<1> DEFINE new == Admit(chain, e)
<1>1. chain.last \in 0..MaxEvents /\ chain.spent \in SUBSET (1..MaxEvents)
  BY DEF GoodChain, Chain
<1>2. CASE e \in chain.spent
  <2>1. new = chain
    BY <1>2 DEF Admit
  <2> QED  BY <1>1, <1>2, <2>1 DEF Grown
<1>3. CASE e \notin chain.spent
  <2>1. new = [last |-> IF e = chain.last + 1 THEN e ELSE chain.last,
               spent |-> chain.spent \union {e}]
    BY <1>3 DEF Admit
  <2>2. /\ new.last = IF e = chain.last + 1 THEN e ELSE chain.last
        /\ new.spent = chain.spent \union {e}
    BY <2>1
  <2>3. new \in Chain /\ chain.last <= new.last
    BY <1>1, <2>1 DEF Chain
  <2>4. \A i \in 1..new.last : i \in 1..chain.last \/ i = e
    BY <1>1, <2>2
  <2>5. 1..new.last \subseteq new.spent
    BY <2>2, <2>4 DEF GoodChain
  <2> QED  BY <2>2, <2>3, <2>5 DEF GoodChain, Grown
<1> QED  BY <1>2, <1>3

\* FoldLeft admits the events one by one.
LEMMA ApplySteps ==
    ASSUME NEW chain, GoodChain(chain), NEW events \in Seq(1..MaxEvents)
    PROVE  \E f : /\ f[0] = chain
                  /\ \A i \in 1..Len(events) : f[i] = Admit(f[i - 1], events[i])
                  /\ FoldLeft(Admit, chain, events) = f[Len(events)]
<1> DEFINE A == {x \in Chain : GoodChain(x)}
           n == Len(events)
           F == [x \in A \X (1..n) |-> Admit(x[1], events[x[2]])]
           Def(g) == [T \in SUBSET (1..n) |->
                        IF T = {} THEN chain
                        ELSE Admit(g[T \ {Max(T)}], events[Max(T)])]
           iter == CHOOSE g : g = Def(g)
<1>1. n \in Nat /\ DOMAIN events = 1..n /\ \A i \in 1..n : events[i] \in 1..MaxEvents
  BY SyncAssumption
<1>2. chain \in A
  BY DEF GoodChain
<1>3. F \in Steps(A, n)
  <2>1. \A x \in A, i \in 1..n : Admit(x, events[i]) \in A
    BY <1>1, AdmitGrows DEF GoodChain
  <2> HIDE DEF A
  <2> QED  BY <2>1 DEF Steps
<1>4. PICK g : IsFold(g, A, n, chain, F)
  <2> HIDE DEF A, F, n
  <2> QED  BY <1>1, <1>2, <1>3, Folding
<1>5. g = Def(g)
  <2>1. ASSUME NEW T \in SUBSET (1..n), T # {}
        PROVE  g[T] = Admit(g[T \ {Max(T)}], events[Max(T)])
    <3>1. T \in SUBSET (0..n)
      BY <1>1
    <3>2. Max(T) \in 1..n
      BY <1>1, <2>1, <3>1, MaxOfBounded
    <3>3. g[T \ {Max(T)}] \in A /\ g[T] = F[<<g[T \ {Max(T)}], Max(T)>>]
      <4> HIDE DEF A, F
      <4> QED  BY <1>4, <2>1 DEF IsFold
    <3> HIDE DEF A
    <3> QED  BY <3>2, <3>3
  <2>2. g[{}] = chain /\ g = [T \in SUBSET (1..n) |-> g[T]]
    BY <1>4 DEF IsFold
  <2> HIDE DEF A, F
  <2> QED  BY <2>1, <2>2
<1>6. iter = Def(iter)
  <2> HIDE DEF Def
  <2> QED  BY <1>5
<1>7. FoldLeft(Admit, chain, events) = iter[1..n]
  BY <1>1 DEF FoldLeft, MapThenFoldSet
<1> HIDE DEF iter
<1> DEFINE f == [i \in 0..n |-> iter[1..i]]
<1>8. f[0] = chain
  <2>1. 1..0 = {} /\ 0 \in 0..n /\ {} \in SUBSET (1..n)
    BY <1>1
  <2>2. iter[{}] = chain
    BY <2>1, <1>6
  <2> QED  BY <2>1, <2>2
<1>9. ASSUME NEW i \in 1..n
      PROVE  f[i] = Admit(f[i - 1], events[i])
  <2>1. i \in 0..n /\ i - 1 \in 0..n
    BY <1>1
  <2>2. /\ 1..i \in SUBSET (1..n) /\ 1..i # {} /\ Max(1..i) = i
        /\ (1..i) \ {i} = 1..(i - 1)
    <3> HIDE DEF n
    <3> QED  BY <1>1, MaxOfInitial
  <2>3. iter[1..i] = Admit(iter[(1..i) \ {Max(1..i)}], events[Max(1..i)])
    BY <2>2, <1>6
  <2> QED  BY <2>1, <2>2, <2>3
<1>10. f[n] = iter[1..n]
  BY <1>1
<1> HIDE DEF f
<1> QED  BY <1>7, <1>8, <1>9, <1>10

\* Applying events keeps what a chain has and spends the nonces of all of them.
LEMMA ApplyGrows ==
    ASSUME NEW chain, GoodChain(chain), NEW events \in Seq(1..MaxEvents)
    PROVE  LET new == FoldLeft(Admit, chain, events)
           IN  GoodChain(new) /\ Grown(chain, new) /\ ToSet(events) \subseteq new.spent
<1> DEFINE n == Len(events)
           Good(x, i) == /\ GoodChain(x) /\ Grown(chain, x)
                         /\ \A j \in 1..i : events[j] \in x.spent
<1>1. n \in Nat /\ \A i \in 1..n : events[i] \in 1..MaxEvents
  BY SyncAssumption
<1>2. PICK f : /\ f[0] = chain
               /\ \A i \in 1..n : f[i] = Admit(f[i - 1], events[i])
               /\ FoldLeft(Admit, chain, events) = f[n]
  BY ApplySteps
<1> DEFINE S == {i \in 0..n : Good(f[i], i)}
<1>3. 0 \in S
  <2>1. chain.last \in Int
    BY DEF GoodChain, Chain
  <2> QED  BY <2>1, <1>2, <1>1 DEF Grown
<1>4. ASSUME NEW i \in 0..(n - 1), i \in S
      PROVE  i + 1 \in S
  <2>1. i + 1 \in 1..n /\ i + 1 \in 0..n /\ (i + 1) - 1 = i
    BY <1>1
  <2>2. f[i + 1] = Admit(f[i], events[i + 1]) /\ events[i + 1] \in 1..MaxEvents
    BY <2>1, <1>2, <1>1
  <2>3. /\ GoodChain(f[i + 1]) /\ Grown(f[i], f[i + 1]) /\ events[i + 1] \in f[i + 1].spent
    BY <2>2, <1>4, AdmitGrows
  <2>4. Grown(chain, f[i + 1])
    BY <2>3, <1>4 DEF GoodChain, Grown, Chain
  <2>5. \A j \in 1..(i + 1) : j \in 1..i \/ j = i + 1
    BY <2>1
  <2>6. \A j \in 1..(i + 1) : events[j] \in f[i + 1].spent
    BY <2>3, <2>5, <1>4 DEF Grown
  <2> QED  BY <2>1, <2>3, <2>4, <2>6
<1>5. 0..n \subseteq S
  <2> HIDE DEF S, n
  <2> QED  BY <1>1, <1>3, <1>4, BoundedInduction
<1>6. Good(f[n], n)
  <2>1. n \in 0..n
    BY <1>1
  <2> QED  BY <2>1, <1>5
<1>7. ToSet(events) = {events[j] : j \in 1..n}
  BY DEF ToSet
<1> QED  BY <1>2, <1>6, <1>7

-----------------------------------------------------------------------------
(* The snapshots of an answer.                                             *)

Snapshots == [events : Seq(1..MaxEvents), has_more : BOOLEAN]

AnswerRecord ==
    [pc : {"asked", "comparing", "sending", "done"}, known : 0..MaxEvents,
     missing : Seq(1..MaxEvents), sent : Seq(Snapshots)]

\* The snapshots of an answer cut what it sends, and before the last of them some
\* of it was left.
Cut(a) ==
    /\ a.pc \in {"asked", "comparing"} => Len(a.missing) = 0 /\ Len(a.sent) = 0
    /\ Len(a.missing) <= MaxEvents
    /\ \A i \in 1..Len(a.sent) : a.sent[i] = Snapshot(a.missing, (i - 1) * ChunkSize)
    /\ Len(a.sent) > 1 => (Len(a.sent) - 1) * ChunkSize < Len(a.missing)
    /\ a.pc = "sending" /\ Len(a.sent) > 0 => Len(a.sent) * ChunkSize < Len(a.missing)

LEMMA Chunks ==
    ASSUME NEW i \in Nat
    PROVE  /\ i * ChunkSize \in Nat /\ (i + 1) * ChunkSize = i * ChunkSize + ChunkSize
           /\ \A j \in Nat : i < j => i * ChunkSize + ChunkSize <= j * ChunkSize
<1>1. ChunkSize \in Nat /\ ChunkSize > 0
  BY SyncAssumption
<1>2. i * ChunkSize \in Nat /\ (i + 1) * ChunkSize = i * ChunkSize + ChunkSize
  BY <1>1
<1>3. ASSUME NEW j \in Nat, i < j
      PROVE  i * ChunkSize + ChunkSize <= j * ChunkSize
  <2> DEFINE d == j - i - 1
  <2>1. d \in Nat /\ j = (i + 1) + d
    BY <1>3
  <2> HIDE DEF d
  <2>2. j * ChunkSize = (i + 1) * ChunkSize + d * ChunkSize /\ d * ChunkSize \in Nat
    BY <1>1, <2>1
  <2> QED  BY <1>1, <1>2, <2>2
<1> QED  BY <1>2, <1>3

LEMMA Quotient ==
    ASSUME NEW x \in Nat, NEW m \in Nat, x * ChunkSize <= m
    PROVE  x <= m \div ChunkSize
<1>1. ChunkSize \in Nat /\ ChunkSize > 0
  BY SyncAssumption
<1> DEFINE q == m \div ChunkSize
<1>2. q \in Nat /\ m < q * ChunkSize + ChunkSize
  BY <1>1
<1> HIDE DEF q
<1>3. ASSUME q < x
      PROVE  FALSE
  <2>1. q * ChunkSize + ChunkSize <= x * ChunkSize
    BY <1>2, <1>3, Chunks
  <2>2. q * ChunkSize \in Nat /\ x * ChunkSize \in Nat
    BY <1>2, Chunks
  <2> QED  BY <1>1, <1>2, <2>1, <2>2
<1> QED  BY <1>2, <1>3 DEF q

\* The events of a snapshot, and whether it says that there are more.
LEMMA SnapshotTyped ==
    ASSUME NEW missing \in Seq(1..MaxEvents), NEW i \in Nat
    PROVE  /\ Snapshot(missing, i) \in Snapshots
           /\ ToSet(Snapshot(missing, i).events) \subseteq ToSet(missing)
<1> DEFINE n == Len(missing)
           to == IF i + ChunkSize < n THEN i + ChunkSize ELSE n
           events == SubSeq(missing, i + 1, to)
<1>1. n \in Nat /\ DOMAIN missing = 1..n /\ \A k \in 1..n : missing[k] \in 1..MaxEvents
  BY SyncAssumption
<1>2. ChunkSize \in Nat
  BY SyncAssumption
<1> HIDE DEF n
<1>3. to \in Nat /\ to <= n
  BY <1>1, <1>2
<1> HIDE DEF to
<1>4. \A k \in (i + 1)..to : k \in 1..n
  BY <1>1, <1>3
<1>5. \A k \in (i + 1)..to : missing[k] \in ToSet(missing)
  BY <1>1, <1>4 DEF ToSet
<1>6. events \in Seq(ToSet(missing)) /\ events \in Seq(1..MaxEvents)
  <2>1. i + 1 \in Int /\ to \in Int
    BY <1>3
  <2>2. \A k \in (i + 1)..to : missing[k] \in 1..MaxEvents
    BY <1>1, <1>4
  <2>3. events \in Seq(ToSet(missing))
    BY <2>1, <1>5, SubSeqProperties
  <2>4. events \in Seq(1..MaxEvents)
    BY <2>1, <2>2, SubSeqProperties
  <2> QED  BY <2>3, <2>4
<1>7. ToSet(events) \subseteq ToSet(missing)
  <2> HIDE DEF events
  <2> QED  BY <1>6 DEF ToSet
<1>8. Snapshot(missing, i) = [events |-> events, has_more |-> i + ChunkSize < n]
  BY DEF Snapshot, Slice, to, n
<1> HIDE DEF events
<1>9. (i + ChunkSize < n) \in BOOLEAN
  BY <1>1, <1>2
<1> QED  BY <1>6, <1>7, <1>8, <1>9 DEF Snapshots

\* An answer has no more snapshots than there are names for.
LEMMA FewSnapshots ==
    ASSUME NEW a \in AnswerRecord, Cut(a)
    PROVE  Len(a.sent) \in 0..MaxSnapshots
<1> DEFINE k == Len(a.sent)
<1>1. k \in Nat /\ Len(a.missing) \in Nat /\ MaxEvents \in Nat /\ ChunkSize \in Nat \ {0}
  BY SyncAssumption DEF AnswerRecord
<1>2. k > 1 => (k - 1) * ChunkSize < Len(a.missing) /\ Len(a.missing) <= MaxEvents
  BY DEF Cut
<1> HIDE DEF k
<1>3. CASE k > 1
  <2>1. k - 1 \in Nat /\ (k - 1) * ChunkSize \in Nat
    BY <1>1, <1>3
  <2>2. (k - 1) * ChunkSize <= MaxEvents
    BY <1>1, <1>2, <1>3, <2>1
  <2>3. k - 1 <= MaxEvents \div ChunkSize
    BY <1>1, <2>1, <2>2, Quotient
  <2>4. MaxEvents \div ChunkSize \in Int
    BY <1>1
  <2> QED  BY <1>1, <2>3, <2>4 DEF MaxSnapshots, k
<1>4. CASE k <= 1
  <2>1. MaxEvents \div ChunkSize \in Nat
    BY <1>1
  <2> QED  BY <1>1, <1>4, <2>1 DEF MaxSnapshots, k
<1> QED  BY <1>1, <1>3, <1>4 DEF k

\* One round of the loop.
Published(a) ==
    [a EXCEPT !.sent = Append(a.sent, Snapshot(a.missing, Len(a.sent) * ChunkSize)),
              !.pc = IF Len(a.sent) * ChunkSize + ChunkSize < Len(a.missing)
                     THEN "sending" ELSE "done"]

LEMMA PublishCuts ==
    ASSUME NEW a \in AnswerRecord, Cut(a), a.pc = "sending"
    PROVE  LET b == Published(a)
           IN  /\ b \in AnswerRecord /\ Cut(b) /\ Len(b.sent) = Len(a.sent) + 1
               /\ \A i \in 1..Len(a.sent) : b.sent[i] = a.sent[i]
               /\ b.known = a.known /\ b.missing = a.missing
               /\ b.pc = "sending" \/ Len(b.sent) * ChunkSize >= Len(b.missing)
<1> DEFINE k == Len(a.sent)
           n == Len(a.missing)
           new == Snapshot(a.missing, k * ChunkSize)
           b == Published(a)
<1>1. k \in Nat /\ n \in Nat /\ ChunkSize \in Nat /\ a.missing \in Seq(1..MaxEvents)
  BY SyncAssumption DEF AnswerRecord
<1>2. k * ChunkSize \in Nat /\ (k + 1) * ChunkSize = k * ChunkSize + ChunkSize
  BY <1>1, Chunks
<1>3. new \in Snapshots
  BY <1>1, <1>2, SnapshotTyped
<1>4. /\ b.sent = Append(a.sent, new) /\ b.known = a.known /\ b.missing = a.missing
      /\ b.pc = IF k * ChunkSize + ChunkSize < n THEN "sending" ELSE "done"
  BY DEF Published, AnswerRecord
<1>5. b \in AnswerRecord
  <2>1. Append(a.sent, new) \in Seq(Snapshots)
    BY <1>3, AppendProperties DEF AnswerRecord
  <2> HIDE DEF new, k, n
  <2>2. b = [pc |-> b.pc, known |-> b.known, missing |-> b.missing, sent |-> b.sent]
    <3>1. a = [pc |-> a.pc, known |-> a.known, missing |-> a.missing, sent |-> a.sent]
      BY DEF AnswerRecord
    <3> HIDE DEF b
    <3>2. DOMAIN b = {"pc", "known", "missing", "sent"}
      BY <3>1 DEF Published, b
    <3>3. b = [x \in DOMAIN b |-> b[x]]
      BY DEF Published, b
    <3> QED  BY <3>2, <3>3
  <2> HIDE DEF b
  <2>3. b.pc \in {"asked", "comparing", "sending", "done"}
    BY <1>4
  <2> QED  BY <1>4, <2>1, <2>2, <2>3 DEF AnswerRecord
<1> HIDE DEF b
<1>6. /\ Len(b.sent) = k + 1 /\ b.sent[k + 1] = new
      /\ \A i \in 1..k : b.sent[i] = a.sent[i]
  <2>1. a.sent \in Seq(Snapshots)
    BY DEF AnswerRecord
  <2> HIDE DEF new
  <2> QED  BY <1>3, <1>4, <2>1, AppendProperties
<1>7. n <= MaxEvents /\ (k > 0 => k * ChunkSize < n)
      /\ \A i \in 1..k : a.sent[i] = Snapshot(a.missing, (i - 1) * ChunkSize)
  BY DEF Cut
<1> HIDE DEF k, n, new
<1>8. ASSUME NEW i \in 1..(k + 1)
      PROVE  b.sent[i] = Snapshot(b.missing, (i - 1) * ChunkSize)
  <2>1. CASE i = k + 1
    <3>1. i - 1 = k
      BY <1>1, <2>1
    <3> QED  BY <1>4, <1>6, <2>1, <3>1 DEF new
  <2>2. CASE i # k + 1
    <3>1. i \in 1..k
      BY <1>1, <2>2
    <3> QED  BY <1>4, <1>6, <1>7, <3>1
  <2> QED  BY <2>1, <2>2
<1>9. Len(b.missing) = n
  BY <1>4 DEF n
<1>10. b.pc \notin {"asked", "comparing"}
  BY <1>4
<1>11. Len(b.sent) > 1 => (Len(b.sent) - 1) * ChunkSize < Len(b.missing)
  <2>1. (k + 1) - 1 = k
    BY <1>1
  <2> QED  BY <1>1, <1>6, <1>7, <1>9, <2>1
<1>12. b.pc = "sending" => Len(b.sent) * ChunkSize < Len(b.missing)
  BY <1>2, <1>4, <1>6, <1>9
<1>13. Cut(b)
  BY <1>6, <1>7, <1>8, <1>9, <1>10, <1>11, <1>12 DEF Cut
<1>14. b.pc = "sending" \/ Len(b.sent) * ChunkSize >= Len(b.missing)
  BY <1>1, <1>2, <1>4, <1>6, <1>9
<1> QED  BY <1>4, <1>5, <1>6, <1>13, <1>14 DEF k, b

\* What the snapshots bring together.
Events(sent) == FoldLeft(LAMBDA events, snapshot : events \o snapshot.events, <<>>, sent)

LEMMA EventsSteps ==
    ASSUME NEW sent \in Seq(Snapshots)
    PROVE  \E f : /\ f[0] = <<>>
                  /\ \A i \in 1..Len(sent) : f[i] = f[i - 1] \o sent[i].events
                  /\ Events(sent) = f[Len(sent)]
<1> DEFINE A == Seq(1..MaxEvents)
           n == Len(sent)
           F == [x \in A \X (1..n) |-> x[1] \o sent[x[2]].events]
           Def(g) == [T \in SUBSET (1..n) |->
                        IF T = {} THEN <<>>
                        ELSE g[T \ {Max(T)}] \o sent[Max(T)].events]
           iter == CHOOSE g : g = Def(g)
           none == <<>>
<1>1. n \in Nat /\ DOMAIN sent = 1..n /\ \A i \in 1..n : sent[i] \in Snapshots
  OBVIOUS
<1>2. none \in A
  BY EmptySeq
<1>3. F \in Steps(A, n)
  <2>1. \A x \in A, i \in 1..n : x \o sent[i].events \in A
    BY <1>1, ConcatProperties DEF Snapshots
  <2> HIDE DEF A
  <2> QED  BY <2>1 DEF Steps
<1>4. PICK g : IsFold(g, A, n, none, F)
  <2> HIDE DEF A, F, n, none
  <2> QED  BY <1>1, <1>2, <1>3, Folding
<1>5. g = Def(g)
  <2>1. ASSUME NEW T \in SUBSET (1..n), T # {}
        PROVE  g[T] = g[T \ {Max(T)}] \o sent[Max(T)].events
    <3>1. T \in SUBSET (0..n)
      BY <1>1
    <3>2. Max(T) \in 1..n
      BY <1>1, <2>1, <3>1, MaxOfBounded
    <3>3. g[T \ {Max(T)}] \in A /\ g[T] = F[<<g[T \ {Max(T)}], Max(T)>>]
      <4> HIDE DEF A, F, none
      <4> QED  BY <1>4, <2>1 DEF IsFold
    <3> HIDE DEF A
    <3> QED  BY <3>2, <3>3
  <2>2. g[{}] = none /\ g = [T \in SUBSET (1..n) |-> g[T]]
    <3> HIDE DEF none
    <3> QED  BY <1>4 DEF IsFold
  <2> HIDE DEF A, F
  <2> QED  BY <2>1, <2>2
<1>6. iter = Def(iter)
  <2> HIDE DEF Def
  <2> QED  BY <1>5
<1>7. Events(sent) = iter[1..n]
  BY <1>1 DEF Events, FoldLeft, MapThenFoldSet
<1> HIDE DEF iter
<1> DEFINE f == [i \in 0..n |-> iter[1..i]]
<1>8. f[0] = <<>>
  <2>1. 1..0 = {} /\ 0 \in 0..n /\ {} \in SUBSET (1..n)
    BY <1>1
  <2>2. iter[{}] = <<>>
    BY <2>1, <1>6
  <2> QED  BY <2>1, <2>2
<1>9. ASSUME NEW i \in 1..n
      PROVE  f[i] = f[i - 1] \o sent[i].events
  <2>1. i \in 0..n /\ i - 1 \in 0..n
    BY <1>1
  <2>2. /\ 1..i \in SUBSET (1..n) /\ 1..i # {} /\ Max(1..i) = i
        /\ (1..i) \ {i} = 1..(i - 1)
    <3> HIDE DEF n
    <3> QED  BY <1>1, MaxOfInitial
  <2>3. iter[1..i] = iter[(1..i) \ {Max(1..i)}] \o sent[Max(1..i)].events
    BY <2>2, <1>6
  <2> QED  BY <2>1, <2>2, <2>3
<1>10. f[n] = iter[1..n]
  BY <1>1
<1> HIDE DEF f
<1> QED  BY <1>7, <1>8, <1>9, <1>10

\* What is sent are the missing events from the first on, as many as there is
\* room for in the snapshots.
LEMMA EventsCut ==
    ASSUME NEW a \in AnswerRecord, Cut(a)
    PROVE  LET n == Len(a.missing)
               room == Len(a.sent) * ChunkSize
               sent == IF room < n THEN room ELSE n
           IN  Events(a.sent) = SubSeq(a.missing, 1, sent) /\ Len(Events(a.sent)) = sent
<1> DEFINE A == 1..MaxEvents
           k == Len(a.sent)
           n == Len(a.missing)
           missing == a.missing
           upTo(i) == IF i * ChunkSize < n THEN i * ChunkSize ELSE n
<1>1. /\ k \in Nat /\ n \in Nat /\ missing \in Seq(A) /\ a.sent \in Seq(Snapshots)
      /\ ChunkSize \in Nat
  BY SyncAssumption DEF AnswerRecord
<1>2. PICK f : /\ f[0] = <<>>
               /\ \A i \in 1..k : f[i] = f[i - 1] \o a.sent[i].events
               /\ Events(a.sent) = f[k]
  BY <1>1, EventsSteps
<1> DEFINE S == {i \in 0..k : f[i] = SubSeq(missing, 1, upTo(i))}
<1>3. 0 \in S
  <2>1. 0 * ChunkSize = 0
    BY <1>1
  <2>2. upTo(0) = 0
    BY <1>1, <2>1
  <2>3. SubSeq(missing, 1, 0) = <<>>
    BY SubSeqEmpty
  <2>4. f[0] = SubSeq(missing, 1, upTo(0))
    <3> HIDE DEF upTo, missing
    <3> QED  BY <1>2, <2>2, <2>3
  <2>5. 0 \in 0..k
    BY <1>1
  <2> QED  BY <2>4, <2>5
<1>4. ASSUME NEW i \in 0..(k - 1), i \in S
      PROVE  i + 1 \in S
  <2>1. i \in Nat /\ i + 1 \in 1..k /\ i + 1 \in 0..k /\ (i + 1) - 1 = i
    BY <1>1
  <2>2. i * ChunkSize \in Nat /\ (i + 1) * ChunkSize = i * ChunkSize + ChunkSize
    BY <2>1, Chunks
  <2>3. i * ChunkSize <= n
    <3>1. CASE i = 0
      BY <1>1, <3>1
    <3>2. CASE i # 0
      <4>1. k > 1 /\ (k - 1) * ChunkSize < n
        BY <1>1, <2>1, <3>2 DEF Cut
      <4>2. i <= k - 1 /\ k - 1 \in Nat
        BY <1>1, <4>1
      <4>3. i = k - 1 \/ i * ChunkSize + ChunkSize <= (k - 1) * ChunkSize
        <5> DEFINE j == k - 1
        <5>1. j \in Nat /\ (i = j \/ i < j)
          BY <2>1, <4>2
        <5> HIDE DEF j
        <5>2. i < j => i * ChunkSize + ChunkSize <= j * ChunkSize
          BY <2>1, <5>1, Chunks
        <5> QED  BY <5>1, <5>2 DEF j
      <4>4. (k - 1) * ChunkSize \in Nat
        BY <4>2, Chunks
      <4> QED  BY <1>1, <2>2, <4>1, <4>3, <4>4
    <3> QED  BY <3>1, <3>2
  <2> DEFINE from == i * ChunkSize
             to == upTo(i + 1)
  <2>4. f[i + 1] = f[i] \o a.sent[i + 1].events
    BY <1>2, <2>1
  <2>5. a.sent[i + 1].events = SubSeq(missing, from + 1, to)
    <3>1. a.sent[i + 1] = Snapshot(missing, from)
      BY <2>1 DEF Cut
    <3>2. a.sent[i + 1].events = Slice(missing, from, from + ChunkSize)
      BY <3>1 DEF Snapshot
    <3> QED  BY <2>2, <3>2 DEF Slice
  <2>6. f[i] = SubSeq(missing, 1, from)
    <3>1. upTo(i) = from
      BY <1>1, <2>2, <2>3
    <3> HIDE DEF upTo
    <3> QED  BY <1>4, <3>1
  <2>7. SubSeq(missing, 1, from) \o SubSeq(missing, from + 1, to) = SubSeq(missing, 1, to)
    <3>1. from \in (1 - 1)..n /\ to \in from..n
      BY <1>1, <2>2, <2>3
    <3>2. 1 \in 1..(n + 1)
      BY <1>1
    <3> HIDE DEF from, to, missing, A
    <3> QED  BY <1>1, <3>1, <3>2, ConcatAdjacentSubSeq DEF missing
  <2>8. f[i + 1] = SubSeq(missing, 1, upTo(i + 1))
    BY <2>4, <2>5, <2>6, <2>7
  <2> QED  BY <2>1, <2>8
<1>5. 0..k \subseteq S
  <2> HIDE DEF S, k
  <2> QED  BY <1>1, <1>3, <1>4, BoundedInduction
<1>6. f[k] = SubSeq(missing, 1, upTo(k))
  <2>1. k \in 0..k
    BY <1>1
  <2> QED  BY <1>5, <2>1
<1>7. Len(SubSeq(missing, 1, upTo(k))) = upTo(k)
  <2>1. upTo(k) \in 0..n
    <3>1. k * ChunkSize \in Nat
      BY <1>1, Chunks
    <3> QED  BY <1>1, <3>1
  <2>2. \A i \in 1..upTo(k) : missing[i] \in A
    <3> HIDE DEF upTo
    <3>1. \A i \in 1..upTo(k) : i \in 1..n
      BY <1>1, <2>1
    <3> HIDE DEF missing, A
    <3> QED  BY <1>1, <3>1 DEF missing
  <2> HIDE DEF upTo, missing, A
  <2>3. upTo(k) \in Int /\ 1 \in Int
    BY <1>1, <2>1
  <2> DEFINE to == upTo(k)
  <2> HIDE DEF to
  <2>4. Len(SubSeq(missing, 1, to)) = IF 1 <= to THEN to - 1 + 1 ELSE 0
    BY <2>2, <2>3, SubSeqProperties DEF to
  <2> QED  BY <1>1, <2>1, <2>4 DEF to
<1> QED  BY <1>2, <1>6, <1>7

-----------------------------------------------------------------------------
(* The sessions.                                                           *)

SessionRecord ==
    [pc : {"subscribing", "listening", "ended"}, request : Requests,
     filter : [0..(Bytes - 1) -> SUBSET (0..7)], latest : 0..MaxEvents,
     handled : SUBSET (1..MaxSnapshots)]

\* The filter is of what the requester had.  What is sent is missing there, and so
\* is whatever the peer had that the filter does not contain.
Compared(r, a) ==
    /\ r.filter = BuildBloomFilter(1..r.latest)
    /\ \A e \in ToSet(a.missing) : e <= r.latest => e > a.known
    /\ a.pc = "sending" \/ Len(a.sent) > 0 =>
          \A e \in 1..a.known : BloomContains(r.filter, e) \/ e \in ToSet(a.missing)

\* Without failures an answer ends when all is sent.
Complete(r, a) ==
    a.pc = "done" /\ r.request \notin Faulty =>
        Len(a.sent) > 0 /\ Len(a.sent) * ChunkSize >= Len(a.missing)

\* What the requester's log and that of its peer have to do with the session.
Logged(r, a, mine, peers) ==
    /\ a.pc = "comparing" => a.known <= peers.last
    /\ \A i \in r.handled : ToSet(a.sent[i].events) \subseteq mine.spent

SessionInv(r, a, mine, peers) ==
    /\ r.handled \subseteq 1..Len(a.sent)
    /\ Cut(a) /\ Compared(r, a) /\ Complete(r, a) /\ Logged(r, a, mine, peers)

LogOK == log \in [Nodes \X Topics -> Chain] /\ \A c \in Nodes \X Topics : GoodChain(log[c])

RecordsOK ==
    /\ session \in Seq(SessionRecord) /\ answer \in Seq(AnswerRecord)
    /\ Len(answer) = Len(session) /\ Len(session) <= MaxSessions

\* A snapshot on its way has been sent.
Sent(x) == x.of \in 1..Len(session) /\ x.index \in 1..Len(answer[x.of].sent)

NetworkOK ==
    /\ subscribed \subseteq Nodes \X Topics
    /\ flight \subseteq Copies /\ \A copy \in flight : Sent(copy)
    /\ handling \subseteq Calls
    /\ \A call \in handling : Sent(call) /\ call.by \in 1..Len(session)

SessionsInv ==
    \A s \in 1..Len(session) :
        SessionInv(session[s], answer[s], log[Channel(s)], log[PeerChannel(s)])

SyncInv == LogOK /\ RecordsOK /\ NetworkOK /\ SessionsInv

LEMMA Channels ==
    ASSUME NEW r \in Requests
    PROVE  <<r.node, r.topic>> \in Nodes \X Topics /\ <<r.peer, r.topic>> \in Nodes \X Topics
<1>1. r \in [node : Nodes, peer : Nodes, topic : Topics]
  BY SyncAssumption
<1> QED  BY <1>1

\* The missing events are those that were not found.
LEMMA MissingEvents ==
    ASSUME LogOK, NEW c \in Nodes \X Topics, NEW known
    PROVE  LET missing == GetMissingEvents(c, known)
           IN  /\ missing \in Seq(1..MaxEvents) /\ Len(missing) <= MaxEvents
               /\ ToSet(missing) = (1..log[c].last) \ known
<1> DEFINE n == log[c].last
           s == [e \in 1..n |-> e]
           I == (1..n) \ known
           A == 1..MaxEvents
<1>1. n \in 0..MaxEvents
  BY DEF LogOK, Chain
<1>2. MaxEvents \in Nat
  BY SyncAssumption
<1> HIDE DEF n
<1>3. s \in [1..n -> A] /\ n \in Nat
  BY <1>1, <1>2
<1>4. s \in Seq(A) /\ Len(s) = n
  <2> HIDE DEF s
  <2>1. s \in Seq(A)
    BY <1>3, SeqDef
  <2>2. DOMAIN s = 1..n /\ DOMAIN s = 1..Len(s) /\ Len(s) \in Nat
    BY <1>3, <2>1, LenProperties
  <2> QED  BY <1>3, <2>1, <2>2
<1>5. I \in SUBSET (1..Len(s)) /\ I \in SUBSET (1..n)
  BY <1>4
<1>6. {s[i] : i \in I} = I
  BY <1>5
<1> HIDE DEF s, I, A
<1>7. Keep(s, I) \in Seq(A) /\ Len(Keep(s, I)) <= n /\ ToSet(Keep(s, I)) = I
  <2>1. Keep(s, I) \in Seq(A) /\ IsKept(Keep(s, I), s, I, Len(s))
    BY <1>4, <1>5, KeepPositions
  <2>2. ToSet(Keep(s, I)) = I
    BY <1>4, <1>5, <1>6, KeepElements
  <2> QED  BY <1>4, <2>1, <2>2 DEF IsKept
<1>8. Len(Keep(s, I)) \in Nat
  BY <1>7, LenProperties
<1>9. GetMissingEvents(c, known) = Keep(s, I)
  BY DEF GetMissingEvents, s, I, n
<1>10. Len(Keep(s, I)) <= MaxEvents
  BY <1>1, <1>2, <1>7, <1>8
<1> QED  BY <1>7, <1>9, <1>10 DEF A, I, n

\* Logs only grow.
LEMMA LogGrows ==
    ASSUME LogOK, NEW c \in Nodes \X Topics, NEW new, GoodChain(new), Grown(log[c], new),
           log' = [log EXCEPT ![c] = new]
    PROVE  LogOK' /\ \A d \in Nodes \X Topics : Grown(log[d], log'[d])
<1>1. new \in Chain
  BY DEF GoodChain
<1>2. \A d \in Nodes \X Topics : log'[d] = IF d = c THEN new ELSE log[d]
  BY DEF LogOK
<1>3. \A d \in Nodes \X Topics : Grown(log[d], log[d])
  BY DEF LogOK, Grown, Chain
<1>4. log' \in [Nodes \X Topics -> Chain]
  BY <1>1 DEF LogOK
<1> QED  BY <1>2, <1>3, <1>4 DEF LogOK

LEMMA LogStays ==
    ASSUME LogOK, UNCHANGED log
    PROVE  LogOK' /\ \A d \in Nodes \X Topics : Grown(log[d], log'[d])
BY DEF LogOK, Grown, Chain

LEMMA ApplyEventsGrows ==
    ASSUME LogOK, NEW c \in Nodes \X Topics, NEW events \in Seq(1..MaxEvents),
           ApplyEvents(c, events)
    PROVE  /\ LogOK' /\ \A d \in Nodes \X Topics : Grown(log[d], log'[d])
           /\ ToSet(events) \subseteq log'[c].spent
<1> DEFINE new == FoldLeft(Admit, log[c], events)
<1>1. GoodChain(log[c])
  BY DEF LogOK
<1>2. GoodChain(new) /\ Grown(log[c], new) /\ ToSet(events) \subseteq new.spent
  BY <1>1, ApplyGrows
<1>3. log' = [log EXCEPT ![c] = new]
  BY DEF ApplyEvents
<1> HIDE DEF new
<1>4. log'[c] = new
  BY <1>3 DEF LogOK
<1> QED  BY <1>2, <1>3, <1>4, LogGrows

\* A session is not disturbed by logs that grow.
LEMMA SessionGrows ==
    ASSUME NEW r \in SessionRecord, NEW a \in AnswerRecord,
           NEW mine \in Chain, NEW peers \in Chain, NEW mine2 \in Chain, NEW peers2 \in Chain,
           Grown(mine, mine2), Grown(peers, peers2), SessionInv(r, a, mine, peers)
    PROVE  SessionInv(r, a, mine2, peers2)
<1>1. a.known \in Int /\ peers.last \in Int /\ peers2.last \in Int
  BY SyncAssumption DEF AnswerRecord, Chain
<1>2. Logged(r, a, mine2, peers2)
  BY <1>1 DEF SessionInv, Logged, Grown
<1> QED  BY <1>2 DEF SessionInv

\* What the records of a session are.
LEMMA Records ==
    ASSUME RecordsOK
    PROVE  /\ Len(session) \in Nat /\ DOMAIN session = 1..Len(session)
           /\ DOMAIN answer = 1..Len(session)
           /\ \A s \in 1..Len(session) :
                 /\ s \in Sessions
                 /\ session[s] \in SessionRecord /\ answer[s] \in AnswerRecord
                 /\ Channel(s) \in Nodes \X Topics /\ PeerChannel(s) \in Nodes \X Topics
<1>1. /\ Len(session) \in Nat /\ DOMAIN session = 1..Len(session)
      /\ DOMAIN answer = 1..Len(session)
  BY LenProperties DEF RecordsOK
<1>2. ASSUME NEW s \in 1..Len(session)
      PROVE  session[s] \in SessionRecord /\ answer[s] \in AnswerRecord
  BY <1>1 DEF RecordsOK
<1>3. ASSUME NEW s \in 1..Len(session)
      PROVE  Channel(s) \in Nodes \X Topics /\ PeerChannel(s) \in Nodes \X Topics
  <2>1. session[s].request \in Requests
    BY <1>2 DEF SessionRecord
  <2> QED  BY <2>1, Channels DEF Channel, PeerChannel, Topic
<1>4. ASSUME NEW s \in 1..Len(session)
      PROVE  s \in Sessions
  BY <1>1, SyncAssumption DEF Sessions, RecordsOK
<1> QED  BY <1>1, <1>2, <1>3, <1>4

\* A step that changes no record of a session.
LEMMA SessionsStay ==
    ASSUME LogOK, RecordsOK, SessionsInv, LogOK',
           \A d \in Nodes \X Topics : Grown(log[d], log'[d]),
           UNCHANGED <<session, answer>>
    PROVE  RecordsOK' /\ SessionsInv'
<1>1. RecordsOK'
  BY DEF RecordsOK
<1>2. ASSUME NEW s \in 1..Len(session)
      PROVE  SessionInv(session[s], answer[s], log'[Channel(s)], log'[PeerChannel(s)])
  <2> DEFINE c == Channel(s)
             d == PeerChannel(s)
  <2>1. /\ session[s] \in SessionRecord /\ answer[s] \in AnswerRecord
        /\ c \in Nodes \X Topics /\ d \in Nodes \X Topics
    BY Records
  <2>2. SessionInv(session[s], answer[s], log[c], log[d])
    BY DEF SessionsInv
  <2> HIDE DEF c, d
  <2>3. /\ log[c] \in Chain /\ log[d] \in Chain /\ log'[c] \in Chain /\ log'[d] \in Chain
        /\ Grown(log[c], log'[c]) /\ Grown(log[d], log'[d])
    BY <2>1 DEF LogOK
  <2>4. SessionInv(session[s], answer[s], log'[c], log'[d])
    BY <2>1, <2>2, <2>3, SessionGrows
  <2> QED  BY <2>4 DEF c, d
<1>3. SessionsInv'
  BY <1>2 DEF SessionsInv, Channel, PeerChannel, Topic
<1> QED  BY <1>1, <1>3

\* A step of one call of handleSyncRequest.
LEMMA AnswerChanges ==
    ASSUME SyncInv, NEW s \in 1..Len(session), NEW b \in AnswerRecord,
           answer' = [answer EXCEPT ![s] = b],
           UNCHANGED <<log, session, subscribed, handling>>,
           Len(answer[s].sent) <= Len(b.sent),
           SessionInv(session[s], b, log[Channel(s)], log[PeerChannel(s)]),
           flight' \subseteq flight \union [to : Nodes, of : {s}, index : 1..Len(b.sent)]
    PROVE  SyncInv'
<1>1. LogOK /\ RecordsOK /\ NetworkOK /\ SessionsInv
  BY DEF SyncInv
<1>2. LogOK'
  BY <1>1 DEF LogOK
<1>3. /\ answer \in Seq(AnswerRecord) /\ DOMAIN answer = 1..Len(session)
      /\ Len(answer) = Len(session) /\ Len(session) \in Nat
  BY <1>1, Records DEF RecordsOK
<1>4. /\ answer' \in Seq(AnswerRecord) /\ Len(answer') = Len(session)
      /\ \A t \in 1..Len(session) : answer'[t] = IF t = s THEN b ELSE answer[t]
  BY <1>3, ExceptSeq
<1>5. RecordsOK'
  BY <1>1, <1>4 DEF RecordsOK
<1>6. SessionsInv'
  BY <1>1, <1>4 DEF SessionsInv, Channel, PeerChannel, Topic
<1>7. NetworkOK'
  <2>1. Len(b.sent) \in 0..MaxSnapshots /\ s \in Sessions
    BY <1>1, FewSnapshots, Records DEF SessionInv
  <2>2. \A t \in 1..Len(session) : Len(answer[t].sent) \in Nat
    BY <1>1, Records DEF AnswerRecord
  <2>3. MaxSnapshots \in Nat
    BY SyncAssumption DEF MaxSnapshots
  <2>4. ASSUME NEW x, Sent(x)
        PROVE  x.of \in 1..Len(session) /\ x.index \in 1..Len(answer'[x.of].sent)
    <3>1. x.of \in 1..Len(session) /\ x.index \in 1..Len(answer[x.of].sent)
      BY <2>4 DEF Sent
    <3>2. CASE x.of = s
      BY <1>4, <2>1, <2>2, <2>3, <3>1, <3>2
    <3>3. CASE x.of # s
      BY <1>4, <3>1, <3>3
    <3> QED  BY <3>2, <3>3
  <2>5. ASSUME NEW x \in [to : Nodes, of : {s}, index : 1..Len(b.sent)]
        PROVE  /\ x \in Copies
               /\ x.of \in 1..Len(session) /\ x.index \in 1..Len(answer'[x.of].sent)
    BY <1>4, <2>1, <2>3, <2>5 DEF Copies
  <2>6. flight' \subseteq Copies /\ \A x \in flight' : Sent(x)'
    BY <1>1, <2>4, <2>5 DEF NetworkOK, Sent
  <2>7. \A x \in handling : Sent(x)' /\ x.by \in 1..Len(session)
    BY <1>1, <2>4 DEF NetworkOK, Sent
  <2> QED  BY <1>1, <2>6, <2>7 DEF NetworkOK
<1> QED  BY <1>2, <1>5, <1>6, <1>7 DEF SyncInv

LEMMA AnswerStepKeeps ==
    ASSUME SyncInv, NEW s \in Sessions, AnswerStep(s)
    PROVE  SyncInv'
<1> DEFINE r == session[s]
           a == answer[s]
           mine == log[Channel(s)]
           peers == log[PeerChannel(s)]
<1>1. LogOK /\ RecordsOK /\ NetworkOK /\ SessionsInv
  BY DEF SyncInv
<1>2. /\ s \in DOMAIN answer
      /\ UNCHANGED <<log, session, subscribed, handling>>
  BY DEF AnswerStep, ReadKnown, ReadMissing, PublishSnapshot, AnswerThrows, AnswerAt
<1>3. /\ s \in 1..Len(session) /\ r \in SessionRecord /\ a \in AnswerRecord
      /\ Channel(s) \in Nodes \X Topics /\ PeerChannel(s) \in Nodes \X Topics
  BY <1>1, <1>2, Records
<1>4. SessionInv(r, a, mine, peers) /\ mine \in Chain /\ peers \in Chain
  BY <1>1, <1>3 DEF SessionsInv, LogOK
<1>5. answer = [t \in DOMAIN answer |-> answer[t]]
  BY <1>1 DEF RecordsOK
<1>6. Len(a.sent) \in Nat
  BY <1>3 DEF AnswerRecord
<1>7. CASE ReadKnown(s)
  <2> DEFINE b == [a EXCEPT !.pc = "comparing", !.known = peers.last]
  <2>1. a.pc = "asked" /\ answer' = [answer EXCEPT ![s] = b] /\ flight' = flight
    BY <1>7, <1>5 DEF ReadKnown, AnswerAt
  <2>2. b \in AnswerRecord /\ b.pc = "comparing" /\ b.known = peers.last
        /\ b.missing = a.missing /\ b.sent = a.sent
    BY <1>3, <1>4 DEF AnswerRecord, Chain
  <2> HIDE DEF b
  <2>3. Cut(b)
    BY <1>4, <2>1, <2>2 DEF SessionInv, Cut
  <2>4. Compared(r, b)
    <3>1. Len(a.missing) = 0 /\ Len(a.sent) = 0 /\ a.missing \in Seq(1..MaxEvents)
      BY <1>3, <1>4, <2>1 DEF SessionInv, Cut, AnswerRecord
    <3>2. ToSet(a.missing) = {}
      BY <3>1, LenProperties DEF ToSet
    <3> QED  BY <1>4, <2>2, <3>1, <3>2 DEF SessionInv, Compared
  <2>5. Complete(r, b)
    BY <2>2 DEF Complete
  <2>6. Logged(r, b, mine, peers)
    BY <1>4, <2>2 DEF SessionInv, Logged, Chain
  <2>7. SessionInv(r, b, mine, peers)
    BY <1>4, <2>2, <2>3, <2>4, <2>5, <2>6 DEF SessionInv
  <2>8. Len(a.sent) <= Len(b.sent)
    BY <1>6, <2>2
  <2>9. flight' \subseteq flight \union [to : Nodes, of : {s}, index : 1..Len(b.sent)]
    BY <2>1
  <2> QED
    BY <1>2, <1>3, <2>1, <2>2, <2>7, <2>8, <2>9, AnswerChanges
<1>8. CASE ReadMissing(s)
  <2> DEFINE missing == GetMissingEvents(PeerChannel(s), HashesInFilter(s))
             b == [a EXCEPT !.pc = "sending", !.missing = missing]
  <2>1. a.pc = "comparing" /\ answer' = [answer EXCEPT ![s] = b] /\ flight' = flight
    BY <1>8, <1>5 DEF ReadMissing, AnswerAt
  <2>2. /\ missing \in Seq(1..MaxEvents) /\ Len(missing) <= MaxEvents
        /\ ToSet(missing) = (1..peers.last) \ HashesInFilter(s)
    BY <1>1, <1>3, MissingEvents
  <2>3. HashesInFilter(s) = {h \in 1..a.known : BloomContains(r.filter, h)}
    BY DEF HashesInFilter
  <2> HIDE DEF missing
  <2>4. b \in AnswerRecord /\ b.pc = "sending" /\ b.known = a.known
        /\ b.missing = missing /\ b.sent = a.sent
    BY <1>3, <2>2 DEF AnswerRecord
  <2> HIDE DEF b
  <2>5. Len(a.sent) = 0 /\ a.known <= peers.last
    BY <1>4, <2>1 DEF SessionInv, Cut, Logged
  <2>6. Cut(b)
    BY <2>2, <2>4, <2>5 DEF Cut
  <2>7. Compared(r, b)
    <3>1. a.known \in 0..MaxEvents /\ peers.last \in 0..MaxEvents /\ r.latest \in 0..MaxEvents
          /\ MaxEvents \in Nat
      BY <1>3, <1>4, SyncAssumption DEF AnswerRecord, Chain, SessionRecord
    <3>2. r.filter = BuildBloomFilter(1..r.latest)
      BY <1>4 DEF SessionInv, Compared
    <3>3. ASSUME NEW e \in ToSet(missing), e <= r.latest
          PROVE  e > a.known
      <4>1. e \in 1..peers.last /\ e \notin HashesInFilter(s)
        BY <2>2
      <4>2. e \in 1..r.latest /\ 1..r.latest \in SUBSET Hashes
        BY <3>1, <3>3, <4>1, SyncAssumption
      <4>3. BloomContains(r.filter, e)
        BY <3>2, <4>2, NoFalseNegatives
      <4>4. e \notin 1..a.known
        BY <2>3, <4>1, <4>3
      <4> QED  BY <3>1, <4>1, <4>4
    <3>4. ASSUME NEW e \in 1..a.known, ~BloomContains(r.filter, e)
          PROVE  e \in ToSet(missing)
      <4>1. e \in 1..peers.last
        BY <2>5, <3>1
      <4> QED  BY <2>2, <2>3, <3>4, <4>1
    <3> QED  BY <2>4, <3>2, <3>3, <3>4 DEF Compared
  <2>8. Complete(r, b)
    BY <2>4 DEF Complete
  <2>9. Logged(r, b, mine, peers)
    BY <1>4, <2>4 DEF SessionInv, Logged
  <2>10. SessionInv(r, b, mine, peers)
    BY <1>4, <2>4, <2>6, <2>7, <2>8, <2>9 DEF SessionInv
  <2>11. Len(a.sent) <= Len(b.sent)
    BY <1>6, <2>4
  <2>12. flight' \subseteq flight \union [to : Nodes, of : {s}, index : 1..Len(b.sent)]
    BY <2>1
  <2> QED
    BY <1>2, <1>3, <2>1, <2>4, <2>10, <2>11, <2>12, AnswerChanges
<1>9. CASE PublishSnapshot(s)
  <2> DEFINE b == Published(a)
             k == Len(a.sent)
  <2>1. a.pc = "sending" /\ answer' = [answer EXCEPT ![s] = b]
    BY <1>9, <1>5 DEF PublishSnapshot, AnswerAt, Published
  <2>2. flight' = flight \union [to : Audience(s), of : {s}, index : {k + 1}]
    BY <1>9 DEF PublishSnapshot
  <2>3. /\ b \in AnswerRecord /\ Cut(b) /\ Len(b.sent) = k + 1
        /\ \A i \in 1..k : b.sent[i] = a.sent[i]
        /\ b.known = a.known /\ b.missing = a.missing
        /\ b.pc = "sending" \/ Len(b.sent) * ChunkSize >= Len(b.missing)
    BY <1>3, <1>4, <2>1, PublishCuts DEF SessionInv
  <2>4. b.pc \in {"sending", "done"}
    BY <1>3 DEF Published, AnswerRecord
  <2> HIDE DEF b
  <2>5. Compared(r, b)
    BY <1>4, <2>1, <2>3 DEF SessionInv, Compared
  <2>6. Complete(r, b)
    BY <1>6, <2>3, <2>4 DEF Complete
  <2>7. r.handled \subseteq 1..k
    BY <1>4 DEF SessionInv
  <2>8. Logged(r, b, mine, peers)
    BY <1>4, <2>3, <2>4, <2>7 DEF SessionInv, Logged
  <2>9. SessionInv(r, b, mine, peers)
    BY <1>4, <1>6, <2>3, <2>5, <2>6, <2>7, <2>8 DEF SessionInv
  <2>10. flight' \subseteq flight \union [to : Nodes, of : {s}, index : 1..Len(b.sent)]
    <3>1. Audience(s) \subseteq Nodes
      BY SyncAssumption DEF Audience
    <3>2. {k + 1} \subseteq 1..Len(b.sent)
      BY <1>6, <2>3
    <3> QED  BY <2>2, <3>1, <3>2
  <2>11. Len(a.sent) <= Len(b.sent)
    BY <1>6, <2>3
  <2> QED
    BY <1>2, <1>3, <2>1, <2>3, <2>9, <2>10, <2>11, AnswerChanges
<1>10. CASE AnswerThrows(s)
  <2> DEFINE b == [a EXCEPT !.pc = "done"]
  <2>1. a.pc \in {"asked", "comparing", "sending"} /\ r.request \in Faulty
        /\ answer' = [answer EXCEPT ![s] = b] /\ flight' = flight
    BY <1>10, <1>5 DEF AnswerThrows, AnswerAt, IsFaulty
  <2>2. b \in AnswerRecord /\ b.pc = "done" /\ b.known = a.known
        /\ b.missing = a.missing /\ b.sent = a.sent
    BY <1>3 DEF AnswerRecord
  <2> HIDE DEF b
  <2>3. Cut(b)
    BY <1>4, <2>2 DEF SessionInv, Cut
  <2>4. Compared(r, b)
    BY <1>4, <2>2 DEF SessionInv, Compared
  <2>5. Complete(r, b)
    BY <2>1 DEF Complete
  <2>6. Logged(r, b, mine, peers)
    BY <1>4, <2>2 DEF SessionInv, Logged
  <2>7. SessionInv(r, b, mine, peers)
    BY <1>4, <2>2, <2>3, <2>4, <2>5, <2>6 DEF SessionInv
  <2>8. Len(a.sent) <= Len(b.sent)
    BY <1>6, <2>2
  <2>9. flight' \subseteq flight \union [to : Nodes, of : {s}, index : 1..Len(b.sent)]
    BY <2>1
  <2> QED
    BY <1>2, <1>3, <2>1, <2>2, <2>7, <2>8, <2>9, AnswerChanges
<1> QED  BY <1>7, <1>8, <1>9, <1>10 DEF AnswerStep

\* A call of requestSync begins.
LEMMA BeginKeeps ==
    ASSUME SyncInv, NEW r \in Requests, NEW pc \in {"subscribing", "ended"},
           NEW answerPc \in {"asked", "done"}, answerPc = "done" => r \in Faulty,
           Begin(r, pc, answerPc)
    PROVE  SyncInv'
<1> DEFINE c == <<r.node, r.topic>>
           n == Len(session)
           new == [pc |-> pc, request |-> r, filter |-> FilterOfKnown(c),
                   latest |-> log[c].last, handled |-> {}]
           fresh == [pc |-> answerPc, known |-> 0, missing |-> <<>>, sent |-> <<>>]
<1>1. LogOK /\ RecordsOK /\ NetworkOK /\ SessionsInv
  BY DEF SyncInv
<1>2. /\ n < MaxSessions /\ session' = Append(session, new) /\ answer' = Append(answer, fresh)
      /\ UNCHANGED <<log, subscribed, flight, handling>>
  BY DEF Begin
<1>3. c \in Nodes \X Topics
  BY Channels
<1>4. log[c] \in Chain
  BY <1>1, <1>3 DEF LogOK
<1>5. /\ FilterOfKnown(c) = BuildBloomFilter(1..log[c].last)
      /\ FilterOfKnown(c) \in [0..(Bytes - 1) -> SUBSET (0..7)]
  BY DEF FilterOfKnown, GetKnownHashes, BuildBloomFilter
<1>6. new \in SessionRecord
  BY <1>4, <1>5 DEF SessionRecord, Chain
<1>7. fresh \in AnswerRecord
  <2>1. 0 \in 0..MaxEvents
    BY SyncAssumption
  <2>2. <<>> \in Seq(1..MaxEvents) /\ <<>> \in Seq(Snapshots)
    BY EmptySeq
  <2> QED  BY <2>1, <2>2 DEF AnswerRecord
<1>8. ASSUME NEW mine, NEW peers
      PROVE  SessionInv(new, fresh, mine, peers)
  <2>1. /\ new.request = r /\ new.filter = BuildBloomFilter(1..new.latest) /\ new.handled = {}
        /\ fresh.pc = answerPc /\ fresh.known = 0 /\ fresh.missing = <<>> /\ fresh.sent = <<>>
    BY <1>5
  <2> HIDE DEF new, fresh
  <2>2. Len(fresh.missing) = 0 /\ Len(fresh.sent) = 0 /\ ToSet(fresh.missing) = {}
    BY <2>1 DEF ToSet
  <2>3. Cut(fresh)
    BY <2>1, <2>2, SyncAssumption DEF Cut
  <2>4. Compared(new, fresh)
    BY <2>1, <2>2 DEF Compared
  <2>5. Complete(new, fresh)
    BY <2>1 DEF Complete
  <2>6. Logged(new, fresh, mine, peers)
    BY <2>1 DEF Logged
  <2> QED  BY <2>1, <2>3, <2>4, <2>5, <2>6 DEF SessionInv
<1> HIDE DEF new, fresh
<1>9. /\ n \in Nat /\ Len(answer) = n
      /\ session \in Seq(SessionRecord) /\ answer \in Seq(AnswerRecord)
  BY <1>1, LenProperties DEF RecordsOK
<1>10. /\ session' \in Seq(SessionRecord) /\ Len(session') = n + 1
       /\ session'[n + 1] = new /\ \A s \in 1..n : session'[s] = session[s]
  BY <1>2, <1>6, <1>9, AppendProperties
<1>11. /\ answer' \in Seq(AnswerRecord) /\ Len(answer') = n + 1
       /\ answer'[n + 1] = fresh /\ \A s \in 1..n : answer'[s] = answer[s]
  BY <1>2, <1>7, <1>9, AppendProperties
<1>12. LogOK'
  BY <1>1, <1>2 DEF LogOK
<1>13. RecordsOK'
  BY <1>2, <1>9, <1>10, <1>11, SyncAssumption DEF RecordsOK
<1>14. NetworkOK'
  <2>1. ASSUME NEW x, Sent(x)
        PROVE  Sent(x)'
    <3>1. x.of \in 1..n /\ x.index \in 1..Len(answer[x.of].sent)
      BY <2>1 DEF Sent
    <3>2. x.of \in 1..(n + 1)
      BY <1>9, <3>1
    <3> QED  BY <1>10, <1>11, <3>1, <3>2 DEF Sent
  <2>2. \A x \in 1..n : x \in 1..(n + 1)
    BY <1>9
  <2> QED  BY <1>1, <1>2, <1>10, <2>1, <2>2 DEF NetworkOK
<1>15. SessionsInv'
  <2>1. ASSUME NEW s \in 1..(n + 1)
        PROVE  SessionInv(session[s], answer[s], log[Channel(s)], log[PeerChannel(s)])'
    <3>1. CASE s = n + 1
      BY <1>8, <1>10, <1>11, <3>1
    <3>2. CASE s # n + 1
      <4>1. s \in 1..n
        BY <1>9, <3>2
      <4>2. session'[s] = session[s] /\ answer'[s] = answer[s]
        BY <1>10, <1>11, <4>1
      <4>3. SessionInv(session[s], answer[s], log[Channel(s)], log[PeerChannel(s)])
        BY <1>1, <4>1 DEF SessionsInv
      <4> QED  BY <1>2, <4>2, <4>3 DEF Channel, PeerChannel, Topic
    <3> QED  BY <3>1, <3>2
  <2> QED  BY <1>10, <2>1 DEF SessionsInv
<1> QED  BY <1>12, <1>13, <1>14, <1>15 DEF SyncInv

LEMMA SubscribeKeeps ==
    ASSUME SyncInv, NEW s \in Sessions, Subscribe(s)
    PROVE  SyncInv'
<1> DEFINE r == [session[s] EXCEPT !.pc = "listening"]
<1>1. LogOK /\ RecordsOK /\ NetworkOK /\ SessionsInv
  BY DEF SyncInv
<1>2. /\ s \in DOMAIN session /\ session' = [session EXCEPT ![s].pc = "listening"]
      /\ subscribed' = subscribed \union {Channel(s)}
      /\ UNCHANGED <<log, answer, flight, handling>>
  BY DEF Subscribe, At, Goto
<1>3. s \in 1..Len(session) /\ session[s] \in SessionRecord /\ Channel(s) \in Nodes \X Topics
  BY <1>1, <1>2, Records
<1>4. session' = [session EXCEPT ![s] = r]
  <2>1. session = [t \in DOMAIN session |-> session[t]]
    BY <1>1 DEF RecordsOK
  <2> QED  BY <1>2, <2>1
<1>5. /\ r \in SessionRecord /\ r.request = session[s].request /\ r.filter = session[s].filter
      /\ r.latest = session[s].latest /\ r.handled = session[s].handled
  BY <1>3 DEF SessionRecord
<1> HIDE DEF r
<1>6. /\ session' \in Seq(SessionRecord) /\ Len(session') = Len(session)
      /\ \A t \in 1..Len(session) : session'[t] = IF t = s THEN r ELSE session[t]
  BY <1>1, <1>3, <1>4, <1>5, ExceptSeq DEF RecordsOK
<1>7. LogOK'
  BY <1>1, <1>2 DEF LogOK
<1>8. RecordsOK'
  BY <1>1, <1>2, <1>6 DEF RecordsOK
<1>9. NetworkOK'
  BY <1>1, <1>2, <1>3, <1>6 DEF NetworkOK, Sent
<1>10. SessionsInv'
  <2>1. ASSUME NEW t \in 1..Len(session)
        PROVE  SessionInv(session'[t], answer[t], log[Channel(t)], log[PeerChannel(t)])
    <3>1. SessionInv(session[t], answer[t], log[Channel(t)], log[PeerChannel(t)])
      BY <1>1 DEF SessionsInv
    <3>2. CASE t = s
      BY <1>5, <1>6, <3>1, <3>2 DEF SessionInv, Compared, Complete, Logged
    <3>3. CASE t # s
      BY <1>6, <3>1, <3>3
    <3> QED  BY <3>2, <3>3
  <2>2. \A t \in 1..Len(session) : session'[t].request = session[t].request
    BY <1>5, <1>6
  <2> QED  BY <1>2, <1>6, <2>1, <2>2 DEF SessionsInv, Channel, PeerChannel, Topic
<1> QED  BY <1>7, <1>8, <1>9, <1>10 DEF SyncInv

LEMMA DeliverKeeps ==
    ASSUME SyncInv, NEW copy \in flight, Deliver(copy) \/ Drop(copy)
    PROVE  SyncInv'
<1>1. LogOK /\ RecordsOK /\ NetworkOK /\ SessionsInv
  BY DEF SyncInv
<1>2. /\ UNCHANGED <<log, session, answer, subscribed>> /\ flight' \subseteq flight
      /\ handling' \subseteq handling \union
             [by : DOMAIN session, of : {copy.of}, index : {copy.index}]
  BY DEF Deliver, Drop
<1>3. LogOK' /\ \A d \in Nodes \X Topics : Grown(log[d], log'[d])
  BY <1>1, <1>2, LogStays
<1>4. RecordsOK' /\ SessionsInv'
  BY <1>1, <1>2, <1>3, SessionsStay
<1>5. NetworkOK'
  <2>1. Sent(copy) /\ copy \in Copies
    BY <1>1 DEF NetworkOK
  <2>2. ASSUME NEW x \in [by : DOMAIN session, of : {copy.of}, index : {copy.index}]
        PROVE  x \in Calls /\ Sent(x) /\ x.by \in 1..Len(session)
    BY <1>1, <2>1, <2>2, Records DEF Calls, Copies, Sent
  <2> QED  BY <1>1, <1>2, <2>2 DEF NetworkOK, Sent
<1> QED  BY <1>3, <1>4, <1>5 DEF SyncInv

\* The events of a snapshot that a listener handles.
LEMMA SentEventsTyped ==
    ASSUME RecordsOK, NetworkOK, NEW call \in handling
    PROVE  answer[call.of].sent[call.index].events \in Seq(1..MaxEvents)
<1>1. call.of \in 1..Len(session) /\ call.index \in 1..Len(answer[call.of].sent)
  BY DEF NetworkOK, Sent
<1>2. answer[call.of] \in AnswerRecord
  BY <1>1, Records
<1>3. answer[call.of].sent \in Seq(Snapshots)
  BY <1>2 DEF AnswerRecord
<1> HIDE DEF Snapshots
<1>4. answer[call.of].sent[call.index] \in Snapshots
  BY <1>1, <1>3, ElementOfSeq
<1> QED  BY <1>4 DEF Snapshots

LEMMA HandledKeeps ==
    ASSUME SyncInv, NEW call \in handling, Handled(call)
    PROVE  SyncInv'
<1> DEFINE l == call.by
           snapshot == answer[call.of].sent[call.index]
           pc == IF snapshot.has_more THEN session[l].pc ELSE "ended"
           handled == IF call.of = l THEN session[l].handled \union {call.index}
                                     ELSE session[l].handled
           r == [session[l] EXCEPT !.pc = pc, !.handled = handled]
<1>1. LogOK /\ RecordsOK /\ NetworkOK /\ SessionsInv
  BY DEF SyncInv
<1>2. /\ handling' = handling \ {call} /\ ApplyEvents(Channel(l), snapshot.events)
      /\ session' = [session EXCEPT ![l].pc = pc, ![l].handled = handled]
      /\ UNCHANGED <<answer, flight>> /\ subscribed' \subseteq subscribed
  BY DEF Handled, Unsubscribed
<1>3. /\ call \in Calls /\ l \in 1..Len(session)
      /\ call.of \in 1..Len(session) /\ call.index \in 1..Len(answer[call.of].sent)
  BY <1>1 DEF NetworkOK, Sent
<1>4. /\ session[l] \in SessionRecord /\ Channel(l) \in Nodes \X Topics
      /\ l \in DOMAIN session
  BY <1>1, <1>3, Records
<1>5. snapshot.events \in Seq(1..MaxEvents)
  BY <1>1, SentEventsTyped
<1>6. /\ LogOK' /\ \A d \in Nodes \X Topics : Grown(log[d], log'[d])
      /\ ToSet(snapshot.events) \subseteq log'[Channel(l)].spent
  <2> HIDE DEF snapshot
  <2> QED  BY <1>1, <1>2, <1>4, <1>5, ApplyEventsGrows
<1>7. session' = [session EXCEPT ![l] = r]
  <2>1. session = [t \in DOMAIN session |-> session[t]]
    BY <1>1 DEF RecordsOK
  <2> HIDE DEF pc, handled
  <2> QED  BY <1>2, <2>1
<1>8. /\ r \in SessionRecord /\ r.request = session[l].request /\ r.filter = session[l].filter
      /\ r.latest = session[l].latest /\ r.handled = handled
  <2>1. pc \in {"subscribing", "listening", "ended"}
    BY <1>4 DEF SessionRecord
  <2>2. handled \in SUBSET (1..MaxSnapshots)
    BY <1>3, <1>4 DEF SessionRecord, Calls
  <2> HIDE DEF pc, handled
  <2> QED  BY <1>4, <2>1, <2>2 DEF SessionRecord
<1> HIDE DEF r
<1>9. /\ session' \in Seq(SessionRecord) /\ Len(session') = Len(session)
      /\ \A t \in 1..Len(session) : session'[t] = IF t = l THEN r ELSE session[t]
  BY <1>1, <1>3, <1>7, <1>8, ExceptSeq DEF RecordsOK
<1>10. RecordsOK'
  BY <1>1, <1>2, <1>9 DEF RecordsOK
<1>11. NetworkOK'
  BY <1>1, <1>2, <1>9 DEF NetworkOK, Sent
<1>12. SessionsInv'
  <2>1. ASSUME NEW t \in 1..Len(session)
        PROVE  SessionInv(session'[t], answer[t], log'[Channel(t)], log'[PeerChannel(t)])
    <3> DEFINE c == Channel(t)
               d == PeerChannel(t)
    <3>1. /\ session[t] \in SessionRecord /\ answer[t] \in AnswerRecord
          /\ c \in Nodes \X Topics /\ d \in Nodes \X Topics
      BY <1>1, Records
    <3>2. SessionInv(session[t], answer[t], log[c], log[d])
      BY <1>1 DEF SessionsInv
    <3>3. /\ log[c] \in Chain /\ log[d] \in Chain /\ log'[c] \in Chain /\ log'[d] \in Chain
          /\ Grown(log[c], log'[c]) /\ Grown(log[d], log'[d])
      BY <1>1, <1>6, <3>1 DEF LogOK
    <3>4. SessionInv(session[t], answer[t], log'[c], log'[d])
      BY <3>1, <3>2, <3>3, SessionGrows
    <3>5. CASE t = l
      <4>1. \A i \in handled : i \in 1..Len(answer[t].sent)
                               /\ ToSet(answer[t].sent[i].events) \subseteq log'[c].spent
        BY <1>3, <1>6, <3>4, <3>5 DEF SessionInv, Logged
      <4> HIDE DEF handled, c, d
      <4>2. session'[t] = r
        BY <1>3, <1>9, <3>5
      <4>3. Logged(r, answer[t], log'[c], log'[d])
        BY <1>8, <3>4, <4>1 DEF SessionInv, Logged
      <4>4. Compared(r, answer[t]) /\ Complete(r, answer[t])
        BY <1>8, <3>4, <3>5 DEF SessionInv, Compared, Complete
      <4>5. SessionInv(r, answer[t], log'[c], log'[d])
        BY <1>8, <3>4, <4>1, <4>3, <4>4 DEF SessionInv
      <4> QED  BY <4>2, <4>5 DEF c, d
    <3>6. CASE t # l
      BY <1>9, <3>4, <3>6
    <3> QED  BY <3>5, <3>6
  <2>2. \A t \in 1..Len(session) : session'[t].request = session[t].request
    BY <1>8, <1>9
  <2> QED  BY <1>2, <1>9, <2>1, <2>2 DEF SessionsInv, Channel, PeerChannel, Topic
<1> QED  BY <1>6, <1>10, <1>11, <1>12 DEF SyncInv

LEMMA HandledBadlyKeeps ==
    ASSUME SyncInv, NEW call \in handling, HandledBadly(call)
    PROVE  SyncInv'
<1> DEFINE events == answer[call.of].sent[call.index].events
<1>1. LogOK /\ RecordsOK /\ NetworkOK /\ SessionsInv
  BY DEF SyncInv
<1>2. PICK n \in 0..Len(events) : ApplyEvents(Channel(call.by), SubSeq(events, 1, n))
  BY DEF HandledBadly
<1>3. handling' = handling \ {call} /\ UNCHANGED <<session, answer, subscribed, flight>>
  BY DEF HandledBadly
<1>4. Channel(call.by) \in Nodes \X Topics
  BY <1>1, Records DEF NetworkOK
<1>5. events \in Seq(1..MaxEvents)
  BY <1>1, SentEventsTyped
<1> HIDE DEF events
<1>6. SubSeq(events, 1, n) \in Seq(1..MaxEvents)
  <2> DEFINE A == 1..MaxEvents
  <2>1. Len(events) \in Nat /\ \A i \in 1..Len(events) : events[i] \in A
    BY <1>5, SyncAssumption
  <2>2. \A i \in 1..n : i \in 1..Len(events)
    BY <2>1
  <2> HIDE DEF A
  <2>3. \A i \in 1..n : events[i] \in A
    BY <2>1, <2>2
  <2>4. n \in Int /\ 1 \in Int
    BY <2>1
  <2>5. SubSeq(events, 1, n) \in Seq(A)
    BY <2>3, <2>4, SubSeqProperties
  <2> QED  BY <2>5 DEF A
<1>7. LogOK' /\ \A d \in Nodes \X Topics : Grown(log[d], log'[d])
  BY <1>1, <1>2, <1>4, <1>6, ApplyEventsGrows
<1>8. RecordsOK' /\ SessionsInv'
  BY <1>1, <1>3, <1>7, SessionsStay
<1>9. NetworkOK'
  BY <1>1, <1>3 DEF NetworkOK, Sent
<1> QED  BY <1>7, <1>8, <1>9 DEF SyncInv

LEMMA LearnKeeps ==
    ASSUME SyncInv, NEW c \in Learners, Learn(c)
    PROVE  SyncInv'
<1> DEFINE new == Admit(log[c], log[c].last + 1)
<1>1. LogOK /\ RecordsOK /\ NetworkOK /\ SessionsInv
  BY DEF SyncInv
<1>2. c \in Nodes \X Topics
  BY SyncAssumption
<1>3. GoodChain(log[c]) /\ log[c].last \in 0..MaxEvents
  BY <1>1, <1>2 DEF LogOK, Chain
<1>4. log[c].last + 1 \in 1..MaxEvents
  BY <1>3, SyncAssumption DEF Learn
<1>5. GoodChain(new) /\ Grown(log[c], new)
  BY <1>3, <1>4, AdmitGrows
<1>6. log' = [log EXCEPT ![c] = new] /\ UNCHANGED <<session, answer, subscribed, flight, handling>>
  BY DEF Learn
<1> HIDE DEF new
<1>7. LogOK' /\ \A d \in Nodes \X Topics : Grown(log[d], log'[d])
  BY <1>1, <1>2, <1>5, <1>6, LogGrows
<1>8. RecordsOK' /\ SessionsInv'
  BY <1>1, <1>6, <1>7, SessionsStay
<1>9. NetworkOK'
  BY <1>1, <1>6 DEF NetworkOK, Sent
<1> QED  BY <1>7, <1>8, <1>9 DEF SyncInv

LEMMA SyncInit == Init => SyncInv
<1> SUFFICES ASSUME Init
             PROVE  SyncInv
  OBVIOUS
<1>1. LogOK
  <2>1. PICK first \in FirstLogs :
            log = [c \in Nodes \X Topics |-> [last |-> first[c], spent |-> 1..first[c]]]
    BY DEF Init
  <2>2. ASSUME NEW c \in Nodes \X Topics
        PROVE  log[c] \in Chain /\ GoodChain(log[c])
    <3>1. first[c] \in 0..MaxEvents /\ MaxEvents \in Nat
      BY SyncAssumption
    <3>2. log[c] = [last |-> first[c], spent |-> 1..first[c]]
      BY <2>1
    <3>3. 1..first[c] \in SUBSET (1..MaxEvents)
      BY <3>1
    <3> QED  BY <3>1, <3>2, <3>3 DEF Chain, GoodChain
  <2>3. log = [c \in Nodes \X Topics |-> log[c]]
    BY <2>1
  <2> QED  BY <2>2, <2>3 DEF LogOK
<1>2. session = <<>> /\ answer = <<>> /\ Len(session) = 0 /\ Len(answer) = 0
  BY DEF Init
<1>3. RecordsOK
  BY <1>2, EmptySeq, SyncAssumption DEF RecordsOK
<1>4. NetworkOK
  BY DEF Init, NetworkOK
<1>5. SessionsInv
  BY <1>2 DEF SessionsInv
<1> QED  BY <1>1, <1>3, <1>4, <1>5 DEF SyncInv

LEMMA SyncStep ==
    ASSUME SyncInv, [Next]_vars
    PROVE  SyncInv'
<1>1. CASE \E c \in Learners : Learn(c)
  BY <1>1, LearnKeeps
<1>2. ASSUME NEW r \in Requests, Start(r)
      PROVE  SyncInv'
  BY <1>2, BeginKeeps DEF Start
<1>3. ASSUME NEW r \in Requests, StartThrows(r)
      PROVE  SyncInv'
  BY <1>3, BeginKeeps DEF StartThrows
<1>4. ASSUME NEW s \in Sessions, Subscribe(s) \/ AnswerStep(s)
      PROVE  SyncInv'
  BY <1>4, SubscribeKeeps, AnswerStepKeeps
<1>5. ASSUME NEW copy \in flight, Deliver(copy) \/ Drop(copy)
      PROVE  SyncInv'
  BY <1>5, DeliverKeeps
<1>6. ASSUME NEW call \in handling, Handled(call) \/ HandledBadly(call)
      PROVE  SyncInv'
  BY <1>6, HandledKeeps, HandledBadlyKeeps
<1>7. CASE UNCHANGED vars
  <2>1. UNCHANGED <<log, session, answer, subscribed, flight, handling>>
    BY <1>7 DEF vars
  <2>2. LogOK' /\ \A d \in Nodes \X Topics : Grown(log[d], log'[d])
    BY <2>1, LogStays DEF SyncInv
  <2>3. RecordsOK' /\ SessionsInv'
    BY <2>1, <2>2, SessionsStay DEF SyncInv
  <2>4. NetworkOK'
    BY <2>1 DEF SyncInv, NetworkOK, Sent
  <2> QED  BY <2>2, <2>3, <2>4 DEF SyncInv
<1> QED
  BY <1>1, <1>2, <1>3, <1>4, <1>5, <1>6, <1>7 DEF Next, Background

LEMMA SyncInvariant == Spec => []SyncInv
BY SyncInit, SyncStep, PTL DEF Spec

\* What is known of one session.
LEMMA OneSession ==
    ASSUME SyncInv, NEW s \in DOMAIN session
    PROVE  /\ s \in 1..Len(session) /\ s \in Sessions
           /\ session[s] \in SessionRecord /\ answer[s] \in AnswerRecord
           /\ Channel(s) \in Nodes \X Topics /\ log[Channel(s)] \in Chain
           /\ SessionInv(session[s], answer[s], log[Channel(s)], log[PeerChannel(s)])
<1>1. LogOK /\ RecordsOK /\ SessionsInv
  BY DEF SyncInv
<1> QED  BY <1>1, Records DEF SessionsInv, LogOK

LEMMA TypesFollow == SyncInv => TypeOK
<1> SUFFICES ASSUME SyncInv
             PROVE  TypeOK
  OBVIOUS
<1>1. LogOK /\ RecordsOK /\ NetworkOK
  BY DEF SyncInv
<1>2. /\ log \in [Nodes \X Topics -> [last : 0..MaxEvents, spent : SUBSET (1..MaxEvents)]]
      /\ \A c \in DOMAIN log : 1..log[c].last \subseteq log[c].spent
  BY <1>1 DEF LogOK, GoodChain, Chain
<1>3. DOMAIN session \subseteq Sessions /\ DOMAIN answer = DOMAIN session
  BY <1>1, Records
<1>4. ASSUME NEW s \in DOMAIN session
      PROVE  /\ session[s].pc \in {"subscribing", "listening", "ended"}
             /\ session[s].request \in Requests
             /\ session[s].filter \in [0..(Bytes - 1) -> SUBSET (0..7)]
             /\ session[s].latest \in 0..MaxEvents
             /\ session[s].handled \subseteq DOMAIN answer[s].sent
             /\ answer[s].pc \in {"asked", "comparing", "sending", "done"}
             /\ answer[s].known \in 0..MaxEvents
             /\ ToSet(answer[s].missing) \subseteq 1..MaxEvents
             /\ \A i \in DOMAIN answer[s].sent : answer[s].sent[i].has_more \in BOOLEAN
  <2> DEFINE r == session[s]
             a == answer[s]
  <2>1. r \in SessionRecord /\ a \in AnswerRecord /\ r.handled \subseteq 1..Len(a.sent)
    BY OneSession DEF SessionInv
  <2> HIDE DEF r, a
  <2>2. a.missing \in Seq(1..MaxEvents) /\ a.sent \in Seq(Snapshots)
    BY <2>1 DEF AnswerRecord
  <2>3. DOMAIN a.sent = 1..Len(a.sent) /\ \A i \in DOMAIN a.sent : a.sent[i].has_more \in BOOLEAN
    <3>1. DOMAIN a.sent = 1..Len(a.sent)
      BY <2>2, LenProperties
    <3>2. \A i \in DOMAIN a.sent : a.sent[i] \in Snapshots
      BY <2>2, <3>1, ElementOfSeq
    <3> QED  BY <3>1, <3>2 DEF Snapshots
  <2>4. ToSet(a.missing) \subseteq 1..MaxEvents
    <3> DEFINE A == 1..MaxEvents
    <3> HIDE DEF A
    <3>1. a.missing \in [1..Len(a.missing) -> A] /\ DOMAIN a.missing = 1..Len(a.missing)
      BY <2>2, LenProperties DEF A
    <3>2. ToSet(a.missing) \subseteq A
      BY <3>1 DEF ToSet
    <3> QED  BY <3>2 DEF A
  <2> QED  BY <2>1, <2>3, <2>4 DEF SessionRecord, AnswerRecord, r, a
<1>5. subscribed \subseteq Nodes \X Topics /\ flight \subseteq Copies /\ handling \subseteq Calls
  BY <1>1 DEF NetworkOK
<1> QED  BY <1>2, <1>3, <1>4, <1>5 DEF TypeOK

LEMMA CutFollows == SyncInv => SnapshotsCutTheMissing
<1> SUFFICES ASSUME SyncInv, NEW s \in DOMAIN session
             PROVE  /\ SentEvents(s) = SubSeq(answer[s].missing, 1, Len(SentEvents(s)))
                    /\ \A i \in DOMAIN answer[s].sent :
                          answer[s].sent[i].has_more
                            <=> i < Len(answer[s].sent)
                                \/ Len(SentEvents(s)) < Len(answer[s].missing)
                    /\ answer[s].pc = "done" /\ ~IsFaulty(s) =>
                          SentEvents(s) = answer[s].missing
  BY DEF SnapshotsCutTheMissing
<1> DEFINE a == answer[s]
           k == Len(a.sent)
           n == Len(a.missing)
           sent == IF k * ChunkSize < n THEN k * ChunkSize ELSE n
<1>1. a \in AnswerRecord /\ Cut(a) /\ Complete(session[s], a)
  BY OneSession DEF SessionInv
<1>2. SentEvents(s) = Events(a.sent)
  BY DEF SentEvents, Events
<1> HIDE DEF a
<1>3. Events(a.sent) = SubSeq(a.missing, 1, sent) /\ Len(Events(a.sent)) = sent
  BY <1>1, EventsCut
<1>4. /\ k \in Nat /\ n \in Nat /\ ChunkSize \in Nat /\ ChunkSize > 0
      /\ a.missing \in Seq(1..MaxEvents) /\ a.sent \in Seq(Snapshots)
  BY <1>1, SyncAssumption DEF AnswerRecord
<1>5. DOMAIN a.sent = 1..k /\ k * ChunkSize \in Nat
  BY <1>4, LenProperties, Chunks
<1>6. ASSUME NEW i \in 1..k
      PROVE  a.sent[i].has_more <=> i < k \/ sent < n
  <2> DEFINE j == i - 1
  <2>1. j \in Nat /\ j + 1 = i
    BY <1>4
  <2>2. a.sent[i] = Snapshot(a.missing, j * ChunkSize)
    BY <1>1, <1>6 DEF Cut
  <2>3. a.sent[i].has_more = (j * ChunkSize + ChunkSize < n)
    BY <2>2 DEF Snapshot
  <2> HIDE DEF j
  <2>4. (j + 1) * ChunkSize = j * ChunkSize + ChunkSize /\ j * ChunkSize \in Nat
    BY <2>1, Chunks
  <2>5. CASE i < k
    <3> DEFINE h == k - 1
    <3>1. h \in Nat /\ i <= h /\ k > 1
      BY <1>4, <2>5
    <3>2. h * ChunkSize < n
      BY <1>1, <3>1 DEF Cut
    <3> HIDE DEF h
    <3>3. h * ChunkSize \in Nat /\ (j < h => j * ChunkSize + ChunkSize <= h * ChunkSize)
      BY <2>1, <3>1, Chunks
    <3>4. j * ChunkSize + ChunkSize < n
      BY <1>4, <2>1, <2>4, <3>1, <3>2, <3>3
    <3> QED  BY <2>3, <2>5, <3>4
  <2>6. CASE ~(i < k)
    <3>1. i = k
      BY <1>4, <1>6, <2>6
    <3>2. k * ChunkSize = j * ChunkSize + ChunkSize
      BY <2>1, <2>4, <3>1
    <3>3. sent < n <=> k * ChunkSize < n
      BY <1>4, <1>5
    <3>4. sent < n <=> a.sent[i].has_more
      <4> HIDE DEF sent, k, n
      <4> QED  BY <2>3, <3>2, <3>3
    <3> HIDE DEF sent, k, n
    <3> QED  BY <2>6, <3>4
  <2> QED  BY <2>5, <2>6
<1>7. ASSUME a.pc = "done", ~IsFaulty(s)
      PROVE  Events(a.sent) = a.missing
  <2>1. k * ChunkSize >= n
    BY <1>1, <1>7 DEF Complete, IsFaulty
  <2>2. sent = n
    BY <1>4, <1>5, <2>1
  <2>3. SubSeq(a.missing, 1, n) = a.missing
    BY <1>4, SubSeqFull
  <2> QED  BY <1>3, <2>2, <2>3
<1> HIDE DEF k, n, sent
<1> QED  BY <1>2, <1>3, <1>5, <1>6, <1>7 DEF a, k, n

LEMMA CaughtUpFollows == SyncInv => CaughtUp
<1> DEFINE heard(s) == UNION {ToSet(answer[s].sent[i].events) : i \in session[s].handled}
<1> SUFFICES ASSUME SyncInv, NEW s \in DOMAIN session, answer[s].sent # <<>>,
                    NEW e \in (1..answer[s].known) \ log[Channel(s)].spent,
                    ~BloomContains(session[s].filter, e)
             PROVE  e \in ToSet(answer[s].missing) /\ e \notin heard(s)
  BY DEF CaughtUp
<1> DEFINE r == session[s]
           a == answer[s]
           chain == log[Channel(s)]
<1>1. a \in AnswerRecord /\ Compared(r, a) /\ Logged(r, a, chain, log[PeerChannel(s)])
  BY OneSession DEF SessionInv
<1>2. Len(a.sent) > 0
  <2>1. a.sent \in Seq(Snapshots)
    BY <1>1 DEF AnswerRecord
  <2> QED  BY <2>1, EmptySeq, LenProperties
<1>3. e \in ToSet(a.missing)
  BY <1>1, <1>2 DEF Compared
<1>4. \A i \in r.handled : e \notin ToSet(a.sent[i].events)
  BY <1>1 DEF Logged
<1> QED  BY <1>3, <1>4

\* What a synchronisation keeps is typed: every session has its answer, a snapshot
\* in flight or with a listener has been sent, and no answer has more snapshots than
\* MaxEvents divided by ChunkSize, plus one (requestSync and handleSyncRequest,
\* sync.ts).
THEOREM SyncTypeCorrect == Spec => []TypeOK
BY SyncInvariant, TypesFollow, PTL

\* The snapshots of an answer are the missing events, cut without gap or overlap,
\* whatever their number and the size of a chunk, and exactly the one with the last
\* of them says that there are no more (the loop of handleSyncRequest, sync.ts).
THEOREM AnswersAreCut == Spec => []SnapshotsCutTheMissing
BY SyncInvariant, CutFollows, PTL

\* What the requester had is not sent, unless the peer learned it while it
\* answered, whatever the filter finds falsely (handleSyncRequest, sync.ts).
THEOREM AnswersAreNews == Spec => []OnlyNewsIsSent
<1>1. SyncInv => OnlyNewsIsSent
  BY OneSession DEF OnlyNewsIsSent, SessionInv, Compared
<1> QED  BY <1>1, SyncInvariant, PTL

\* What the peer had and the requester has not was refused out of order, falsely
\* found in the filter, or in no snapshot that was handled (requestSync and
\* handleSyncRequest, sync.ts).
THEOREM SessionsCatchUp == Spec => []CaughtUp
BY SyncInvariant, CaughtUpFollows, PTL

-----------------------------------------------------------------------------
(* Subscriptions.                                                          *)

\* What a session is made of, apart from the types of what it was given.
IsSession(r) ==
    r = [pc |-> r.pc, request |-> r.request, filter |-> r.filter, latest |-> r.latest,
         handled |-> r.handled]

SessionsOK ==
    /\ Len(session) \in Nat /\ session = [s \in 1..Len(session) |-> session[s]]
    /\ \A s \in DOMAIN session : IsSession(session[s])

SubscriptionInv == SessionsOK /\ SubscribedWhileListening

\* As far as subscriptions go, a session keeps its channel, and listens on unless
\* it ends.
Listens(s, c) == At(s, "listening") /\ Channel(s) = c

LEMMA AppendSession ==
    ASSUME SessionsOK, NEW r, IsSession(r), session' = Append(session, r)
    PROVE  /\ SessionsOK'
           /\ \A s, c : Listens(s, c) => Listens(s, c)'
<1> DEFINE S == {session[s] : s \in DOMAIN session} \union {r}
<1>1. DOMAIN session = 1..Len(session) /\ Len(session) \in Nat
  BY DEF SessionsOK
<1>2. session \in Seq(S)
  <2>1. session = [s \in 1..Len(session) |-> session[s]]
    BY DEF SessionsOK
  <2>2. \A s \in 1..Len(session) : session[s] \in S
    BY <1>1
  <2>3. session \in [1..Len(session) -> S]
    BY <2>1, <2>2
  <2> QED
    BY <1>1, <2>3, SeqDef
<1>3. /\ session' \in Seq(S) /\ Len(session') = Len(session) + 1
      /\ session'[Len(session) + 1] = r
      /\ \A s \in 1..Len(session) : session'[s] = session[s]
  <2>1. r \in S
    OBVIOUS
  <2> HIDE DEF S
  <2> QED
    BY <1>2, <2>1, AppendProperties
<1>4. session' = [s \in 1..Len(session') |-> session'[s]] /\ DOMAIN session' = 1..Len(session')
  BY <1>3, LenProperties
<1>5. SessionsOK'
  <2>1. \A s \in 1..(Len(session) + 1) : s \in 1..Len(session) \/ s = Len(session) + 1
    BY <1>1
  <2> QED
    BY <1>1, <1>3, <1>4, <2>1 DEF SessionsOK
<1>6. \A s, c : Listens(s, c) => Listens(s, c)'
  BY <1>1, <1>3, <1>4 DEF Listens, At, Channel, Topic
<1> QED
  BY <1>5, <1>6

LEMMA UpdateSession ==
    ASSUME SessionsOK, NEW l, NEW pc, NEW handled,
           session' = [session EXCEPT ![l].pc = pc, ![l].handled = handled]
    PROVE  /\ SessionsOK' /\ DOMAIN session' = DOMAIN session
           /\ \A s, c : /\ s # l /\ Listens(s, c) => Listens(s, c)'
                        /\ pc = session[l].pc /\ Listens(s, c) => Listens(s, c)'
<1>1. DOMAIN session = 1..Len(session) /\ Len(session) \in Nat
  BY DEF SessionsOK
<1>2. DOMAIN session' = 1..Len(session) /\ session' = [s \in 1..Len(session) |-> session'[s]]
  BY <1>1
<1>3. Len(session') = Len(session)
  <2> DEFINE S == {session'[s] : s \in 1..Len(session)}
  <2>1. session' \in [1..Len(session) -> S]
    BY <1>2
  <2> HIDE DEF S
  <2>2. session' \in Seq(S)
    BY <1>1, <2>1, SeqDef
  <2> QED
    BY <1>1, <1>2, <2>2, LenProperties
<1>4. ASSUME NEW s \in 1..Len(session)
      PROVE  /\ IsSession(session'[s]) /\ session'[s].request = session[s].request
             /\ s # l => session'[s] = session[s]
             /\ s = l => session'[s].pc = pc
  <2>1. IsSession(session[s])
    BY <1>1 DEF SessionsOK
  <2>2. s = l => session'[s] = [session[s] EXCEPT !.pc = pc, !.handled = handled]
    BY <1>1
  <2>3. s # l => session'[s] = session[s]
    BY <1>1
  <2> QED
    BY <2>1, <2>2, <2>3 DEF IsSession
<1>5. SessionsOK'
  BY <1>1, <1>2, <1>3, <1>4 DEF SessionsOK
<1>6. \A s, c : /\ s # l /\ Listens(s, c) => Listens(s, c)'
                /\ pc = session[l].pc /\ Listens(s, c) => Listens(s, c)'
  BY <1>1, <1>2, <1>4 DEF Listens, At, Channel, Topic
<1> QED
  BY <1>1, <1>2, <1>5, <1>6

\* A step that keeps the sessions as they are, or has them listen on, may only
\* take subscriptions away.
LEMMA StillListening ==
    ASSUME SubscribedWhileListening, subscribed' \subseteq subscribed,
           \A c \in subscribed' : \A s : Listens(s, c) => Listens(s, c)'
    PROVE  SubscribedWhileListening'
<1> SUFFICES ASSUME NEW c \in subscribed'
             PROVE  \E s \in DOMAIN session' : At(s, "listening")' /\ Channel(s)' = c
  BY DEF SubscribedWhileListening
<1>1. PICK s \in DOMAIN session : At(s, "listening") /\ Channel(s) = c
  BY DEF SubscribedWhileListening
<1>2. Listens(s, c)'
  BY <1>1 DEF Listens
<1> QED
  BY <1>2 DEF Listens, At

LEMMA SubscriptionStep ==
    ASSUME SubscriptionInv, [Next]_vars
    PROVE  SubscriptionInv'
<1> SessionsOK /\ SubscribedWhileListening
  BY DEF SubscriptionInv
<1>1. CASE UNCHANGED <<session, subscribed>>
  BY <1>1 DEF SubscriptionInv, SessionsOK, SubscribedWhileListening, At, Channel, Topic
<1>2. ASSUME NEW r \in Requests, Start(r) \/ StartThrows(r)
      PROVE  SubscriptionInv'
  <2>1. ASSUME NEW pc, NEW answerPc, Begin(r, pc, answerPc)
        PROVE  SubscriptionInv'
    <3> DEFINE new == [pc |-> pc, request |-> r, filter |-> FilterOfKnown(<<r.node, r.topic>>),
                       latest |-> log[<<r.node, r.topic>>].last, handled |-> {}]
    <3>1. session' = Append(session, new) /\ UNCHANGED subscribed
      BY <2>1 DEF Begin
    <3>2. IsSession(new)
      BY DEF IsSession
    <3> HIDE DEF new
    <3> QED
      BY <3>1, <3>2, AppendSession, StillListening DEF SubscriptionInv
  <2> QED
    BY <1>2, <2>1 DEF Start, StartThrows
<1>3. ASSUME NEW l \in Sessions, Subscribe(l)
      PROVE  SubscriptionInv'
  <2>1. l \in DOMAIN session /\ IsSession(session[l])
        /\ session' = [session EXCEPT ![l].pc = "listening"]
        /\ subscribed' = subscribed \union {Channel(l)}
    BY <1>3 DEF Subscribe, At, Goto, SessionsOK
  <2>2. session' = [session EXCEPT ![l].pc = "listening", ![l].handled = session[l].handled]
    BY <2>1 DEF IsSession
  <2>3. SessionsOK' /\ DOMAIN session' = DOMAIN session
        /\ \A s, c : s # l /\ Listens(s, c) => Listens(s, c)'
    BY <2>2, UpdateSession
  <2>4. session'[l].pc = "listening" /\ session'[l].request = session[l].request
    BY <2>1 DEF IsSession, SessionsOK
  <2>5. ASSUME NEW c \in subscribed'
        PROVE  \E s \in DOMAIN session' : At(s, "listening")' /\ Channel(s)' = c
    <3>1. CASE c = Channel(l)
      BY <2>1, <2>3, <2>4, <3>1 DEF At, Channel, Topic
    <3>2. CASE c # Channel(l)
      <4>1. PICK s \in DOMAIN session : Listens(s, c)
        BY <2>1, <2>5, <3>2 DEF SubscribedWhileListening, Listens
      <4>2. s # l
        BY <3>2, <4>1 DEF Listens
      <4>3. Listens(s, c)'
        BY <2>3, <4>1, <4>2
      <4> QED
        BY <4>3 DEF Listens, At
    <3> QED
      BY <3>1, <3>2
  <2> QED
    BY <2>3, <2>5 DEF SubscriptionInv, SubscribedWhileListening
<1>4. ASSUME NEW call \in handling, Handled(call)
      PROVE  SubscriptionInv'
  <2> DEFINE l == call.by
             more == answer[call.of].sent[call.index].has_more
             pc == IF more THEN session[l].pc ELSE "ended"
             handled == IF call.of = l THEN session[l].handled \union {call.index}
                                       ELSE session[l].handled
  <2>1. /\ session' = [session EXCEPT ![l].pc = pc, ![l].handled = handled]
        /\ subscribed' = IF more THEN subscribed ELSE Unsubscribed(l)
    BY <1>4 DEF Handled
  <2>2. SessionsOK' /\ \A s, c : /\ s # l /\ Listens(s, c) => Listens(s, c)'
                                 /\ pc = session[l].pc /\ Listens(s, c) => Listens(s, c)'
    <3> HIDE DEF pc, handled
    <3> QED
      BY <2>1, UpdateSession
  <2>3. CASE more
    <3>1. pc = session[l].pc
      BY <2>3
    <3> QED
      BY <2>1, <2>2, <2>3, <3>1, StillListening DEF SubscriptionInv
  <2>4. CASE ~more
    <3>1. subscribed' = subscribed \ {Channel(l)}
      BY <2>1, <2>4 DEF Unsubscribed
    <3>2. ASSUME NEW c \in subscribed', NEW s, Listens(s, c)
          PROVE  Listens(s, c)'
      <4>1. s # l
        BY <3>1, <3>2 DEF Listens
      <4> QED
        BY <2>2, <3>2, <4>1
    <3> QED
      BY <2>2, <3>1, <3>2, StillListening DEF SubscriptionInv
  <2> QED
    BY <2>3, <2>4
<1>5. CASE \E c \in Learners : Learn(c)
  BY <1>1, <1>5 DEF Learn
<1>6. CASE \E s \in Sessions : AnswerStep(s)
  BY <1>1, <1>6 DEF AnswerStep, ReadKnown, ReadMissing, PublishSnapshot, AnswerThrows
<1>7. CASE \E copy \in flight : Deliver(copy) \/ Drop(copy)
  BY <1>1, <1>7 DEF Deliver, Drop
<1>8. CASE \E call \in handling : HandledBadly(call)
  BY <1>1, <1>8 DEF HandledBadly
<1>9. CASE UNCHANGED vars
  BY <1>1, <1>9 DEF vars
<1> QED
  BY <1>2, <1>3, <1>4, <1>5, <1>6, <1>7, <1>8, <1>9 DEF Next, Background

\* A node is subscribed to a topic only while one of its sessions listens there,
\* for any number of sessions, topics and lost or failing steps: unsubscribe takes
\* the topic from all of them at once (requestSync, sync.ts; unsubscribe, node.ts).
THEOREM SubscriptionsHaveListeners == Spec => []SubscribedWhileListening
<1>1. Init => SubscriptionInv
  BY EmptySeq DEF Init, SubscriptionInv, SessionsOK, SubscribedWhileListening
<1>2. SubscriptionInv /\ [Next]_vars => SubscriptionInv'
  BY SubscriptionStep
<1>3. SubscriptionInv => SubscribedWhileListening
  BY DEF SubscriptionInv
<1> QED
  BY <1>1, <1>2, <1>3, PTL DEF Spec
================================================================================
