----------------------------- MODULE StorageProofs -----------------------------
(***************************************************************************)
(* The file of a node, for any messages, edges, users and bounds of time:  *)
(* what crashes and failed openings leave of the schema, and what the      *)
(* stores keep.                                                            *)
(***************************************************************************)
EXTENDS Queries, MatcherProofs

\* There are tables to create.
LEMMA SchemaLength == Len(Schema) \in Nat
    BY DEF Schema

\* Every variable keeps its type: the steps of opening and closing.
LEMMA OpeningTypes == TypeOK /\ Opening => TypeOK'
<1> SUFFICES ASSUME TypeOK, Opening PROVE TypeOK'
    OBVIOUS
<1> USE SchemaLength DEF TypeOK, rowVars, schemaVars
<1>1. CASE OpenFile
    BY <1>1 DEF OpenFile
<1>2. CASE TrackMigrations
    BY <1>2 DEF TrackMigrations
<1>3. CASE CreateTable
    BY <1>3 DEF CreateTable
<1>4. CASE RecordMigration
    BY <1>4 DEF RecordMigration
<1>5. CASE OpenThrows
    BY <1>5 DEF OpenThrows
<1>6. CASE CloseDatabase
    BY <1>6 DEF CloseDatabase
<1>7. CASE Crash
    BY <1>7 DEF Crash
<1> QED BY <1>1, <1>2, <1>3, <1>4, <1>5, <1>6, <1>7 DEF Opening

\* Every variable keeps its type: the steps of the stores.
LEMMA StoringTypes == TypeOK /\ Storing => TypeOK'
<1> SUFFICES ASSUME TypeOK, Storing PROVE TypeOK'
    OBVIOUS
<1> USE DEF TypeOK, unchangedFile, graphVars, schemaVars
<1>1. ASSUME NEW m \in Messages, AppendEvent(m) PROVE TypeOK'
  <2>1. events' \in Seq(Messages)
    BY <1>1 DEF AppendEvent
  <2> QED BY <1>1, <2>1 DEF AppendEvent
<1>2. ASSUME NEW n \in NodeIds, UpsertNode(n) \/ DeleteNode(n) PROVE TypeOK'
    BY <1>2 DEF UpsertNode, DeleteNode
<1>3. ASSUME NEW e \in Edges, UpsertEdge(e) \/ DeleteEdge(e) PROVE TypeOK'
    BY <1>3 DEF UpsertEdge, DeleteEdge
<1>4. ASSUME NEW u \in Users, NEW score \in Scores, UpsertTrust(u, score) PROVE TypeOK'
  <2>1. trust' \in [Users -> SUBSET Scores]
    BY <1>4 DEF UpsertTrust
  <2> QED BY <1>4, <2>1 DEF UpsertTrust
<1>5. ASSUME NEW u \in Users, NEW n \in Nonces, RecordNonce(u, n) PROVE TypeOK'
  <2>1. [user |-> u, nonce |-> n, at |-> now] \in [user : Users, nonce : Nonces, at : 1..MaxNow]
    OBVIOUS
  <2>2. /\ nonces' \subseteq [user : Users, nonce : Nonces, at : 1..MaxNow]
        /\ fresh' \subseteq [user : Users, nonce : Nonces, at : 1..MaxNow]
    BY <1>5, <2>1 DEF RecordNonce
  <2> QED BY <1>5, <2>2 DEF RecordNonce
<1>6. CASE EvictExpiredNonces
    BY <1>6 DEF EvictExpiredNonces
<1> QED BY <1>1, <1>2, <1>3, <1>4, <1>5, <1>6 DEF Storing

\* Every variable keeps its type.
LEMMA TypeStep == TypeOK /\ [Next]_vars => TypeOK'
<1> SUFFICES ASSUME TypeOK, [Next]_vars PROVE TypeOK'
    OBVIOUS
<1>1. CASE Tick
    BY <1>1, TimeAssumption DEF Tick, TypeOK, rowVars, schemaVars
<1>2. ASSUME NEW t \in Topics, ReadTopic(t) PROVE TypeOK'
    BY <1>2 DEF ReadTopic, TypeOK, rowVars, unchangedFile, schemaVars
<1>3. CASE UNCHANGED vars
    BY <1>3 DEF vars, TypeOK, rowVars, schemaVars
<1> QED BY <1>1, <1>2, <1>3, OpeningTypes, StoringTypes DEF Next

\* Types, of every variable of the module and every table, through any crash.
THEOREM TypeCorrect == Spec => []TypeOK
<1>1. Init => TypeOK
  <2> SUFFICES ASSUME Init PROVE TypeOK
      OBVIOUS
  <2>1. trust \in [Users -> SUBSET Scores]
    BY DEF Init
  <2>2. now \in 1..MaxNow /\ created \in 0..Len(Schema)
    BY SchemaLength, TimeAssumption DEF Init
  <2>3. events \in Seq(Messages) /\ DOMAIN seen = Topics
    BY DEF Init
  <2> QED BY <2>1, <2>2, <2>3 DEF Init, TypeOK
<1> QED BY <1>1, TypeStep, PTL DEF Spec

-----------------------------------------------------------------------------
(* The schema.                                                             *)

\* Nothing that the stores do changes the schema or the state of the handle.
LEMMA StoresLeaveSchema ==
    (Storing \/ Tick \/ \E t \in Topics : ReadTopic(t)) \/ UNCHANGED vars
      => UNCHANGED <<open, step, threw, tracked, created, applied>>
  BY DEF Storing, AppendEvent, UpsertNode, DeleteNode, UpsertEdge, DeleteEdge, UpsertTrust,
         RecordNonce, EvictExpiredNonces, Tick, ReadTopic, vars, unchangedFile, schemaVars

\* Each step keeps both, as the row of a migration is its last statement.
LEMMA SchemaStep == SchemaIsSound /\ [Next]_vars => SchemaIsSound'
<1> SUFFICES ASSUME SchemaIsSound, [Next]_vars PROVE SchemaIsSound'
    OBVIOUS
<1> USE DEF SchemaIsSound, AppliedMeansComplete, HealthyHandleIsMigrated, schemaVars
<1>1. CASE OpenFile
    BY <1>1 DEF OpenFile
<1>2. CASE TrackMigrations
    BY <1>2 DEF TrackMigrations
<1>3. CASE CreateTable
    BY <1>3, SchemaLength DEF CreateTable
<1>4. CASE RecordMigration
    BY <1>4 DEF RecordMigration
<1>5. CASE OpenThrows
    BY <1>5 DEF OpenThrows
<1>6. CASE CloseDatabase
    BY <1>6 DEF CloseDatabase
<1>7. CASE Crash
    BY <1>7 DEF Crash
<1>8. CASE Storing \/ Tick \/ (\E t \in Topics : ReadTopic(t)) \/ UNCHANGED vars
    BY <1>8, StoresLeaveSchema
<1> QED BY <1>1, <1>2, <1>3, <1>4, <1>5, <1>6, <1>7, <1>8 DEF Next, Opening

\* What openDatabase says of a file is true, wherever earlier openings were cut off
\* or threw.
THEOREM SchemaHolds == Spec => []SchemaIsSound
<1>1. Init => SchemaIsSound
    BY DEF Init, SchemaIsSound, AppliedMeansComplete, HealthyHandleIsMigrated
<1> QED BY <1>1, SchemaStep, PTL DEF Spec

-----------------------------------------------------------------------------
(* The log.                                                                *)

\* A step leaves the log alone, or appends a message whose id it does not hold.
LEMMA LogStep ==
    ASSUME TypeOK, [Next]_vars
    PROVE  \/ events' = events
           \/ \E m \in Messages : /\ events' = Append(events, m)
                                  /\ \A i \in DOMAIN events : events[i].msg_id # m.msg_id
<1>1. ASSUME NEW m \in Messages, AppendEvent(m)
      PROVE  \/ events' = events
             \/ /\ events' = Append(events, m)
                /\ \A i \in DOMAIN events : events[i].msg_id # m.msg_id
    BY <1>1 DEF AppendEvent
<1>2. CASE Opening
    BY <1>2 DEF Opening, OpenFile, TrackMigrations, CreateTable, RecordMigration, OpenThrows,
                CloseDatabase, Crash, rowVars
<1>3. ASSUME NEW n \in NodeIds, UpsertNode(n) \/ DeleteNode(n) PROVE events' = events
    BY <1>3 DEF UpsertNode, DeleteNode
<1>4. ASSUME NEW e \in Edges, UpsertEdge(e) \/ DeleteEdge(e) PROVE events' = events
    BY <1>4 DEF UpsertEdge, DeleteEdge
<1>5. ASSUME NEW u \in Users, NEW score \in Scores, UpsertTrust(u, score) PROVE events' = events
    BY <1>5 DEF UpsertTrust
<1>6. ASSUME NEW u \in Users, NEW n \in Nonces, RecordNonce(u, n) PROVE events' = events
    BY <1>6 DEF RecordNonce
<1>7. CASE EvictExpiredNonces \/ Tick \/ (\E t \in Topics : ReadTopic(t)) \/ UNCHANGED vars
    BY <1>7 DEF EvictExpiredNonces, Tick, ReadTopic, vars, rowVars
<1> QED BY <1>1, <1>2, <1>3, <1>4, <1>5, <1>6, <1>7 DEF Next, Storing

\* The log of the file is append-only, through every call, failure and crash.
THEOREM LogIsAppendOnly == Spec => LogOnlyGrows
<1>1. ASSUME TypeOK, [Next]_vars
      PROVE  Len(events) <= Len(events') /\ \A i \in DOMAIN events : events'[i] = events[i]
  <2>1. CASE events' = events
    BY <2>1 DEF TypeOK
  <2>2. ASSUME NEW m \in Messages, events' = Append(events, m)
        PROVE  Len(events) <= Len(events') /\ \A i \in DOMAIN events : events'[i] = events[i]
    BY <2>2 DEF TypeOK
  <2> QED BY <1>1, <2>1, <2>2, LogStep
<1> QED BY <1>1, TypeCorrect, PTL DEF Spec, LogOnlyGrows

\* No id is stored twice, whatever is appended again.
THEOREM MessagesAreStoredOnce == Spec => []OneRowPerMessage
<1>1. Init => OneRowPerMessage
    BY DEF Init, OneRowPerMessage
<1>2. TypeOK /\ OneRowPerMessage /\ [Next]_vars => OneRowPerMessage'
  <2> SUFFICES ASSUME TypeOK, OneRowPerMessage, [Next]_vars PROVE OneRowPerMessage'
      OBVIOUS
  <2>1. CASE events' = events
    BY <2>1 DEF OneRowPerMessage
  <2>2. ASSUME NEW m \in Messages, events' = Append(events, m),
               \A i \in DOMAIN events : events[i].msg_id # m.msg_id
        PROVE  OneRowPerMessage'
    <3>1. /\ DOMAIN events' = DOMAIN events \union {Len(events) + 1}
          /\ events'[Len(events) + 1] = m
          /\ \A i \in DOMAIN events : events'[i] = events[i]
      BY <2>2 DEF TypeOK
    <3> QED BY <2>2, <3>1 DEF OneRowPerMessage
  <2> QED BY <2>1, <2>2, LogStep
<1> QED BY <1>1, <1>2, TypeCorrect, PTL DEF Spec

-----------------------------------------------------------------------------
(* The graph and the nonces.                                               *)

\* The foreign keys hold after every deletion.
THEOREM EdgesAreAnchored == Spec => []EdgesHaveNodes
<1>1. Init => EdgesHaveNodes
    BY DEF Init, EdgesHaveNodes
<1>2. EdgesHaveNodes /\ [Next]_vars => EdgesHaveNodes'
  <2> SUFFICES ASSUME EdgesHaveNodes, [Next]_vars PROVE EdgesHaveNodes'
      OBVIOUS
  <2> USE DEF EdgesHaveNodes, graphVars
  <2>1. CASE Opening
    BY <2>1 DEF Opening, OpenFile, TrackMigrations, CreateTable, RecordMigration, OpenThrows,
                CloseDatabase, Crash, rowVars
  <2>2. ASSUME NEW m \in Messages, AppendEvent(m) PROVE EdgesHaveNodes'
    BY <2>2 DEF AppendEvent
  <2>3. ASSUME NEW n \in NodeIds, UpsertNode(n) \/ DeleteNode(n) PROVE EdgesHaveNodes'
    BY <2>3 DEF UpsertNode, DeleteNode
  <2>4. ASSUME NEW e \in Edges, UpsertEdge(e) \/ DeleteEdge(e) PROVE EdgesHaveNodes'
    BY <2>4 DEF UpsertEdge, DeleteEdge
  <2>5. ASSUME NEW u \in Users, NEW score \in Scores, UpsertTrust(u, score) PROVE EdgesHaveNodes'
    BY <2>5 DEF UpsertTrust
  <2>6. ASSUME NEW u \in Users, NEW n \in Nonces, RecordNonce(u, n) PROVE EdgesHaveNodes'
    BY <2>6 DEF RecordNonce
  <2>7. CASE EvictExpiredNonces \/ Tick \/ (\E t \in Topics : ReadTopic(t)) \/ UNCHANGED vars
    BY <2>7 DEF EvictExpiredNonces, Tick, ReadTopic, vars, rowVars
  <2> QED BY <2>1, <2>2, <2>3, <2>4, <2>5, <2>6, <2>7 DEF Next, Storing
<1> QED BY <1>1, <1>2, PTL DEF Spec

\* The tables keep their constraints through every sequence of calls.
THEOREM ConstraintsAreKept == Spec => []ConstraintsHold
<1>1. OneRowPerMessage /\ EdgesHaveNodes => ConstraintsHold
    BY DEF ConstraintsHold
<1> QED BY <1>1, MessagesAreStoredOnce, EdgesAreAnchored, PTL

\* A nonce that was recorded within the TTL still has the row of that time.
FreshIsStored == \A r \in fresh : now - r.at <= NonceTTL => r \in nonces

\* A nonce is never found missing before its time, whenever evictions run.
THEOREM NoncesHold == Spec => []NonceHolds
<1>1. Init => FreshIsStored
    BY DEF Init, FreshIsStored
<1>2. TypeOK /\ FreshIsStored => NonceHolds
    BY DEF FreshIsStored, NonceHolds, HasNonce
<1>3. TypeOK /\ FreshIsStored /\ [Next]_vars => FreshIsStored'
  <2> SUFFICES ASSUME TypeOK, FreshIsStored, [Next]_vars PROVE FreshIsStored'
      OBVIOUS
  <2>0. now \in Int /\ NonceTTL \in Int /\ \A r \in fresh \union nonces : r.at \in Int
    BY TimeAssumption DEF TypeOK
  <2> USE DEF FreshIsStored, unchangedFile
  <2>1. CASE Opening
    BY <2>1 DEF Opening, OpenFile, TrackMigrations, CreateTable, RecordMigration, OpenThrows,
                CloseDatabase, Crash, rowVars
  <2>2. ASSUME NEW m \in Messages, AppendEvent(m) PROVE FreshIsStored'
    BY <2>2 DEF AppendEvent
  <2>3. ASSUME NEW n \in NodeIds, UpsertNode(n) \/ DeleteNode(n) PROVE FreshIsStored'
    BY <2>3 DEF UpsertNode, DeleteNode
  <2>4. ASSUME NEW e \in Edges, UpsertEdge(e) \/ DeleteEdge(e) PROVE FreshIsStored'
    BY <2>4 DEF UpsertEdge, DeleteEdge
  <2>5. ASSUME NEW u \in Users, NEW score \in Scores, UpsertTrust(u, score) PROVE FreshIsStored'
    BY <2>5 DEF UpsertTrust
  <2>6. ASSUME NEW u \in Users, NEW n \in Nonces, RecordNonce(u, n) PROVE FreshIsStored'
    BY <2>6 DEF RecordNonce
  <2>7. CASE EvictExpiredNonces
    BY <2>0, <2>7 DEF EvictExpiredNonces
  <2>8. CASE Tick
    BY <2>0, <2>8 DEF Tick, rowVars
  <2>9. CASE (\E t \in Topics : ReadTopic(t)) \/ UNCHANGED vars
    BY <2>9 DEF ReadTopic, vars, rowVars
  <2> QED BY <2>1, <2>2, <2>3, <2>4, <2>5, <2>6, <2>7, <2>8, <2>9 DEF Next, Storing
<1> QED BY <1>1, <1>2, <1>3, TypeCorrect, PTL DEF Spec

-----------------------------------------------------------------------------
(* Reading by pages.                                                       *)

\* Where the events of a topic stand, and those of them behind a position.
RowsOf(t) == {i \in DOMAIN events : events[i].topic = t}
RowsBehind(t, a) == {i \in RowsOf(t) : i > a}

\* s holds the events at the positions in I, each once and in order.
Holds(s, I) ==
    /\ s \in Seq(Messages)
    /\ \E p : Lists(p, Len(s), I) /\ \A k \in 1..Len(s) : s[k] = events[p[k]]

\* A reader has got events of its topic, and with each all that are before it.
HasRead(t, I) ==
    /\ Holds(seen[t], I) /\ I \subseteq RowsOf(t)
    /\ \A i \in I, j \in RowsOf(t) : j <= i => j \in I

ReadersInv == \A t \in Topics : \E I : HasRead(t, I)

\* What is selected behind an anchor is the events of the topic behind it.
LEMMA BehindAnchor ==
    ASSUME TypeOK, NEW t, NEW a \in 0..Len(events)
    PROVE  Holds(EventsOf(t, SubSeq(events, a + 1, Len(events))), RowsBehind(t, a))
<1> DEFINE n == Len(events)
           u == SubSeq(events, a + 1, n)
           I == {i \in DOMAIN u : u[i].topic = t}
           J == RowsBehind(t, a)
           page == EventsOf(t, u)
<1>1. /\ n \in Nat /\ a \in Nat /\ a <= n /\ DOMAIN events = 1..n
      /\ \A i \in 1..n : events[i] \in Messages
  BY DEF TypeOK
<1>2. u \in Seq(Messages) /\ Len(u) = n - a /\ \A i \in 1..(n - a) : u[i] = events[a + i]
  <2>1. /\ a + 1 \in Int /\ n \in Int /\ \A i \in (a + 1)..n : events[i] \in Messages
    <3>1. \A i \in (a + 1)..n : i \in 1..n
      BY <1>1
    <3> HIDE DEF n
    <3> QED  BY <1>1, <3>1
  <2>2. /\ u \in Seq(Messages) /\ Len(u) = IF a + 1 <= n THEN n - (a + 1) + 1 ELSE 0
        /\ \A i \in 1..(n - (a + 1) + 1) : u[i] = events[(a + 1) + i - 1]
    <3> HIDE DEF n
    <3> QED  BY <2>1, SubSeqProperties
  <2>3. \A i \in 1..(n - a) : (a + 1) + i - 1 = a + i
    BY <1>1
  <2>4. n - (a + 1) + 1 = n - a /\ (~(a + 1 <= n) => n - a = 0)
    <3> HIDE DEF n
    <3> QED  BY <1>1
  <2> HIDE DEF n, u
  <2> QED  BY <2>2, <2>3, <2>4
<1> HIDE DEF u, n
<1>3. I \in SUBSET (1..Len(u)) /\ page = Keep(u, I)
  BY <1>2 DEF EventsOf
<1>4. page \in Seq(Messages) /\ IsKept(page, u, I, Len(u))
  <2> HIDE DEF I, page
  <2> QED  BY <1>2, <1>3, KeepPositions
<1>5. PICK p : Lists(p, Len(page), I) /\ \A k \in 1..Len(page) : page[k] = u[p[k]]
  BY <1>4 DEF IsKept
<1> DEFINE m == Len(page)
           q == [k \in 1..m |-> a + p[k]]
<1>6. m \in Nat
  BY <1>4
<1>7. \A i : i \in I <=> i \in 1..(n - a) /\ a + i \in J
  <2>1. \A i \in 1..(n - a) : a + i \in 1..n /\ a + i > a
    BY <1>1
  <2>2. DOMAIN u = 1..(n - a)
    BY <1>2
  <2> QED  BY <1>1, <1>2, <2>1, <2>2 DEF RowsBehind, RowsOf
<1>8. \A j \in J : j - a \in 1..(n - a) /\ a + (j - a) = j
  BY <1>1 DEF RowsBehind, RowsOf
<1>9. I \subseteq Nat
  BY <1>1, <1>7
<1> HIDE DEF I, J, page, m
<1>10. \A k \in 1..m : p[k] \in I /\ p[k] \in Nat /\ q[k] = a + p[k] /\ q[k] \in J
  BY <1>5, <1>7, <1>9 DEF Lists, m
<1>11. q \in [1..m -> J]
  BY <1>10
<1>12. ASSUME NEW j \in 1..m, NEW k \in 1..m, j < k
       PROVE  q[j] < q[k]
  <2>1. p[j] < p[k]
    BY <1>5, <1>12 DEF Lists, m
  <2> HIDE DEF q
  <2> QED  BY <1>1, <1>10, <2>1
<1>13. ASSUME NEW j \in J
       PROVE  \E k \in 1..m : q[k] = j
  <2>1. j - a \in I /\ a + (j - a) = j
    BY <1>7, <1>8
  <2>2. PICK k \in 1..m : p[k] = j - a
    BY <1>5, <2>1 DEF Lists, m
  <2> QED  BY <1>10, <2>1, <2>2
<1>14. Lists(q, m, J)
  <2> HIDE DEF q
  <2> QED  BY <1>11, <1>12, <1>13 DEF Lists
<1>15. \A k \in 1..m : page[k] = events[q[k]]
  <2> HIDE DEF q
  <2> QED  BY <1>2, <1>5, <1>7, <1>10 DEF m
<1>16. Holds(page, J)
  <2> HIDE DEF q
  <2> QED  BY <1>4, <1>14, <1>15 DEF Holds, m
<1> QED  BY <1>16 DEF page, J, u, n

\* Where a reader of topic t stands in the file: at its last event.
Anchor(t) ==
    LET last == IF seen[t] = <<>> THEN "none" ELSE seen[t][Len(seen[t])].hash
        found == {i \in DOMAIN events : last \in {events[i].chain, events[i].hash}}
    IN IF found = {} THEN 0 ELSE CHOOSE i \in found : \A j \in found : i <= j

LEMMA PageOfReader ==
    ASSUME NEW t, ReadTopic(t), TypeOK
    PROVE  /\ seen' = [seen EXCEPT
                          ![t] = seen[t] \o EventsOf(t, SubSeq(events, Anchor(t) + 1, Len(events)))]
           /\ UNCHANGED events
BY DEF ReadTopic, GetEventsByTopic, Anchor, rowVars

\* The hash of its last event is found there, and nowhere else.
LEMMA AnchorIsLast ==
    ASSUME TypeOK, OneRowPerMessage, NEW t \in Topics, NEW I, HasRead(t, I)
    PROVE  /\ Anchor(t) \in 0..Len(events)
           /\ I = {i \in RowsOf(t) : i <= Anchor(t)}
<1> DEFINE n == Len(seen[t])
           last == IF seen[t] = <<>> THEN "none" ELSE seen[t][Len(seen[t])].hash
           found == {i \in DOMAIN events : last \in {events[i].chain, events[i].hash}}
<1>1. PICK p : Lists(p, n, I) /\ \A k \in 1..n : seen[t][k] = events[p[k]]
  BY DEF HasRead, Holds
<1>2. /\ n \in Nat /\ seen[t] \in Seq(Messages) /\ Len(events) \in Nat
      /\ DOMAIN events = 1..Len(events) /\ \A i \in DOMAIN events : events[i] \in Messages
      /\ I \subseteq DOMAIN events /\ I \subseteq RowsOf(t)
  BY DEF HasRead, Holds, TypeOK, RowsOf
<1>3. CASE n = 0
  <2>1. seen[t] = <<>> /\ I = {}
    <3>1. \A i \in I : FALSE
      BY <1>1, <1>3 DEF Lists
    <3> QED  BY <1>2, <1>3, <3>1
  <2>2. last = "none" /\ found = {}
    BY <1>2, <2>1, MessageAssumption
  <2>3. Anchor(t) = 0
    BY <2>2 DEF Anchor
  <2>4. \A i \in RowsOf(t) : ~(i <= 0)
    BY <1>2 DEF RowsOf
  <2> QED  BY <1>2, <2>1, <2>3, <2>4
<1>4. CASE n # 0
  <2> DEFINE x == p[n]
  <2>1. n \in 1..n /\ x \in I /\ x \in 1..Len(events) /\ seen[t][n] = events[x]
    BY <1>1, <1>2, <1>4 DEF Lists
  <2>2. seen[t] # <<>>
    BY <1>2, <1>4
  <2>3. last = events[x].hash
    BY <2>1, <2>2
  <2>4. found = {x}
    <3>1. x \in found
      BY <1>2, <2>1, <2>3
    <3>2. ASSUME NEW i \in found
          PROVE  i = x
      <4>1. i \in DOMAIN events /\ events[x].hash \in {events[i].hash, events[i].chain}
        BY <2>3, <3>2
      <4>2. events[x] = events[i]
        BY <1>2, <2>1, <4>1, MessageAssumption
      <4> QED  BY <1>2, <2>1, <4>1, <4>2 DEF OneRowPerMessage
    <3> QED  BY <3>1, <3>2
  <2>5. Anchor(t) = x
    <3>1. x <= x
      BY <2>1
    <3>2. Anchor(t) = IF found = {} THEN 0 ELSE CHOOSE i \in found : \A j \in found : i <= j
      BY DEF Anchor
    <3> HIDE DEF x, found
    <3>3. (CHOOSE i \in found : \A j \in found : i <= j) = x
      BY <2>4, <3>1
    <3> QED  BY <2>4, <3>2, <3>3
  <2>6. \A i \in I : i <= x
    <3> SUFFICES ASSUME NEW i \in I
                 PROVE  i <= x
      OBVIOUS
    <3>1. PICK k \in 1..n : p[k] = i
      BY <1>1 DEF Lists
    <3>2. CASE k = n
      BY <2>1, <3>1, <3>2
    <3>3. CASE k # n
      <4>1. k < n
        BY <1>2, <3>3
      <4>2. p[k] < p[n]
        BY <1>1, <2>1, <4>1 DEF Lists
      <4> QED  BY <1>2, <2>1, <3>1, <4>2
    <3> QED  BY <3>2, <3>3
  <2>7. \A i \in RowsOf(t) : i <= x => i \in I
    BY <2>1 DEF HasRead
  <2> HIDE DEF x
  <2> QED  BY <1>2, <2>1, <2>5, <2>6, <2>7
<1> QED  BY <1>3, <1>4

\* With a page, a reader has got all that is there of its topic.
LEMMA PageCompletes ==
    ASSUME TypeOK, OneRowPerMessage, NEW t \in Topics, NEW I, HasRead(t, I)
    PROVE  Holds(seen[t] \o EventsOf(t, SubSeq(events, Anchor(t) + 1, Len(events))), RowsOf(t))
<1> DEFINE a == Anchor(t)
           s == seen[t]
           page == EventsOf(t, SubSeq(events, a + 1, Len(events)))
           J == RowsBehind(t, a)
           n == Len(s)
           m == Len(page)
           u == s \o page
<1>1. a \in 0..Len(events) /\ I = {i \in RowsOf(t) : i <= a}
  BY AnchorIsLast
<1>2. Holds(page, J)
  <2> HIDE DEF a
  <2> QED  BY <1>1, BehindAnchor
<1>3. Holds(s, I)
  BY DEF HasRead
<1>4. \A i \in RowsOf(t) : i \in Nat
  BY DEF TypeOK, RowsOf
<1>5. /\ I \in SUBSET Nat /\ J \in SUBSET Nat /\ I \union J = RowsOf(t)
      /\ \A i \in I, j \in J : i < j
  <2>1. a \in Nat
    BY <1>1 DEF TypeOK
  <2> HIDE DEF a
  <2> QED  BY <1>1, <1>4, <2>1 DEF RowsBehind
<1> HIDE DEF a, s, page, J
<1>6. PICK p : Lists(p, n, I) /\ \A k \in 1..n : s[k] = events[p[k]]
  BY <1>3 DEF Holds
<1>7. PICK r : Lists(r, m, J) /\ \A k \in 1..m : page[k] = events[r[k]]
  BY <1>2 DEF Holds
<1> DEFINE q == [k \in 1..(n + m) |-> IF k <= n THEN p[k] ELSE r[k - n]]
<1>8. s \in Seq(Messages) /\ page \in Seq(Messages) /\ n \in Nat /\ m \in Nat
  BY <1>2, <1>3 DEF Holds
<1>9. /\ u \in Seq(Messages) /\ Len(u) = n + m
      /\ \A k \in 1..(n + m) : u[k] = IF k <= n THEN s[k] ELSE page[k - n]
  BY <1>8, ConcatProperties
<1>10. Lists(q, n + m, RowsOf(t))
  <2> HIDE DEF n, m
  <2> QED  BY <1>5, <1>6, <1>7, <1>8, ListJoin
<1>11. ASSUME NEW k \in 1..(n + m)
       PROVE  u[k] = events[q[k]]
  <2> HIDE DEF n, m, u
  <2>1. CASE k <= n
    <3>1. k \in 1..n
      BY <1>8, <2>1
    <3> QED  BY <1>6, <1>9, <2>1, <3>1
  <2>2. CASE ~(k <= n)
    <3>1. k - n \in 1..m
      BY <1>8, <2>2
    <3> QED  BY <1>7, <1>9, <2>2, <3>1
  <2> QED  BY <2>1, <2>2
<1>12. Holds(u, RowsOf(t))
  <2> HIDE DEF q, u, n, m
  <2> QED  BY <1>9, <1>10, <1>11 DEF Holds
<1> QED  BY <1>12 DEF u, s, page, a

LEMMA ReadersStep ==
    ASSUME TypeOK, OneRowPerMessage, ReadersInv, [Next]_vars
    PROVE  ReadersInv'
<1>1. ASSUME NEW x \in Topics, ReadTopic(x), NEW t \in Topics
      PROVE  \E I : HasRead(t, I)'
  <2>1. PICK I : HasRead(t, I)
    BY DEF ReadersInv
  <2>2. UNCHANGED events
    BY <1>1, PageOfReader
  <2>3. CASE t = x
    <3> DEFINE u == seen[t] \o EventsOf(t, SubSeq(events, Anchor(t) + 1, Len(events)))
    <3>1. seen'[t] = u
      BY <1>1, <2>3, PageOfReader DEF TypeOK
    <3>2. Holds(u, RowsOf(t))
      BY <2>1, PageCompletes
    <3>3. HasRead(t, RowsOf(t))'
      <4> HIDE DEF u
      <4> QED  BY <2>2, <3>1, <3>2 DEF HasRead, Holds, RowsOf
    <3>4. \E J : J = RowsOf(t)'
      OBVIOUS
    <3> QED  BY <3>3, <3>4 DEF HasRead, Holds, RowsOf
  <2>4. CASE t # x
    <3>1. seen'[t] = seen[t]
      BY <1>1, <2>4, PageOfReader DEF TypeOK
    <3> QED  BY <2>1, <2>2, <3>1 DEF HasRead, Holds, RowsOf
  <2> QED  BY <2>3, <2>4
<1>2. ASSUME UNCHANGED seen,
             \/ events' = events
             \/ \E m \in Messages : events' = Append(events, m),
             NEW t \in Topics
      PROVE  \E I : HasRead(t, I)'
  <2>1. PICK I : HasRead(t, I)
    BY DEF ReadersInv
  <2>2. CASE events' = events
    BY <1>2, <2>1, <2>2 DEF HasRead, Holds, RowsOf
  <2>3. ASSUME NEW m \in Messages, events' = Append(events, m)
        PROVE  HasRead(t, I)'
    <3>1. /\ Len(events) \in Nat /\ DOMAIN events = 1..Len(events)
          /\ DOMAIN events' = DOMAIN events \union {Len(events) + 1}
          /\ \A i \in DOMAIN events : events'[i] = events[i]
      BY <2>3 DEF TypeOK
    <3>2. I \subseteq DOMAIN events
      BY <2>1 DEF HasRead, RowsOf
    <3>3. I \subseteq RowsOf(t)' /\ \A i \in I, j \in RowsOf(t)' : j <= i => j \in I
      BY <2>1, <3>1, <3>2 DEF HasRead, RowsOf
    <3>4. Holds(seen[t], I)'
      <4>1. PICK p : Lists(p, Len(seen[t]), I) /\ \A k \in 1..Len(seen[t]) : seen[t][k] = events[p[k]]
        BY <2>1 DEF HasRead, Holds
      <4>2. \A k \in 1..Len(seen[t]) : seen[t][k] = events'[p[k]]
        BY <3>1, <3>2, <4>1 DEF Lists
      <4> QED  BY <1>2, <2>1, <4>1, <4>2 DEF HasRead, Holds
    <3> QED  BY <3>3, <3>4 DEF HasRead
  <2> QED  BY <1>2, <2>2, <2>3
<1>3. (\E x \in Topics : ReadTopic(x)) \/ UNCHANGED seen
  BY DEF Next, Opening, OpenFile, TrackMigrations, CreateTable, RecordMigration, OpenThrows,
         CloseDatabase, Crash, Storing, AppendEvent, UpsertNode, DeleteNode, UpsertEdge,
         DeleteEdge, UpsertTrust, RecordNonce, EvictExpiredNonces, Tick, vars
<1> QED  BY <1>1, <1>2, <1>3, LogStep DEF ReadersInv

\* What a reader has got is how the events of its topic begin.
LEMMA ReadIsPrefix ==
    ASSUME TypeOK, NEW t, NEW I, HasRead(t, I)
    PROVE  LET of == EventsOf(t, events)
           IN /\ of \in Seq(Messages) /\ Len(of) = CountEvents(t)
              /\ Len(seen[t]) \in Nat /\ Len(seen[t]) <= Len(of)
              /\ \A k \in 1..Len(seen[t]) : seen[t][k] = of[k]
<1> DEFINE of == EventsOf(t, events)
           n == Len(seen[t])
           m == Len(of)
           J == RowsOf(t)
<1>1. J \in SUBSET (1..Len(events)) /\ of = Keep(events, J) /\ J \in SUBSET Nat
  BY DEF TypeOK, RowsOf, EventsOf
<1>2. of \in Seq(Messages) /\ IsKept(of, events, J, Len(events))
  <2> HIDE DEF of, J
  <2> QED  BY <1>1, KeepPositions DEF TypeOK
<1>3. PICK q : Lists(q, m, J) /\ \A k \in 1..m : of[k] = events[q[k]]
  BY <1>2 DEF IsKept
<1>4. PICK p : Lists(p, n, I) /\ \A k \in 1..n : seen[t][k] = events[p[k]]
  BY DEF HasRead, Holds
<1>5. n \in Nat /\ m \in Nat
  BY <1>2 DEF HasRead, Holds
<1>6. I \in SUBSET J /\ \A i \in I, j \in J : j <= i => j \in I
  BY DEF HasRead
<1>7. n <= m /\ \A k \in 1..n : p[k] = q[k]
  <2> HIDE DEF n, m, J
  <2> QED  BY <1>1, <1>3, <1>4, <1>5, <1>6, ListPrefix
<1>8. Cardinality(J) = m
  <2> HIDE DEF m, J
  <2> QED  BY <1>1, <1>3, <1>5, ListCounts
<1>9. CountEvents(t) = m
  BY <1>8 DEF CountEvents, RowsOf
<1>10. ASSUME NEW k \in 1..n
       PROVE  seen[t][k] = of[k]
  <2>1. k \in 1..m
    BY <1>5, <1>7
  <2> QED  BY <1>3, <1>4, <1>7, <2>1
<1> QED  BY <1>2, <1>5, <1>7, <1>9, <1>10

\* Pages tile: whatever is stored between its calls, a reader that asks for what
\* came after its last event gets each event of the topic once, in order and
\* without a gap (getEventsByTopic).
THEOREM PagesTile == Spec => []PagesTileTheTopic
<1>1. Init => ReadersInv
  <2> SUFFICES ASSUME Init, NEW t \in Topics
               PROVE  HasRead(t, {})
    BY DEF ReadersInv
  <2>1. seen[t] = <<>> /\ Len(seen[t]) = 0 /\ seen[t] \in Seq(Messages)
    BY DEF Init
  <2>2. Lists([k \in 1..0 |-> 0], 0, {})
    BY DEF Lists
  <2> QED  BY <2>1, <2>2 DEF HasRead, Holds
<1>2. TypeOK /\ OneRowPerMessage /\ ReadersInv /\ [Next]_vars => ReadersInv'
  BY ReadersStep
<1>3. TypeOK /\ ReadersInv => PagesTileTheTopic
  <2> SUFFICES ASSUME TypeOK, ReadersInv, NEW t \in Topics
               PROVE  LET hashes == GetAllEventHashes(t)
                          n == Len(seen[t])
                      IN /\ n <= CountEvents(t)
                         /\ \A i \in 1..n : seen[t][i].hash = hashes[i]
                         /\ n = CountEvents(t) =>
                              GetLatestChainHash(t) = IF n = 0 THEN "genesis" ELSE seen[t][n].chain
    BY DEF PagesTileTheTopic
  <2> DEFINE of == EventsOf(t, events)
             n == Len(seen[t])
  <2>1. PICK I : HasRead(t, I)
    BY DEF ReadersInv
  <2>2. /\ of \in Seq(Messages) /\ Len(of) = CountEvents(t) /\ n \in Nat /\ n <= Len(of)
        /\ \A k \in 1..n : seen[t][k] = of[k]
    BY <2>1, ReadIsPrefix
  <2>3. GetAllEventHashes(t) = [i \in DOMAIN of |-> of[i].hash]
        /\ GetLatestChainHash(t) = IF of = <<>> THEN "genesis" ELSE of[Len(of)].chain
    BY DEF GetAllEventHashes, GetLatestChainHash
  <2> HIDE DEF of
  <2>4. DOMAIN of = 1..Len(of) /\ Len(of) \in Nat /\ (of = <<>> <=> Len(of) = 0)
    BY <2>2
  <2>5. \A i \in 1..n : i \in DOMAIN of
    BY <2>2, <2>4
  <2>6. n # 0 => n \in 1..n
    BY <2>2
  <2> HIDE DEF n
  <2>7. \A i \in 1..n : seen[t][i].hash = GetAllEventHashes(t)[i]
    BY <2>2, <2>3, <2>5
  <2>8. n = CountEvents(t) =>
          GetLatestChainHash(t) = IF n = 0 THEN "genesis" ELSE seen[t][n].chain
    BY <2>2, <2>3, <2>4, <2>6
  <2> QED  BY <2>2, <2>7, <2>8 DEF n
<1> QED  BY <1>1, <1>2, <1>3, TypeCorrect, MessagesAreStoredOnce, PTL DEF Spec

-----------------------------------------------------------------------------
(* The queries of the graph.                                               *)

\* However many edges a caller may store, the table has finitely many.
FiniteTable == IsFiniteSet(edges)

LEMMA TablesAreFinite == Spec => []FiniteTable
<1>1. Init => FiniteTable
  BY FS_EmptySet DEF Init, FiniteTable
<1>2. FiniteTable /\ [Next]_vars => FiniteTable'
  <2> SUFFICES ASSUME IsFiniteSet(edges), [Next]_vars
               PROVE  IsFiniteSet(edges')
    BY DEF FiniteTable
  <2>1. ASSUME edges' = edges
        PROVE  IsFiniteSet(edges')
    BY <2>1
  <2>2. CASE Opening
    BY <2>1, <2>2 DEF Opening, OpenFile, TrackMigrations, CreateTable, RecordMigration, OpenThrows,
                      CloseDatabase, Crash, rowVars
  <2>3. ASSUME NEW e \in Edges, UpsertEdge(e)
        PROVE  IsFiniteSet(edges')
    BY <2>3, FS_AddElement DEF UpsertEdge
  <2>4. ASSUME edges' \in SUBSET edges
        PROVE  IsFiniteSet(edges')
    BY <2>4, FS_Subset
  <2>5. ASSUME NEW e \in Edges, DeleteEdge(e)
        PROVE  IsFiniteSet(edges')
    BY <2>4, <2>5 DEF DeleteEdge
  <2>6. ASSUME NEW n \in NodeIds, UpsertNode(n) \/ DeleteNode(n)
        PROVE  IsFiniteSet(edges')
    BY <2>1, <2>4, <2>6 DEF UpsertNode, DeleteNode
  <2>7. ASSUME \/ \E m \in Messages : AppendEvent(m)
               \/ \E u \in Users, score \in Scores : UpsertTrust(u, score)
               \/ \E u \in Users, n \in Nonces : RecordNonce(u, n)
        PROVE  IsFiniteSet(edges')
    BY <2>1, <2>7 DEF AppendEvent, UpsertTrust, RecordNonce, graphVars
  <2>8. CASE EvictExpiredNonces \/ Tick \/ (\E t \in Topics : ReadTopic(t)) \/ UNCHANGED vars
    BY <2>1, <2>8 DEF EvictExpiredNonces, Tick, ReadTopic, vars, rowVars, graphVars
  <2> QED  BY <2>2, <2>3, <2>5, <2>6, <2>7, <2>8 DEF Next, Storing
<1> QED  BY <1>1, <1>2, PTL DEF Spec

\* A finite set as a sequence.
LEMMA SequenceOfSet ==
    ASSUME NEW S, IsFiniteSet(S)
    PROVE  SetToSeq(S) \in Seq(S) /\ IsInjective(SetToSeq(S)) /\ ToSet(SetToSeq(S)) = S
<1> DEFINE n == Cardinality(S)
           s == SetToSeq(S)
<1>1. n \in Nat /\ IsFiniteSet(1..n) /\ Cardinality(1..n) = n
  BY FS_CardinalityType, FS_Interval
<1>2. ExistsBijection(1..n, S)
  BY <1>1, FS_SameCardinalityBij
<1>3. \E f \in [1..n -> S] : IsInjective(f)
  BY <1>2 DEF ExistsBijection, Bijection, Injection
<1>4. s \in [1..n -> S] /\ IsInjective(s)
  <2>1. s = CHOOSE f \in [1..n -> S] : IsInjective(f)
    BY DEF SetToSeq
  <2> HIDE DEF s, n
  <2> QED  BY <1>3, <2>1
<1> HIDE DEF s
<1>5. s \in Injection(1..n, S)
  BY <1>4 DEF Injection
<1> HIDE DEF n
<1>6. s \in Surjection(1..n, S)
  BY <1>1, <1>5, FS_Injection DEF n
<1>7. ToSet(s) = S
  BY <1>4, <1>6 DEF Surjection, ToSet
<1>8. s \in Seq(S)
  BY <1>1, <1>4
<1> QED  BY <1>4, <1>7, <1>8 DEF s

\* What the matcher reads are the tables.
LEMMA StoredGraphIs ==
    ASSUME TypeOK, IsFiniteSet(edges)
    PROVE  /\ IsGraph(StoredGraph) /\ ToSet(StoredGraph.edges) = edges
           /\ DOMAIN StoredGraph.nodes = nodes /\ \A n \in nodes : SummaryLabel(StoredGraph, n) = n
<1>1. SetToSeq(edges) \in Seq(edges) /\ IsInjective(SetToSeq(edges)) /\ ToSet(SetToSeq(edges)) = edges
  BY SequenceOfSet
<1>2. edges \subseteq EdgeType
  BY EdgeAssumption DEF TypeOK, EdgeType
<1> DEFINE s == SetToSeq(edges)
<1>3. s \in Seq(EdgeType)
  <2> HIDE DEF s
  <2>1. s \in Seq(edges)
    BY <1>1 DEF s
  <2>2. DOMAIN s = 1..Len(s) /\ Len(s) \in Nat /\ \A i \in DOMAIN s : s[i] \in EdgeType
    BY <1>2, <2>1
  <2> QED  BY <2>1, <2>2
<1> HIDE DEF s
<1>4. StoredGraph.edges = s /\ StoredGraph.nodes = [n \in nodes |-> Unnamed]
  BY DEF StoredGraph, s
<1>5. \A n \in nodes : SummaryLabel(StoredGraph, n) = n
  BY <1>4 DEF SummaryLabel, Unnamed
<1> QED  BY <1>1, <1>3, <1>4, <1>5 DEF IsGraph, s

\* findPotentialMatches finds the aids of the rules.
LEMMA OneAnswer ==
    ASSUME TypeOK, IsFiniteSet(edges), EdgesHaveNodes, NEW u \in NodeIds
    PROVE  FindPotentialMatches(u) =
             {[offeror |-> s.participants[2], need |-> s.id[4]] : s \in ToSet(MutualAid(StoredGraph, u))}
<1> DEFINE g == StoredGraph
           pair(s) == [offeror |-> s.participants[2], need |-> s.id[4]]
           Found == {pair(s) : s \in AidSet(g, u)}
<1>1. IsGraph(g) /\ ToSet(g.edges) = edges
  BY StoredGraphIs
<1> HIDE DEF g
<1>2. ToSet(MutualAid(g, u)) = AidSet(g, u)
  BY <1>1, AidsAre
<1>3. \A n, o : pair(Aid(g, u, n, o)) = [offeror |-> o.from, need |-> n.to]
  BY DEF Aid
<1> HIDE DEF pair
<1>4. Found = {[offeror |-> p[2].from, need |-> p[1].to] : p \in AidPairs(g, u)}
  BY <1>3 DEF AidSet
<1>5. ASSUME NEW p \in AidPairs(g, u)
      PROVE  [offeror |-> p[2].from, need |-> p[1].to] \in FindPotentialMatches(u)
  <2> DEFINE n == p[1]
             o == p[2]
  <2>1. /\ n \in edges /\ n.type = "needs" /\ o \in edges /\ o.type = "offers"
        /\ n.from = u /\ o.from # u /\ o.to = n.to
    BY <1>1 DEF AidPairs, EdgeSet
  <2> HIDE DEF n, o
  <2>2. o.from \in NodeIds
    BY <2>1, EdgeAssumption DEF TypeOK
  <2>3. n.to \in GetNeedsOf(u)
    BY <2>1 DEF GetNeedsOf, GetEdgesFrom, EdgesHaveNodes
  <2>4. o \in {x \in GetEdgesTo(n.to, "offers") : x.from \in NodeIds \ {u}}
    BY <2>1, <2>2 DEF GetEdgesTo
  <2>5. [offeror |-> o.from, need |-> n.to] \in FindPotentialMatches(u)
    BY <2>3, <2>4 DEF FindPotentialMatches, MatchesOf
  <2> QED  BY <2>5 DEF n, o
<1>6. ASSUME NEW m \in FindPotentialMatches(u)
      PROVE  \E p \in AidPairs(g, u) : m = [offeror |-> p[2].from, need |-> p[1].to]
  <2>1. PICK k \in GetNeedsOf(u) :
          m \in {[offeror |-> e.from, need |-> k] :
                   e \in {o \in GetEdgesTo(k, "offers") : o.from \in NodeIds \ {u}}}
    BY <1>6 DEF FindPotentialMatches, MatchesOf
  <2>2. PICK o \in GetEdgesTo(k, "offers") :
          o.from \in NodeIds \ {u} /\ m = [offeror |-> o.from, need |-> k]
    BY <2>1
  <2>3. PICK n \in GetEdgesFrom(u, "needs") : n.to = k
    BY DEF GetNeedsOf
  <2>4. <<n, o>> \in AidPairs(g, u)
    BY <1>1, <2>2, <2>3 DEF AidPairs, EdgeSet, GetEdgesTo, GetEdgesFrom
  <2> QED  BY <2>2, <2>3, <2>4
<1>7. Found = FindPotentialMatches(u)
  <2>1. Found \subseteq FindPotentialMatches(u)
    BY <1>4, <1>5
  <2>2. FindPotentialMatches(u) \subseteq Found
    BY <1>4, <1>6
  <2> QED  BY <2>1, <2>2
<1> QED  BY <1>2, <1>7 DEF g, pair

\* getNeedsOf and getOffersBy find what a prompt lists.
LEMMA OneList ==
    ASSUME TypeOK, IsFiniteSet(edges), NEW u, NEW type
    PROVE  {x.title : x \in ToSet(Listed(StoredGraph, type, u, TRUE))}
             = {e.to : e \in GetEdgesFrom(u, type)} \intersect nodes
<1> DEFINE g == StoredGraph
           titles == {x.title : x \in ToSet(Listed(g, type, u, TRUE))}
<1>1. /\ IsGraph(g) /\ ToSet(g.edges) = edges
      /\ DOMAIN g.nodes = nodes /\ \A n \in nodes : SummaryLabel(g, n) = n
  BY StoredGraphIs
<1> HIDE DEF g
<1>2. titles = {SummaryLabel(g, e.to) : e \in OwnEdges(g, type, u)}
  BY <1>1, OwnLabels
<1> HIDE DEF titles
<1>3. \A e : e \in OwnEdges(g, type, u) <=> e \in GetEdgesFrom(u, type) /\ e.to \in nodes
  BY <1>1 DEF OwnEdges, EdgeSet, GetEdgesFrom
<1>4. {SummaryLabel(g, e.to) : e \in OwnEdges(g, type, u)} = {e.to : e \in GetEdgesFrom(u, type)} \intersect nodes
  BY <1>1, <1>3
<1> QED  BY <1>2, <1>4 DEF g, titles

\* The queries of the graph store (findPotentialMatches, getNeedsOf, getOffersBy) and
\* the matcher agree on every graph that the tables can hold: what makes them agree
\* are the foreign keys.
THEOREM QueriesHaveOneAnswer == Spec => []QueriesAgree
<1>1. TypeOK /\ FiniteTable /\ EdgesHaveNodes => QueriesAgree
  <2> SUFFICES ASSUME TypeOK, IsFiniteSet(edges), EdgesHaveNodes
               PROVE  QueriesAgree
    BY DEF FiniteTable
  <2>1. QueryAgreesWithRule
    BY OneAnswer DEF QueryAgreesWithRule
  <2>2. ListsAgree
    BY OneList DEF ListsAgree, GetNeedsOf, GetOffersBy
  <2> QED  BY <2>1, <2>2 DEF QueriesAgree
<1> QED  BY <1>1, TypeCorrect, EdgesAreAnchored, TablesAreFinite, PTL
================================================================================
