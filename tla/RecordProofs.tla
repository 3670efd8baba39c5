------------------------------ MODULE RecordProofs ------------------------------
(***************************************************************************)
(* Elections and trust, tasks, projects, the graph and disputes, for every *)
(* set of envelopes and every instance of the constants: what they hold is *)
(* what the log says, no step takes a vote back, and who acts with         *)
(* standing has earned it in the log.                                      *)
(***************************************************************************)
EXTENDS EngineProofs

\* A vote that an election holds is a vote of the log whose nullifier is spent.
VoteInLog(e, u) ==
    LET i == elections[e].votes[u]
    IN  i # 0 => /\ i \in DOMAIN eventLog
                 /\ eventLog[i].kind = "election.vote"
                 /\ eventLog[i].payload.nullifier \in elections[e].nullifiers

VotesInLog == \A e \in Elections, u \in Users : VoteInLog(e, u)

ElectionInv == VotesInLog /\ BallotsSpendDistinctNullifiers

\* The votes in the log, and those of a user that spent a fresh nullifier.
VotePositions(e) ==
    {i \in DOMAIN eventLog : /\ eventLog[i].kind = "election.vote"
                             /\ eventLog[i].payload.election_id = e}
BallotPositions(e, u) ==
    {i \in VotePositions(e) : eventLog[i].sender = u /\ Counts(i)}

\* BallotsFollowLog in terms of these.
BallotsMatch ==
    \A e \in Elections :
      /\ elections[e].nullifiers = {eventLog[i].payload.nullifier : i \in VotePositions(e)}
      /\ \A u \in Users : elections[e].votes[u] = Latest(BallotPositions(e, u))

-----------------------------------------------------------------------------
(* The steps, as far as elections go.                                      *)

\* Nothing has become of m, which is no vote, or one with a spent nullifier.
NoVote(m) ==
    /\ UNCHANGED elections
    /\ m.kind = "election.vote" =>
         m.payload.nullifier \in elections[m.payload.election_id].nullifiers

\* The motion in m has been put to the election, which keeps its votes.
MotionMade(m) ==
    LET e == m.payload.election_id
    IN  /\ m.kind = "election.motion" /\ e \in Elections
        /\ elections' = [elections EXCEPT ![e] =
                           [EnsureElection(e) EXCEPT !.motion = At, !.status = "open"]]

\* The vote in m has been counted.
VoteCounted(m) ==
    LET e == m.payload.election_id
    IN  /\ m.kind = "election.vote"
        /\ e \in Elections /\ m.sender \in Users /\ m.payload.nullifier \in Nullifiers
        /\ m.payload.nullifier \notin elections[e].nullifiers
        /\ elections' = [elections EXCEPT ![e] =
                           [elections[e] EXCEPT !.nullifiers = @ \union {m.payload.nullifier},
                              !.votes[m.sender] = At, !.status = "voting"]]

LEMMA BallotPayloads ==
    ASSUME NEW m \in Envelopes
    PROVE  /\ m.kind = "election.motion" => m.payload.election_id \in Elections
           /\ m.kind = "election.vote" =>
                /\ m.payload.election_id \in Elections
                /\ m.payload.nullifier \in Nullifiers
<1> m \in MessageEnvelope
  BY EnvelopeAssumption
<1> QED
  BY PayloadType DEF BallotPayload, VotePayload

\* Elections change with the log, and in two ways only.
LEMMA ElectionStepCases ==
    ASSUME TypeOK, [Next]_vars
    PROVE  \/ UNCHANGED <<eventLog, elections>>
           \/ \E m \in Envelopes : /\ Admitted(m)
                                   /\ NoVote(m) \/ MotionMade(m) \/ VoteCounted(m)
<1>1. CASE Tick \/ UNCHANGED vars
  BY <1>1 DEF Tick, vars
<1>2. ASSUME NEW m \in Envelopes, Process(m)
      PROVE  \/ UNCHANGED <<eventLog, elections>>
             \/ Admitted(m) /\ (NoVote(m) \/ MotionMade(m) \/ VoteCounted(m))
  <2> m \in MessageEnvelope
    BY EnvelopeAssumption
  <2>1. CASE RefuseUnchecked(m) \/ RefuseReplay(m) \/ RefuseAfterNonce(m)
    BY <2>1 DEF RefuseUnchecked, RefuseReplay, RefuseAfterNonce, unchangedByRefusal, vars
  <2>2. ASSUME UNCHANGED elections, m.kind # "election.vote"
        PROVE  \/ UNCHANGED <<eventLog, elections>>
               \/ Admitted(m) /\ (NoVote(m) \/ MotionMade(m) \/ VoteCounted(m))
    <3>1. Idle => UNCHANGED eventLog
      BY DEF Idle
    <3> QED
      BY <1>2, <2>2, <3>1, ProcessCases DEF NoVote
  <2>3. CASE ElectionMotion(m)
    <3>1. Admitted(m)
      BY <2>3, AppendGrows DEF ElectionMotion, Admitted
    <3>2. MotionMade(m)
      BY <2>3, BallotPayloads DEF ElectionMotion, MotionMade
    <3> QED
      BY <3>1, <3>2
  <2>4. CASE ElectionVote(m)
    <3>1. Admitted(m)
      BY <2>4, AppendGrows DEF ElectionVote, Admitted
    <3>2. m.sender \in Users
      BY HeaderType
    <3>3. NoVote(m) \/ VoteCounted(m)
      BY <2>4, <3>2, BallotPayloads DEF ElectionVote, VoteCounted, NoVote
    <3> QED
      BY <3>1, <3>3
  <2>5. CASE GraphDelta(m) \/ GraphDeltaThrows(m) \/ ProjectMotion(m)
             \/ ProjectIntent(m) \/ ProjectUpdate(m)
    BY <2>2, <2>5 DEF GraphDelta, GraphDeltaThrows, ProjectMotion, ProjectIntent, ProjectUpdate
  <2>6. CASE TaskPropose(m) \/ TaskAssign(m) \/ TaskCommit(m) \/ TaskDeliver(m)
    BY <2>2, <2>6 DEF TaskPropose, TaskAssign, TaskCommit, TaskDeliver
  <2>7. CASE CapabilityGrant(m) \/ CapabilityRevoke(m) \/ TransportMessage(m)
    BY <2>2, <2>7 DEF CapabilityGrant, CapabilityRevoke, TransportMessage, TransportKinds
  <2>8. CASE DisputeReport(m) \/ DisputeResponse(m)
    BY <2>2, <2>8 DEF DisputeReport, DisputeResponse
  <2> QED
    BY <1>2, <2>1, <2>3, <2>4, <2>5, <2>6, <2>7, <2>8 DEF Process
<1> QED
  BY <1>1, <1>2 DEF Next

\* What becomes of an election and of a vote in it.
LEMMA AfterMotion ==
    ASSUME TypeOK, NEW m, MotionMade(m), NEW e \in Elections
    PROVE  elections'[e].votes = elections[e].votes
           /\ elections'[e].nullifiers = elections[e].nullifiers
<1> elections \in [Elections -> ElectionRecord]
  BY DEF TypeOK, RecordsType
<1>1. elections[e] \in ElectionRecord
  OBVIOUS
<1>2. EnsureElection(e) \in ElectionRecord
      /\ EnsureElection(e).votes = elections[e].votes
      /\ EnsureElection(e).nullifiers = elections[e].nullifiers
  BY <1>1 DEF EnsureElection, ElectionRecord
<1>3. CASE e = m.payload.election_id
  <2>1. elections'[e] = [EnsureElection(e) EXCEPT !.motion = At, !.status = "open"]
    BY <1>3 DEF MotionMade
  <2> QED
    BY <1>2, <2>1 DEF ElectionRecord
<1>4. CASE e # m.payload.election_id
  BY <1>4 DEF MotionMade
<1> QED
  BY <1>3, <1>4

LEMMA VotesType ==
    ASSUME TypeOK, NEW e \in Elections
    PROVE  elections[e].votes \in [Users -> Nat] /\ elections[e].nullifiers \subseteq Nullifiers
BY DEF TypeOK, RecordsType, ElectionRecord

LEMMA AfterVote ==
    ASSUME TypeOK, NEW m, VoteCounted(m), NEW e \in Elections, NEW u \in Users
    PROVE  /\ e = m.payload.election_id =>
                elections'[e].nullifiers = elections[e].nullifiers \union {m.payload.nullifier}
           /\ elections[e].nullifiers \subseteq elections'[e].nullifiers
           /\ e = m.payload.election_id /\ u = m.sender =>
                elections'[e].votes[u] = Len(eventLog) + 1
           /\ e # m.payload.election_id \/ u # m.sender =>
                elections'[e].votes[u] = elections[e].votes[u]
<1> elections \in [Elections -> ElectionRecord]
  BY DEF TypeOK, RecordsType
<1>1. elections[e] \in ElectionRecord /\ elections[e].votes \in [Users -> Nat]
  BY VotesType
<1>2. CASE e = m.payload.election_id
  <2> DEFINE r == elections[e]
  <2>1. elections'[e] = [r EXCEPT !.nullifiers = @ \union {m.payload.nullifier},
                                  !.votes[m.sender] = At, !.status = "voting"]
    BY <1>2 DEF VoteCounted
  <2>2. r \in ElectionRecord /\ r.votes \in [Users -> Nat]
    BY <1>1
  <2> HIDE DEF r
  <2>3. elections'[e].nullifiers = r.nullifiers \union {m.payload.nullifier}
        /\ elections'[e].votes = [r.votes EXCEPT ![m.sender] = At]
    BY <2>1, <2>2 DEF ElectionRecord
  <2>4. elections'[e].votes[u] = IF u = m.sender THEN At ELSE r.votes[u]
    BY <2>2, <2>3
  <2> QED
    BY <1>2, <2>3, <2>4 DEF r, At
<1>3. CASE e # m.payload.election_id
  BY <1>3 DEF VoteCounted
<1> QED
  BY <1>2, <1>3

-----------------------------------------------------------------------------
(* The votes of an election.                                               *)

LEMMA VotesInLogStep ==
    ASSUME TypeOK, VotesInLog, [Next]_vars
    PROVE  VotesInLog'
<1>1. CASE UNCHANGED <<eventLog, elections>>
  BY <1>1 DEF VotesInLog, VoteInLog
<1>2. ASSUME NEW m \in Envelopes, Admitted(m),
             NoVote(m) \/ MotionMade(m) \/ VoteCounted(m),
             NEW e \in Elections, NEW u \in Users
      PROVE  VoteInLog(e, u)'
  <2> DEFINE i == elections[e].votes[u]
  <2>1. VoteInLog(e, u)
    BY DEF VotesInLog
  \* An entry of the log stays the vote it is.
  <2>2. ASSUME i # 0, elections'[e].votes[u] = i,
               elections[e].nullifiers \subseteq elections'[e].nullifiers
        PROVE  VoteInLog(e, u)'
    <3>1. i \in 1..Len(eventLog) /\ eventLog[i].kind = "election.vote"
          /\ eventLog[i].payload.nullifier \in elections[e].nullifiers
      BY <1>2, <2>1, <2>2, EntriesStay DEF VoteInLog
    <3>2. eventLog'[i].kind = "election.vote" /\ eventLog'[i].payload = eventLog[i].payload
      BY <1>2, <3>1, EntriesStay, SameEntryFields
    <3>3. i \in DOMAIN eventLog'
      BY <1>2, <3>1, EntriesStay
    <3> QED
      BY <2>2, <3>1, <3>2, <3>3 DEF VoteInLog
  <2>3. CASE NoVote(m)
    BY <2>2, <2>3 DEF VoteInLog, NoVote
  <2>4. CASE MotionMade(m)
    BY <2>2, <2>4, AfterMotion DEF VoteInLog
  <2>5. CASE VoteCounted(m)
    <3>1. CASE e = m.payload.election_id /\ u = m.sender
      <4>1. elections'[e].votes[u] = Len(eventLog) + 1
            /\ m.payload.nullifier \in elections'[e].nullifiers
        BY <2>5, <3>1, AfterVote
      <4>2. eventLog'[Len(eventLog) + 1] = m /\ Len(eventLog) + 1 \in DOMAIN eventLog'
        BY <1>2, EntriesStay
      <4> QED
        BY <2>5, <4>1, <4>2 DEF VoteInLog, VoteCounted
    <3>2. CASE ~(e = m.payload.election_id /\ u = m.sender)
      <4>1. elections[e].nullifiers \subseteq elections'[e].nullifiers
        BY <2>5, AfterVote
      <4>2. elections'[e].votes[u] = i
        BY <2>5, <3>2, AfterVote
      <4> QED
        BY <2>2, <4>1, <4>2 DEF VoteInLog
    <3> QED
      BY <3>1, <3>2
  <2> QED
    BY <1>2, <2>3, <2>4, <2>5
<1> QED
  BY <1>1, <1>2, ElectionStepCases DEF VotesInLog

\* The nullifier of a vote is that of the entry, whatever is appended to the log.
LEMMA NullifierStays ==
    ASSUME TypeOK, VotesInLog, NEW m \in Envelopes, Admitted(m),
           NEW e \in Elections, NEW u \in Users, elections[e].votes[u] # 0
    PROVE  /\ eventLog'[elections[e].votes[u]].payload.nullifier
                = eventLog[elections[e].votes[u]].payload.nullifier
           /\ eventLog[elections[e].votes[u]].payload.nullifier \in elections[e].nullifiers
<1> DEFINE i == elections[e].votes[u]
<1>1. i \in 1..Len(eventLog) /\ eventLog[i].kind = "election.vote"
      /\ eventLog[i].payload.nullifier \in elections[e].nullifiers
  BY EntriesStay DEF VotesInLog, VoteInLog
<1>2. eventLog'[i].payload = eventLog[i].payload
  BY <1>1, EntriesStay, SameEntryFields
<1> QED
  BY <1>1, <1>2

LEMMA DistinctStep ==
    ASSUME TypeOK, VotesInLog, BallotsSpendDistinctNullifiers, [Next]_vars
    PROVE  BallotsSpendDistinctNullifiers'
<1>1. CASE UNCHANGED <<eventLog, elections>>
  BY <1>1 DEF BallotsSpendDistinctNullifiers
<1>2. ASSUME NEW m \in Envelopes, Admitted(m),
             NoVote(m) \/ MotionMade(m) \/ VoteCounted(m),
             NEW e \in Elections, NEW u \in Users, NEW v \in Users, u # v,
             elections'[e].votes[u] # 0, elections'[e].votes[v] # 0
      PROVE  eventLog'[elections'[e].votes[u]].payload.nullifier
               # eventLog'[elections'[e].votes[v]].payload.nullifier
  <2>1. ASSUME elections'[e].votes[u] = elections[e].votes[u],
               elections'[e].votes[v] = elections[e].votes[v]
        PROVE  eventLog'[elections'[e].votes[u]].payload.nullifier
                 # eventLog'[elections'[e].votes[v]].payload.nullifier
    BY <1>2, <2>1, NullifierStays DEF BallotsSpendDistinctNullifiers
  \* A vote that has just been counted differs from all that the election held.
  <2>2. ASSUME VoteCounted(m), e = m.payload.election_id, NEW w \in Users, NEW x \in Users,
               w = m.sender, x # w, elections'[e].votes[x] # 0
        PROVE  eventLog'[elections'[e].votes[w]].payload.nullifier
                 # eventLog'[elections'[e].votes[x]].payload.nullifier
    <3>1. elections'[e].votes[w] = Len(eventLog) + 1
          /\ elections'[e].votes[x] = elections[e].votes[x]
      BY <2>2, AfterVote
    <3>2. eventLog'[Len(eventLog) + 1] = m
      BY <1>2, EntriesStay
    <3>3. m.payload.nullifier \notin elections[e].nullifiers
      BY <2>2 DEF VoteCounted
    <3> QED
      BY <1>2, <2>2, <3>1, <3>2, <3>3, NullifierStays
  <2>3. CASE NoVote(m)
    BY <2>1, <2>3 DEF NoVote
  <2>4. CASE MotionMade(m)
    BY <2>1, <2>4, AfterMotion
  <2>5. CASE VoteCounted(m)
    <3>1. CASE e = m.payload.election_id /\ m.sender \in {u, v}
      BY <1>2, <2>2, <2>5, <3>1
    <3>2. CASE ~(e = m.payload.election_id /\ m.sender \in {u, v})
      <4>1. elections'[e].votes[u] = elections[e].votes[u]
        BY <2>5, <3>2, AfterVote
      <4>2. elections'[e].votes[v] = elections[e].votes[v]
        BY <2>5, <3>2, AfterVote
      <4> QED
        BY <2>1, <4>1, <4>2
    <3> QED
      BY <3>1, <3>2
  <2> QED
    BY <1>2, <2>3, <2>4, <2>5
<1> QED
  BY <1>1, <1>2, ElectionStepCases DEF BallotsSpendDistinctNullifiers

LEMMA ElectionsHold == Spec => []ElectionInv
<1>1. Init => ElectionInv
  BY DEF Init, ElectionInv, VotesInLog, VoteInLog, BallotsSpendDistinctNullifiers, NoElection
<1>2. TypeOK /\ ElectionInv /\ [Next]_vars => ElectionInv'
  BY VotesInLogStep, DistinctStep DEF ElectionInv
<1> QED
  BY <1>1, <1>2, TypeCorrect, PTL DEF Spec

\* No two votes an election counts spend the same nullifier: neither a second
\* vote of somebody nor a repeated motion frees one (election.vote, engine.ts).
THEOREM BallotsAreDistinct == Spec => []BallotsSpendDistinctNullifiers
BY ElectionsHold, PTL DEF ElectionInv

LEMMA KeptStep ==
    ASSUME TypeOK, VotesInLog, [Next]_vars, NEW e \in Elections
    PROVE  /\ elections[e].nullifiers \subseteq elections'[e].nullifiers
           /\ \A u \in Users : elections[e].votes[u] <= elections'[e].votes[u]
<1>1. \A u \in Users : elections[e].votes[u] \in Nat
  BY VotesType
<1>2. ASSUME UNCHANGED elections
      PROVE  /\ elections[e].nullifiers \subseteq elections'[e].nullifiers
             /\ \A u \in Users : elections[e].votes[u] <= elections'[e].votes[u]
  BY <1>1, <1>2
<1>3. ASSUME NEW m \in Envelopes, Admitted(m), MotionMade(m)
      PROVE  /\ elections[e].nullifiers \subseteq elections'[e].nullifiers
             /\ \A u \in Users : elections[e].votes[u] <= elections'[e].votes[u]
  BY <1>1, <1>3, AfterMotion
<1>4. ASSUME NEW m \in Envelopes, Admitted(m), VoteCounted(m)
      PROVE  /\ elections[e].nullifiers \subseteq elections'[e].nullifiers
             /\ \A u \in Users : elections[e].votes[u] <= elections'[e].votes[u]
  <2>1. elections[e].nullifiers \subseteq elections'[e].nullifiers
    BY <1>4 DEF VoteCounted, TypeOK, RecordsType, ElectionRecord
  <2>2. ASSUME NEW u \in Users
        PROVE  elections[e].votes[u] <= elections'[e].votes[u]
    <3>1. elections[e].votes[u] <= Len(eventLog)
      BY <1>1, <1>4, EntriesStay DEF VotesInLog, VoteInLog
    <3>2. elections'[e].votes[u] \in {elections[e].votes[u], Len(eventLog) + 1}
      BY <1>4, AfterVote
    <3> QED
      BY <1>1, <1>4, <3>1, <3>2, EntriesStay
  <2> QED
    BY <2>1, <2>2
<1> QED
  BY <1>2, <1>3, <1>4, ElectionStepCases DEF NoVote

\* No step takes a vote or a spent nullifier back: a vote is only ever replaced
\* by a later one of the same user, and a repeated motion clears neither map.
THEOREM VotesStay == Spec => VotesAreKept
<1>1. TypeOK /\ ElectionInv /\ [Next]_vars =>
        \A e \in Elections :
          /\ elections[e].nullifiers \subseteq elections'[e].nullifiers
          /\ \A u \in Users : elections[e].votes[u] <= elections'[e].votes[u]
  BY KeptStep DEF ElectionInv
<1> QED
  BY <1>1, TypeCorrect, ElectionsHold, PTL DEF Spec, VotesAreKept

-----------------------------------------------------------------------------
(* Elections are what the log makes of them.                               *)

\* The last of some positions is the newest position, if that is one of them.
LEMMA LastIsNew ==
    ASSUME NEW n \in Nat, NEW S \in SUBSET (1..n)
    PROVE  Latest(S \union {n + 1}) = n + 1
<1> DEFINE T == S \union {n + 1}
           IsLast(i) == i \in T /\ \A j \in T : j <= i
<1>1. IsLast(n + 1)
  OBVIOUS
<1>2. ASSUME NEW i, IsLast(i) PROVE i = n + 1
  <2>1. i \in T /\ n + 1 <= i
    BY <1>2
  <2> QED
    BY <2>1
<1>3. (CHOOSE i \in T : \A j \in T : j <= i) = n + 1
  BY <1>1, <1>2
<1> QED
  BY <1>3 DEF Latest

LEMMA BallotsInPositions == BallotsMatch <=> BallotsFollowLog
<1>1. ASSUME NEW e, NEW u
      PROVE  BallotPositions(e, u) =
               {i \in DOMAIN eventLog :
                  /\ eventLog[i].kind = "election.vote" /\ eventLog[i].payload.election_id = e
                  /\ eventLog[i].sender = u /\ Counts(i)}
  BY DEF BallotPositions, VotePositions
<1>2. BallotsFollowLog <=>
        \A e \in Elections :
          /\ elections[e].nullifiers = {eventLog[i].payload.nullifier : i \in VotePositions(e)}
          /\ \A u \in Users :
               elections[e].votes[u] =
                 Latest({i \in DOMAIN eventLog :
                         /\ Kind(i) = "election.vote" /\ eventLog[i].payload.election_id = e
                         /\ eventLog[i].sender = u /\ Counts(i)})
  BY DEF BallotsFollowLog, Positions, Kind, VotePositions
<1> QED
  BY <1>1, <1>2 DEF Kind, BallotsMatch

\* Whether an entry counts does not change once it is in the log.
LEMMA CountsStays ==
    ASSUME TypeOK, NEW m \in Envelopes, Admitted(m), NEW i \in 1..Len(eventLog)
    PROVE  Counts(i)' <=> Counts(i)
<1> DEFINE Spent(log, j) == /\ log[j].kind = "election.vote"
                            /\ log[j].payload.election_id = log[i].payload.election_id
                            /\ log[j].payload.nullifier = log[i].payload.nullifier
<1>1. \A j \in 1..Len(eventLog) :
        /\ eventLog'[j].kind = eventLog[j].kind
        /\ eventLog[j].kind = "election.vote" => eventLog'[j].payload = eventLog[j].payload
  BY EntriesStay, SameEntryFields
<1>2. /\ i \in 1..Len(eventLog) /\ Len(eventLog) \in Nat
      /\ \A j \in 1..(i - 1) : j \in 1..Len(eventLog)
  BY EntriesStay
<1>3. Counts(i) <=> /\ eventLog[i].kind = "election.vote"
                    /\ \A j \in 1..(i - 1) : ~Spent(eventLog, j)
  BY DEF Counts, Kind
<1>4. Counts(i)' <=> /\ eventLog'[i].kind = "election.vote"
                     /\ \A j \in 1..(i - 1) : ~Spent(eventLog', j)
  BY DEF Counts, Kind
<1>5. ASSUME eventLog[i].kind = "election.vote", NEW j \in 1..(i - 1)
      PROVE  Spent(eventLog', j) <=> Spent(eventLog, j)
  BY <1>1, <1>2, <1>5
<1> HIDE DEF Spent
<1> QED
  BY <1>1, <1>2, <1>3, <1>4, <1>5

\* A new vote counts if its election does not know the nullifier.
LEMMA NewCounts ==
    ASSUME TypeOK, BallotsMatch, NEW m \in Envelopes, Admitted(m), m.kind = "election.vote",
           NEW n \in Nat, n = Len(eventLog)
    PROVE  Counts(n + 1)' <=>
             m.payload.nullifier \notin elections[m.payload.election_id].nullifiers
<1> DEFINE e == m.payload.election_id
           Spent(log, j) == /\ log[j].kind = "election.vote"
                            /\ log[j].payload.election_id = e
                            /\ log[j].payload.nullifier = m.payload.nullifier
<1>1. n \in Nat /\ DOMAIN eventLog = 1..n /\ eventLog'[n + 1] = m
  BY EntriesStay
<1>2. ASSUME NEW j \in 1..n PROVE Spent(eventLog', j) <=> Spent(eventLog, j)
  BY EntriesStay, SameEntryFields
<1>3. Counts(n + 1)' <=> \A j \in 1..n : ~Spent(eventLog', j)
  <2>1. Counts(n + 1)' <=>
          /\ eventLog'[n + 1].kind = "election.vote"
          /\ \A j \in 1..(n + 1 - 1) :
               eventLog'[j].kind = "election.vote"
               /\ eventLog'[j].payload.election_id = eventLog'[n + 1].payload.election_id
                 => eventLog'[j].payload.nullifier # eventLog'[n + 1].payload.nullifier
    BY DEF Counts, Kind
  <2>2. 1..(n + 1 - 1) = 1..n
    BY <1>1
  <2> QED
    BY <1>1, <2>1, <2>2
<1>4. e \in Elections
  BY BallotPayloads
<1>5. elections[e].nullifiers = {eventLog[i].payload.nullifier : i \in VotePositions(e)}
  BY <1>4 DEF BallotsMatch
<1>6. m.payload.nullifier \in elections[e].nullifiers <=> \E j \in 1..n : Spent(eventLog, j)
  BY <1>1, <1>5 DEF VotePositions
<1> QED
  BY <1>2, <1>3, <1>6

\* What becomes of the positions.
LEMMA PositionsAfter ==
    ASSUME TypeOK, BallotsMatch, NEW m \in Envelopes, Admitted(m),
           NEW e \in Elections, NEW u \in Users
    PROVE  /\ VotePositions(e)' =
                VotePositions(e) \union
                {i \in {Len(eventLog) + 1} : m.kind = "election.vote" /\ m.payload.election_id = e}
           /\ BallotPositions(e, u)' =
                BallotPositions(e, u) \union
                {i \in {Len(eventLog) + 1} :
                   /\ m.kind = "election.vote" /\ m.payload.election_id = e /\ m.sender = u
                   /\ m.payload.nullifier \notin elections[e].nullifiers}
           /\ VotePositions(e) \subseteq 1..Len(eventLog)
           /\ \A i \in VotePositions(e) : eventLog'[i].payload = eventLog[i].payload
<1>0. PICK n \in Nat : n = Len(eventLog)
  BY EntriesStay
<1>1. /\ n \in Nat /\ DOMAIN eventLog = 1..n /\ DOMAIN eventLog' = 1..(n + 1)
      /\ eventLog'[n + 1] = m
  BY <1>0, EntriesStay
<1>2. \A i \in 1..n : /\ eventLog'[i].kind = eventLog[i].kind
                      /\ eventLog'[i].sender = eventLog[i].sender
                      /\ eventLog[i].kind = "election.vote" => eventLog'[i].payload = eventLog[i].payload
  BY <1>0, EntriesStay, SameEntryFields
<1>3. \A i \in 1..n : Counts(i)' <=> Counts(i)
  BY <1>0, CountsStays
<1>4. m.kind = "election.vote" =>
        (Counts(n + 1)' <=> m.payload.nullifier \notin elections[m.payload.election_id].nullifiers)
  BY <1>0, NewCounts
<1>5. \A i : i \in 1..(n + 1) <=> i \in 1..n \/ i = n + 1
  BY <1>1
<1>6. n + 1 \notin 1..n
  BY <1>1
<1>7. VotePositions(e)' = VotePositions(e) \union
        {i \in {n + 1} : m.kind = "election.vote" /\ m.payload.election_id = e}
  BY <1>1, <1>2, <1>5, <1>6 DEF VotePositions
<1>8. BallotPositions(e, u)' = BallotPositions(e, u) \union
        {i \in {n + 1} : /\ m.kind = "election.vote" /\ m.payload.election_id = e /\ m.sender = u
                         /\ m.payload.nullifier \notin elections[e].nullifiers}
  <2>1. ASSUME NEW i \in 1..n
        PROVE  i \in BallotPositions(e, u)' <=> i \in BallotPositions(e, u)
    BY <1>1, <1>2, <1>3, <1>6, <1>7, <2>1 DEF BallotPositions, VotePositions
  <2>2. n + 1 \in BallotPositions(e, u)' <=>
          /\ m.kind = "election.vote" /\ m.payload.election_id = e /\ m.sender = u
          /\ m.payload.nullifier \notin elections[e].nullifiers
    <3>1. n + 1 \in VotePositions(e)' <=> m.kind = "election.vote" /\ m.payload.election_id = e
      BY <1>1, <1>6, <1>7 DEF VotePositions
    <3>2. n + 1 \in BallotPositions(e, u)' <=>
            n + 1 \in VotePositions(e)' /\ eventLog'[n + 1].sender = u /\ Counts(n + 1)'
      BY DEF BallotPositions
    <3> QED
      BY <1>1, <1>4, <3>1, <3>2
  <2>3. BallotPositions(e, u) \subseteq 1..n /\ BallotPositions(e, u)' \subseteq 1..(n + 1)
    BY <1>1 DEF BallotPositions, VotePositions
  <2> QED
    BY <1>5, <2>1, <2>2, <2>3
<1> QED
  BY <1>0, <1>1, <1>2, <1>7, <1>8 DEF VotePositions

LEMMA BallotsStep ==
    ASSUME TypeOK, BallotsMatch, [Next]_vars
    PROVE  BallotsMatch'
<1>1. CASE UNCHANGED <<eventLog, elections>>
  BY <1>1 DEF BallotsMatch, VotePositions, BallotPositions, Kind, Counts
<1>2. ASSUME NEW m \in Envelopes, Admitted(m),
             NoVote(m) \/ MotionMade(m) \/ VoteCounted(m),
             NEW e \in Elections
      PROVE  /\ elections'[e].nullifiers =
                  {eventLog'[i].payload.nullifier : i \in VotePositions(e)'}
             /\ \A u \in Users : elections'[e].votes[u] = Latest(BallotPositions(e, u)')
  <2> DEFINE n == Len(eventLog)
             IsVoteHere == m.kind = "election.vote" /\ m.payload.election_id = e
             IsFresh == m.payload.nullifier \notin elections[e].nullifiers
  <2>1. /\ elections[e].nullifiers = {eventLog[i].payload.nullifier : i \in VotePositions(e)}
        /\ \A u \in Users : elections[e].votes[u] = Latest(BallotPositions(e, u))
    BY DEF BallotsMatch
  <2>2. n \in Nat /\ eventLog'[n + 1] = m
    BY <1>2, EntriesStay
  <2>3. {eventLog'[i].payload.nullifier : i \in VotePositions(e)'} =
          elections[e].nullifiers \union {x \in {m.payload.nullifier} : IsVoteHere}
    <3>1. CASE Users = {}
      <4> m \in MessageEnvelope
        BY EnvelopeAssumption
      <4>1. m.sender \in Users
        BY HeaderType
      <4> QED
        BY <3>1, <4>1
    <3>2. CASE Users # {}
      <4>1. /\ VotePositions(e)' = VotePositions(e) \union {i \in {n + 1} : IsVoteHere}
            /\ \A i \in VotePositions(e) : eventLog'[i].payload = eventLog[i].payload
        BY <1>2, <3>2, PositionsAfter
      <4> QED
        BY <2>1, <2>2, <4>1
    <3> QED
      BY <3>1, <3>2
  <2>4. ASSUME NEW u \in Users
        PROVE  Latest(BallotPositions(e, u)') =
                 IF IsVoteHere /\ m.sender = u /\ IsFresh THEN n + 1 ELSE elections[e].votes[u]
    <3>1. /\ BallotPositions(e, u)' = BallotPositions(e, u) \union
               {i \in {n + 1} : IsVoteHere /\ m.sender = u /\ IsFresh}
          /\ BallotPositions(e, u) \subseteq 1..n
      BY <1>2, PositionsAfter DEF BallotPositions
    <3>2. CASE IsVoteHere /\ m.sender = u /\ IsFresh
      <4>1. BallotPositions(e, u)' = BallotPositions(e, u) \union {n + 1}
        BY <3>1, <3>2
      <4>2. Latest(BallotPositions(e, u) \union {n + 1}) = n + 1
        BY <2>2, <3>1, LastIsNew
      <4> QED
        BY <3>2, <4>1, <4>2
    <3>3. CASE ~(IsVoteHere /\ m.sender = u /\ IsFresh)
      <4>1. BallotPositions(e, u)' = BallotPositions(e, u)
        BY <3>1, <3>3
      <4> QED
        BY <2>1, <3>3, <4>1
    <3> QED
      BY <3>2, <3>3
  <2>5. CASE NoVote(m)
    <3>1. IsVoteHere => ~IsFresh
      BY <2>5 DEF NoVote
    <3> QED
      BY <2>3, <2>4, <2>5, <3>1 DEF NoVote
  <2>6. CASE MotionMade(m)
    <3>1. ~IsVoteHere
      BY <2>6 DEF MotionMade
    <3> QED
      BY <2>3, <2>4, <2>6, <3>1, AfterMotion
  <2>7. CASE VoteCounted(m)
    <3>1. IsVoteHere <=> e = m.payload.election_id
      BY <2>7 DEF VoteCounted
    <3>2. IsVoteHere => IsFresh
      BY <2>7 DEF VoteCounted
    <3>3. elections'[e].nullifiers =
            elections[e].nullifiers \union {x \in {m.payload.nullifier} : IsVoteHere}
      BY <2>7, <3>1 DEF VoteCounted, TypeOK, RecordsType, ElectionRecord
    <3>4. ASSUME NEW u \in Users PROVE elections'[e].votes[u] = Latest(BallotPositions(e, u)')
      BY <2>4, <2>7, <3>1, <3>2, AfterVote
    <3> QED
      BY <2>3, <3>3, <3>4
  <2> QED
    BY <1>2, <2>5, <2>6, <2>7
<1> QED
  BY <1>1, <1>2, ElectionStepCases DEF BallotsMatch

\* An election is a function of the log: whatever was refused, repeated or voted
\* twice, it holds the last vote of everybody that spent a fresh nullifier, and
\* every nullifier it was ever shown (election.vote, engine.ts).
THEOREM BallotsAreThoseOfTheLog == Spec => []BallotsFollowLog
<1>1. Init => BallotsMatch
  <2> SUFFICES ASSUME Init PROVE BallotsMatch
    OBVIOUS
  <2>1. DOMAIN eventLog = {}
    BY EmptySeq DEF Init
  <2> QED
    BY <2>1 DEF Init, BallotsMatch, VotePositions, BallotPositions, NoElection, Latest
<1>2. TypeOK /\ BallotsMatch /\ [Next]_vars => BallotsMatch'
  BY BallotsStep
<1> QED
  BY <1>1, <1>2, TypeCorrect, BallotsInPositions, PTL DEF Spec

-----------------------------------------------------------------------------
(* Trust.                                                                  *)

\* A sum, number by number.
LEMMA TotalSteps ==
    ASSUME NEW s \in Seq(Nat)
    PROVE  \E f : /\ f \in [0..Len(s) -> Nat] /\ f[0] = 0
                  /\ \A i \in 1..Len(s) : f[i] = f[i - 1] + s[i]
                  /\ Total(s) = f[Len(s)]
<1> DEFINE n == Len(s)
           F == [x \in Nat \X (1..n) |-> x[1] + s[x[2]]]
           Def(g) == [T \in SUBSET (1..n) |->
                        IF T = {} THEN 0 ELSE g[T \ {Max(T)}] + s[Max(T)]]
           iter == CHOOSE g : g = Def(g)
<1>1. n \in Nat /\ DOMAIN s = 1..n /\ \A i \in 1..n : s[i] \in Nat
  OBVIOUS
<1>2. F \in Steps(Nat, n)
  BY <1>1 DEF Steps
<1>3. PICK g : IsFold(g, Nat, n, 0, F)
  <2> HIDE DEF F, n
  <2> QED  BY <1>1, <1>2, Folding
<1>4. ASSUME NEW T \in SUBSET (1..n), T # {}
      PROVE  g[T] = g[T \ {Max(T)}] + s[Max(T)] /\ g[T] \in Nat
  <2>1. T \in SUBSET (0..n)
    BY <1>1
  <2>2. Max(T) \in 1..n
    BY <1>1, <1>4, <2>1, MaxOfBounded
  <2>3. g[T \ {Max(T)}] \in Nat /\ g[T] \in Nat /\ g[T] = F[<<g[T \ {Max(T)}], Max(T)>>]
    <3> HIDE DEF F
    <3> QED  BY <1>3, <1>4 DEF IsFold
  <2> QED  BY <2>2, <2>3
<1>5. g[{}] = 0 /\ g = [T \in SUBSET (1..n) |-> g[T]]
  <2> HIDE DEF F
  <2> QED  BY <1>3 DEF IsFold
<1>6. g = Def(g)
  <2> HIDE DEF F
  <2> QED  BY <1>4, <1>5
<1>7. iter = Def(iter)
  <2> HIDE DEF Def
  <2> QED  BY <1>6
<1>8. Total(s) = iter[1..n]
  BY <1>1 DEF Total, FoldLeft, MapThenFoldSet
<1> HIDE DEF iter
<1> DEFINE f == [i \in 0..n |-> iter[1..i]]
<1>9. f[0] = 0
  <2>1. 1..0 = {} /\ 0 \in 0..n /\ {} \in SUBSET (1..n)
    BY <1>1
  <2>2. iter[{}] = 0
    BY <2>1, <1>7
  <2> QED  BY <2>1, <2>2
<1>10. ASSUME NEW i \in 1..n
       PROVE  f[i] = f[i - 1] + s[i]
  <2>1. i \in 0..n /\ i - 1 \in 0..n
    BY <1>1
  <2>2. /\ 1..i \in SUBSET (1..n) /\ 1..i # {} /\ Max(1..i) = i
        /\ (1..i) \ {i} = 1..(i - 1)
    <3> HIDE DEF n
    <3> QED  BY <1>1, MaxOfInitial
  <2>3. iter[1..i] = iter[(1..i) \ {Max(1..i)}] + s[Max(1..i)]
    BY <2>2, <1>7
  <2> QED  BY <2>1, <2>2, <2>3
<1>11. f[n] = iter[1..n] /\ f = [i \in 0..n |-> f[i]]
  BY <1>1
<1> HIDE DEF f
<1>12. f \in [0..n -> Nat]
  <2> DEFINE S == {i \in 0..n : f[i] \in Nat}
  <2>1. 0 \in S
    BY <1>1, <1>9
  <2>2. ASSUME NEW i \in 0..(n - 1), i \in S
        PROVE  i + 1 \in S
    <3>1. i + 1 \in 1..n /\ i + 1 \in 0..n /\ (i + 1) - 1 = i
      BY <1>1
    <3>2. f[i + 1] = f[i] + s[i + 1] /\ s[i + 1] \in Nat /\ f[i] \in Nat
      BY <1>1, <1>10, <2>2, <3>1
    <3> QED  BY <3>1, <3>2
  <2>3. 0..n \subseteq S
    <3> HIDE DEF S, n
    <3> QED  BY <1>1, <2>1, <2>2, BoundedInduction
  <2> QED  BY <1>11, <2>3
<1> QED  BY <1>8, <1>9, <1>10, <1>11, <1>12

\* The sum of one number more.
LEMMA TotalMore ==
    ASSUME NEW n \in Nat, NEW w \in [1..(n + 1) -> Nat]
    PROVE  /\ Total([j \in 1..n |-> w[j]]) \in Nat
           /\ Total(w) = Total([j \in 1..n |-> w[j]]) + w[n + 1]
<1> DEFINE v == [j \in 1..n |-> w[j]]
<1>1. v \in [1..n -> Nat] /\ n + 1 \in 1..(n + 1) /\ n + 1 \in Nat
  OBVIOUS
<1>2. v \in Seq(Nat) /\ w \in Seq(Nat)
  <2> HIDE DEF v
  <2> QED  BY <1>1, SeqDef
<1>3. Len(v) = n /\ Len(w) = n + 1
  <2>1. DOMAIN v = 1..n /\ DOMAIN w = 1..(n + 1)
    OBVIOUS
  <2> HIDE DEF v
  <2>2. /\ DOMAIN v = 1..Len(v) /\ DOMAIN w = 1..Len(w)
        /\ Len(v) \in Nat /\ Len(w) \in Nat
    BY <1>2, LenProperties
  <2> QED  BY <1>1, <2>1, <2>2
<1>4. PICK f : /\ f \in [0..n -> Nat] /\ f[0] = 0
               /\ \A i \in 1..n : f[i] = f[i - 1] + v[i]
               /\ Total(v) = f[n]
  <2> HIDE DEF v
  <2> QED  BY <1>2, <1>3, TotalSteps
<1>5. PICK g : /\ g \in [0..(n + 1) -> Nat] /\ g[0] = 0
               /\ \A i \in 1..(n + 1) : g[i] = g[i - 1] + w[i]
               /\ Total(w) = g[n + 1]
  <2> HIDE DEF v
  <2> QED  BY <1>2, <1>3, TotalSteps
<1> DEFINE S == {i \in 0..n : f[i] = g[i]}
<1>6. 0 \in S
  BY <1>4, <1>5
<1>7. ASSUME NEW i \in 0..(n - 1), i \in S
      PROVE  i + 1 \in S
  <2>1. i + 1 \in 1..n /\ i + 1 \in 0..n /\ (i + 1) - 1 = i /\ i + 1 \in 1..(n + 1)
    OBVIOUS
  <2>2. f[i + 1] = f[i] + v[i + 1] /\ g[i + 1] = g[i] + w[i + 1] /\ v[i + 1] = w[i + 1]
    BY <1>4, <1>5, <2>1
  <2> HIDE DEF v
  <2> QED  BY <1>7, <2>1, <2>2
<1>8. 0..n \subseteq S
  <2> HIDE DEF S
  <2> QED  BY <1>6, <1>7, BoundedInduction
<1>9. n \in 0..n /\ (n + 1) - 1 = n
  OBVIOUS
<1>10. f[n] = g[n] /\ f[n] \in Nat
  BY <1>4, <1>8, <1>9
<1>11. g[n + 1] = g[n] + w[n + 1]
  BY <1>1, <1>5, <1>9
<1> HIDE DEF v
<1> QED  BY <1>4, <1>5, <1>10, <1>11 DEF v

\* Nothing has been earned with no event.
LEMMA TotalOfNone ==
    ASSUME NEW w \in [1..0 -> Nat]
    PROVE  Total(w) = 0
<1>1. w \in Seq(Nat) /\ Len(w) = 0
  <2>1. w \in Seq(Nat)
    BY SeqDef
  <2>2. DOMAIN w = 1..Len(w) /\ DOMAIN w = {} /\ Len(w) \in Nat
    BY <2>1, LenProperties
  <2> QED  BY <2>1, <2>2
<1> QED  BY <1>1, TotalSteps

\* What an entry was worth does not change once it is in the log.
LEMMA WorthStays ==
    ASSUME TypeOK, NEW m \in Envelopes, Admitted(m), NEW i \in 1..Len(eventLog)
    PROVE  Worth(i)' = Worth(i)
<1>1. Counts(i)' <=> Counts(i)
  BY CountsStays
<1>2. /\ eventLog'[i].kind = eventLog[i].kind
      /\ eventLog[i].kind = "task.commit" => eventLog'[i].payload = eventLog[i].payload
  BY EntriesStay, SameEntryFields
<1> QED
  BY <1>1, <1>2 DEF Worth, Kind

\* What a new entry is worth.
LEMMA NewWorth ==
    ASSUME TypeOK, BallotsMatch, NEW m \in Envelopes, Admitted(m), NEW n \in Nat, n = Len(eventLog)
    PROVE  /\ Worth(n + 1)' \in Nat
           /\ m.kind = "graph.delta" => Worth(n + 1)' = 1
           /\ m.kind = "project.motion" => Worth(n + 1)' = 5
           /\ m.kind = "project.intent" => Worth(n + 1)' = 2
           /\ m.kind = "task.commit" /\ m.payload.accepted => Worth(n + 1)' = 3
           /\ m.kind = "task.deliver" => Worth(n + 1)' = 10
           /\ m.kind = "election.vote"
              /\ m.payload.nullifier \notin elections[m.payload.election_id].nullifiers
                => Worth(n + 1)' = 1
<1>1. eventLog'[n + 1] = m
  BY EntriesStay
<1>2. m.kind = "election.vote"
      /\ m.payload.nullifier \notin elections[m.payload.election_id].nullifiers
        => Counts(n + 1)'
  BY NewCounts
<1>3. Counts(n + 1)' => m.kind = "election.vote"
  BY <1>1 DEF Counts, Kind
<1> QED
  BY <1>1, <1>2, <1>3 DEF Worth, Kind

\* What a user has earned with the log is left alone, and grows by the new entry.
LEMMA EarnedGrows ==
    ASSUME TypeOK, NEW m \in Envelopes, Admitted(m), NEW u, NEW n \in Nat, n = Len(eventLog)
    PROVE  /\ \A k \in 0..n : Earned(u, k)' = Earned(u, k)
           /\ Earned(u, n) \in Nat
           /\ Earned(u, n + 1)' = Earned(u, n) + (IF m.sender = u THEN Worth(n + 1)' ELSE 0)
<1> DEFINE old(k) == [j \in 1..k |-> IF eventLog[j].sender = u THEN Worth(j) ELSE 0]
           new(k) == [j \in 1..k |-> IF eventLog'[j].sender = u THEN Worth(j)' ELSE 0]
<1>1. \A k : Earned(u, k) = Total(old(k)) /\ Earned(u, k)' = Total(new(k))
  BY DEF Earned
<1>2. \A j \in 1..n : eventLog'[j].sender = eventLog[j].sender /\ Worth(j)' = Worth(j)
  BY EntriesStay, SameEntryFields, WorthStays
<1>3. \A k \in 0..n : new(k) = old(k)
  BY <1>2
<1>4. eventLog'[n + 1].sender = m.sender
  BY EntriesStay
<1>5. new(n + 1) \in [1..(n + 1) -> Nat]
  <2>1. \A j : Worth(j)' \in Nat
    BY DEF Worth
  <2> QED  BY <2>1
<1>6. /\ [j \in 1..n |-> new(n + 1)[j]] = new(n)
      /\ new(n + 1)[n + 1] = IF m.sender = u THEN Worth(n + 1)' ELSE 0
  BY <1>4
<1>7. n \in 0..n
  OBVIOUS
<1> HIDE DEF old, new
<1>8. /\ Total(new(n)) \in Nat
      /\ Total(new(n + 1)) = Total(new(n)) + new(n + 1)[n + 1]
  BY <1>5, <1>6, TotalMore
<1> QED
  BY <1>1, <1>3, <1>6, <1>7, <1>8

\* No score exceeds what its owner has earned with the log.
TrustIsEarned == \A u \in Users : trust[u] <= Earned(u, Len(eventLog))

TrustInv == TrustIsEarned /\ HighImpactEarned

\* The sender of m, the new entry, gains at most what it is worth, and nobody else.
TrustMoves(m) ==
    \A u \in Users, n \in Nat :
      n = Len(eventLog) + 1 =>
        trust'[u] <= trust[u] + (IF m.sender = u THEN Worth(n)' ELSE 0)

\* A bump of a score.
LEMMA Bumped ==
    ASSUME TypeOK, NEW v \in Users, NEW delta \in Int, BumpTrust(v, delta), NEW u \in Users
    PROVE  /\ trust[u] \in Int /\ trust'[u] \in Int
           /\ trust'[u] <= trust[u] + (IF u = v /\ delta > 0 THEN delta ELSE 0)
<1>1. trust \in [Users -> -100..100]
  BY DEF TypeOK, RecordsType
<1>2. trust[u] \in -100..100
  BY <1>1
<1>3. trust'[u] = IF u = v THEN Clamp(trust[u] + delta) ELSE trust[u]
  BY <1>1 DEF BumpTrust
<1>4. \A x \in -100..100 : Clamp(x + delta) <= x + (IF delta > 0 THEN delta ELSE 0)
  BY DEF Clamp
<1>5. trust' \in [Users -> -100..100]
  BY BumpTrustType
<1>6. trust'[u] \in -100..100
  BY <1>5
<1> QED
  BY <1>2, <1>3, <1>4, <1>6

\* Trust changes with the log, and rises by what the message is worth at most.
LEMMA TrustStep ==
    ASSUME TypeOK, BallotsMatch, [Next]_vars
    PROVE  \/ UNCHANGED <<eventLog, trust>>
           \/ \E m \in Envelopes : Admitted(m) /\ TrustMoves(m)
<1>1. CASE Tick \/ UNCHANGED vars
  BY <1>1 DEF Tick, vars
<1>2. ASSUME NEW m \in Envelopes, Process(m)
      PROVE  UNCHANGED <<eventLog, trust>> \/ (Admitted(m) /\ TrustMoves(m))
  <2> m \in MessageEnvelope
    BY EnvelopeAssumption
  <2>1. CASE RefuseUnchecked(m) \/ RefuseReplay(m) \/ RefuseAfterNonce(m)
    BY <2>1 DEF RefuseUnchecked, RefuseReplay, RefuseAfterNonce, unchangedByRefusal, vars
  <2>2. m.sender \in Users /\ trust \in [Users -> -100..100]
    BY HeaderType DEF TypeOK, RecordsType
  <2>3. ASSUME Accept(m), AppendEvent(m), now' = now, UNCHANGED revokedCapabilities,
               m.kind # "capability.revoke"
        PROVE  Admitted(m)
    BY <2>3, AppendGrows DEF Admitted
  <2>4. ASSUME UNCHANGED trust
        PROVE  UNCHANGED <<eventLog, trust>> \/ (Admitted(m) /\ TrustMoves(m))
    <3>1. Idle => UNCHANGED eventLog
      BY DEF Idle
    <3>2. TrustMoves(m)
      <4>1. \A n \in Nat : Worth(n)' \in Nat
        BY DEF Worth
      <4>2. \A u \in Users : trust[u] \in Int
        BY <2>2
      <4> SUFFICES ASSUME NEW u \in Users, NEW k \in Nat
                   PROVE  trust'[u] <= trust[u] + (IF m.sender = u THEN Worth(k)' ELSE 0)
        BY DEF TrustMoves
      <4> QED
        BY <2>4, <4>1, <4>2
    <3> QED
      BY <1>2, <2>4, <3>1, <3>2, ProcessCases
  \* An author is paid.
  <2>5. ASSUME Admitted(m), NEW delta \in Nat, BumpTrust(m.sender, delta),
               \A n \in Nat : n = Len(eventLog) => delta <= Worth(n + 1)'
        PROVE  TrustMoves(m)
    <3> SUFFICES ASSUME NEW u \in Users, NEW k \in Nat, k = Len(eventLog) + 1
                 PROVE  trust'[u] <= trust[u] + (IF m.sender = u THEN Worth(k)' ELSE 0)
      BY DEF TrustMoves
    <3>1. PICK n \in Nat : n = Len(eventLog)
      BY <2>5, EntriesStay
    <3>2. k = n + 1 /\ delta \in Nat /\ delta <= Worth(k)' /\ Worth(k)' \in Nat
      BY <2>5, <3>1 DEF Worth
    <3>3. trust'[u] <= trust[u] + (IF u = m.sender /\ delta > 0 THEN delta ELSE 0)
      BY <2>2, <2>5, Bumped
    <3>4. trust[u] \in Int /\ trust'[u] \in Int
      BY <2>2, <2>5, Bumped
    <3>5. CASE m.sender = u
      <4>1. trust'[u] <= trust[u] + delta
        BY <3>2, <3>3, <3>4, <3>5
      <4> QED
        BY <3>2, <3>4, <3>5, <4>1
    <3>6. CASE m.sender # u
      BY <3>3, <3>4, <3>6
    <3> QED
      BY <3>5, <3>6
  <2>6. ASSUME Admitted(m), NEW n \in Nat, n = Len(eventLog)
        PROVE  /\ Worth(n + 1)' \in Nat
               /\ m.kind = "graph.delta" => Worth(n + 1)' = 1
               /\ m.kind = "project.motion" => Worth(n + 1)' = 5
               /\ m.kind = "project.intent" => Worth(n + 1)' = 2
               /\ m.kind = "task.commit" /\ m.payload.accepted => Worth(n + 1)' = 3
               /\ m.kind = "task.deliver" => Worth(n + 1)' = 10
               /\ m.kind = "election.vote"
                  /\ m.payload.nullifier \notin elections[m.payload.election_id].nullifiers
                    => Worth(n + 1)' = 1
    BY <2>6, NewWorth
  <2>7. CASE GraphDelta(m)
    <3>1. Admitted(m) /\ BumpTrust(m.sender, 1) /\ m.kind = "graph.delta"
      BY <2>3, <2>7 DEF GraphDelta
    <3> QED
      BY <2>5, <2>6, <3>1
  <2>8. CASE ProjectMotion(m)
    <3>1. Admitted(m) /\ BumpTrust(m.sender, 5) /\ m.kind = "project.motion"
      BY <2>3, <2>8 DEF ProjectMotion
    <3> QED
      BY <2>5, <2>6, <3>1
  <2>9. CASE ProjectIntent(m)
    <3>1. Admitted(m) /\ BumpTrust(m.sender, 2) /\ m.kind = "project.intent"
      BY <2>3, <2>9 DEF ProjectIntent
    <3> QED
      BY <2>5, <2>6, <3>1
  <2>10. CASE TaskCommit(m)
    <3>1. /\ Admitted(m) /\ m.kind = "task.commit"
          /\ BumpTrust(m.sender, IF m.payload.accepted THEN 3 ELSE 0)
      BY <2>3, <2>10 DEF TaskCommit
    <3>2. CASE m.payload.accepted
      <4>1. BumpTrust(m.sender, 3)
        BY <3>1, <3>2
      <4> QED
        BY <2>5, <2>6, <3>1, <3>2, <4>1
    <3>3. CASE ~m.payload.accepted
      <4>1. BumpTrust(m.sender, 0)
        BY <3>1, <3>3
      <4>2. \A n \in Nat : n = Len(eventLog) => 0 <= Worth(n + 1)'
        BY <2>6, <3>1
      <4> QED
        BY <2>5, <3>1, <4>1, <4>2
    <3> QED
      BY <3>2, <3>3
  <2>11. CASE TaskDeliver(m)
    <3>1. Admitted(m) /\ BumpTrust(m.sender, 10) /\ m.kind = "task.deliver"
      BY <2>3, <2>11 DEF TaskDeliver
    <3> QED
      BY <2>5, <2>6, <3>1
  <2>12. CASE ElectionVote(m)
    <3>1. /\ Admitted(m) /\ m.kind = "election.vote"
          /\ \/ UNCHANGED trust
             \/ /\ BumpTrust(m.sender, 1)
                /\ m.payload.nullifier \notin elections[m.payload.election_id].nullifiers
      BY <2>3, <2>12 DEF ElectionVote
    <3> QED
      BY <2>4, <2>5, <2>6, <3>1
  <2>13. CASE DisputeReport(m)
    <3>1. /\ Admitted(m) /\ m.payload.accused \in Users \union {"unset"}
          /\ \/ UNCHANGED trust
             \/ m.payload.accused \in Users /\ BumpTrust(m.payload.accused, -5)
      BY <2>3, <2>13, PayloadType DEF DisputeReport, ReportPayload
    <3>2. ASSUME NEW v \in Users, BumpTrust(v, -5)
          PROVE  TrustMoves(m)
      <4> SUFFICES ASSUME NEW u \in Users, NEW k \in Nat
                   PROVE  trust'[u] <= trust[u] + (IF m.sender = u THEN Worth(k)' ELSE 0)
        BY DEF TrustMoves
      <4>1. trust'[u] <= trust[u]
        <5>1. trust'[u] <= trust[u] + 0 /\ trust[u] \in Int
          BY <2>2, <3>2, Bumped
        <5> QED
          BY <5>1
      <4>2. Worth(k)' \in Nat
        BY DEF Worth
      <4>3. trust[u] \in Int /\ trust'[u] \in Int
        <5>1. trust' \in [Users -> -100..100]
          BY <3>2, BumpTrustType
        <5> QED
          BY <2>2, <5>1
      <4> QED
        BY <4>1, <4>2, <4>3
    <3> QED
      BY <2>4, <3>1, <3>2
  <2>14. CASE GraphDeltaThrows(m) \/ ProjectUpdate(m) \/ TaskPropose(m) \/ TaskAssign(m)
    BY <2>4, <2>14 DEF GraphDeltaThrows, ProjectUpdate, TaskPropose, TaskAssign
  <2>15. CASE ElectionMotion(m) \/ DisputeResponse(m)
    BY <2>4, <2>15 DEF ElectionMotion, DisputeResponse
  <2>16. CASE CapabilityGrant(m) \/ CapabilityRevoke(m) \/ TransportMessage(m)
    BY <2>4, <2>16 DEF CapabilityGrant, CapabilityRevoke, TransportMessage
  <2> QED
    BY <1>2, <2>1, <2>7, <2>8, <2>9, <2>10, <2>11, <2>12, <2>13, <2>14, <2>15, <2>16,
       <2>3 DEF Process, GraphDelta, ProjectMotion, ProjectIntent, TaskCommit, TaskDeliver
<1> QED
  BY <1>1, <1>2 DEF Next

LEMMA TrustInvStep ==
    ASSUME TypeOK, BallotsMatch, TrustInv, [Next]_vars
    PROVE  TrustInv'
<1>1. CASE UNCHANGED <<eventLog, trust>>
  <2>1. \A j : Worth(j)' = Worth(j)
    BY <1>1 DEF Worth, Counts, Kind
  <2>2. \A u, n : [j \in 1..n |-> IF eventLog'[j].sender = u THEN Worth(j)' ELSE 0]
                    = [j \in 1..n |-> IF eventLog[j].sender = u THEN Worth(j) ELSE 0]
    BY <1>1, <2>1
  <2>3. TrustIsEarned'
    BY <1>1, <2>2 DEF TrustInv, TrustIsEarned, Earned
  <2>4. HighImpactEarned'
    BY <1>1, <2>2 DEF TrustInv, HighImpactEarned, Earned, Kind
  <2> QED
    BY <2>3, <2>4 DEF TrustInv
<1>2. ASSUME NEW m \in Envelopes, Admitted(m), TrustMoves(m)
      PROVE  TrustInv'
  <2> m \in MessageEnvelope
    BY EnvelopeAssumption
  <2>1. PICK n \in Nat : n = Len(eventLog)
    BY <1>2, EntriesStay
  <2>2. /\ DOMAIN eventLog = 1..n /\ DOMAIN eventLog' = 1..(n + 1)
        /\ eventLog'[n + 1] = m
        /\ \A i \in 1..n : /\ eventLog'[i].kind = eventLog[i].kind
                           /\ eventLog'[i].sender = eventLog[i].sender
    BY <1>2, <2>1, EntriesStay, SameEntryFields
  <2>3. \A u : /\ \A k \in 0..n : Earned(u, k)' = Earned(u, k)
               /\ Earned(u, n) \in Nat
               /\ Earned(u, n + 1)' =
                    Earned(u, n) + (IF m.sender = u THEN Worth(n + 1)' ELSE 0)
    BY <1>2, <2>1, EarnedGrows
  <2>4. \A u \in Users : trust[u] <= Earned(u, n)
    BY <2>1 DEF TrustInv, TrustIsEarned
  <2>5. Len(eventLog') = n + 1
    BY <1>2, <2>1 DEF Admitted, Grows
  <2>6. TrustIsEarned'
    <3> SUFFICES ASSUME NEW u \in Users
                 PROVE  trust'[u] <= Earned(u, n + 1)'
      BY <2>5 DEF TrustIsEarned, Earned
    <3>1. trust'[u] <= trust[u] + (IF m.sender = u THEN Worth(n + 1)' ELSE 0)
      BY <1>2, <2>1 DEF TrustMoves
    <3>2. Worth(n + 1)' \in Nat
      BY DEF Worth
    <3>3. trust[u] \in -100..100 /\ trust'[u] \in Int
      BY NextType DEF TypeOK, RecordsType
    <3> QED
      BY <2>3, <2>4, <3>1, <3>2, <3>3
  <2>7. ASSUME NEW i \in 1..(n + 1), eventLog'[i].kind \in HighImpactKinds,
               NEW u, u = eventLog'[i].sender
        PROVE  Earned(u, i - 1)' >= HighImpactTrustMin
    <3>1. CASE i = n + 1
      <4>1. u = m.sender /\ u \in Users /\ m.kind \in HighImpactKinds
        BY <2>2, <2>7, <3>1, HeaderType
      <4>2. trust[u] \in Int /\ HighImpactTrustMin \in Int
        BY <4>1 DEF TypeOK, RecordsType, HighImpactTrustMin
      <4>3. trust[u] >= HighImpactTrustMin
        BY <1>2, <4>1, <4>2 DEF Admitted, Accept, PolicyOk
      <4>4. i - 1 = n /\ n \in 0..n
        BY <3>1
      <4>5. Earned(u, i - 1)' = Earned(u, n) /\ Earned(u, n) \in Nat /\ trust[u] <= Earned(u, n)
        BY <2>3, <2>4, <4>1, <4>4
      <4> QED
        BY <4>2, <4>3, <4>5
    <3>2. CASE i \in 1..n
      <4>1. i - 1 \in 0..n
        BY <3>2
      <4>2. Earned(u, i - 1) >= HighImpactTrustMin
        BY <2>2, <2>7, <3>2 DEF TrustInv, HighImpactEarned, Kind
      <4> QED
        BY <2>3, <4>1, <4>2
    <3> QED
      BY <3>1, <3>2
  <2>8. HighImpactEarned'
    <3> SUFFICES ASSUME NEW i \in 1..(n + 1), eventLog'[i].kind \in HighImpactKinds,
                        NEW u, u = eventLog'[i].sender
                 PROVE  Earned(u, i - 1)' >= HighImpactTrustMin
      BY <2>2 DEF HighImpactEarned, Earned, Kind, HighImpactTrustMin
    <3> QED
      BY <2>7
  <2> QED
    BY <2>6, <2>8 DEF TrustInv
<1> QED
  BY <1>1, <1>2, TrustStep

\* Whoever gets a motion, a grant or a revocation into the log has earned the
\* standing for it with events that precede it there: the scores that policyOk
\* reads are bounded by what the handlers may have paid for the log, although
\* they are clamped, lowered by the reports of others, and skipped by a throw.
THEOREM StandingIsEarned == Spec => []HighImpactEarned
<1>1. Init => TrustInv
  <2> SUFFICES ASSUME Init PROVE TrustInv
    OBVIOUS
  <2>1. DOMAIN eventLog = {} /\ Len(eventLog) = 0
    BY EmptySeq DEF Init
  <2>2. ASSUME NEW u \in Users
        PROVE  trust[u] <= Earned(u, 0)
    <3>1. [j \in 1..0 |-> IF eventLog[j].sender = u THEN Worth(j) ELSE 0] \in [1..0 -> Nat]
      OBVIOUS
    <3>2. Earned(u, 0) = 0
      BY <3>1, TotalOfNone DEF Earned
    <3> QED
      BY <3>2 DEF Init
  <2> QED
    BY <2>1, <2>2 DEF TrustInv, TrustIsEarned, HighImpactEarned
<1>2. Init => BallotsMatch
  <2> SUFFICES ASSUME Init PROVE BallotsMatch
    OBVIOUS
  <2>1. DOMAIN eventLog = {}
    BY EmptySeq DEF Init
  <2> QED
    BY <2>1 DEF Init, BallotsMatch, VotePositions, BallotPositions, NoElection, Latest
<1>3. TypeOK /\ BallotsMatch /\ [Next]_vars => BallotsMatch'
  BY BallotsStep
<1>4. TypeOK /\ BallotsMatch /\ TrustInv /\ [Next]_vars => TrustInv'
  BY TrustInvStep
<1>5. TrustInv => HighImpactEarned
  BY DEF TrustInv
<1> QED
  BY <1>1, <1>2, <1>3, <1>4, <1>5, TypeCorrect, PTL DEF Spec

-----------------------------------------------------------------------------
(* Tasks.                                                                  *)

TaskKinds == {"task.propose", "task.assign", "task.commit", "task.deliver"}

\* An entry is about a task.
IsAbout(m, p, t) ==
    m.kind \in TaskKinds /\ m.payload.project_id = p /\ m.payload.task_id = t

About(p, t) == {i \in DOMAIN eventLog : IsAbout(eventLog[i], p, t)}
AboutOf(p, t, kind) == {i \in About(p, t) : eventLog[i].kind = kind}

\* The status that an event gives its task.
StatusOf(m) ==
    CASE m.kind = "task.propose" -> "proposed"
      [] m.kind = "task.deliver" -> "delivered"
      [] m.kind = "task.commit" /\ m.payload.accepted -> "committed"
      [] OTHER -> "assigned"

\* The record of a task is that of its events; their last position is one of them,
\* so that it is also the last of more of them.
TaskMatches(p, t) ==
    LET task == projects[p].tasks[t]
        last == Latest(About(p, t))
    IN  /\ task.proposal = Latest(AboutOf(p, t, "task.propose"))
        /\ task.assignment = Latest(AboutOf(p, t, "task.assign"))
        /\ task.commitment = Latest(AboutOf(p, t, "task.commit"))
        /\ task.delivery = Latest(AboutOf(p, t, "task.deliver"))
        /\ last \in About(p, t) \union {0}
        /\ task.status = IF last = 0 THEN "absent" ELSE StatusOf(eventLog[last])

TasksMatch == \A p \in Projects, t \in Tasks : TaskMatches(p, t)

\* The same in the words of the property.
LEMMA TasksMatchTheLog == TasksMatch => TasksFollowLog
<1>1. ASSUME NEW p, NEW t
      PROVE  About(p, t) =
               {i \in DOMAIN eventLog : /\ Kind(i) \in TaskKinds
                                        /\ eventLog[i].payload.project_id = p
                                        /\ eventLog[i].payload.task_id = t}
  BY DEF About, IsAbout, Kind
<1>2. ASSUME NEW p, NEW t, NEW kind
      PROVE  AboutOf(p, t, kind) =
               {i \in DOMAIN eventLog : /\ /\ Kind(i) \in TaskKinds
                                           /\ eventLog[i].payload.project_id = p
                                           /\ eventLog[i].payload.task_id = t
                                        /\ Kind(i) = kind}
  BY <1>1 DEF AboutOf, Kind
<1>3. ASSUME NEW i
      PROVE  StatusOf(eventLog[i]) =
               CASE Kind(i) = "task.propose" -> "proposed"
                 [] Kind(i) = "task.deliver" -> "delivered"
                 [] Kind(i) = "task.commit" /\ eventLog[i].payload.accepted -> "committed"
                 [] OTHER -> "assigned"
  BY DEF StatusOf, Kind
<1> QED
  <2> SUFFICES ASSUME TasksMatch PROVE TasksFollowLog
    OBVIOUS
  <2> SUFFICES ASSUME NEW p \in Projects, NEW t \in Tasks, TaskMatches(p, t)
               PROVE TasksFollowLog!(p,t)
    BY DEF TasksFollowLog, TasksMatch
  <2> QED
    BY <1>1, <1>2, <1>3, Zenon DEF TaskMatches, TaskKinds, Positions
-----------------------------------------------------------------------------
(* The steps, as far as tasks go.                                          *)

\* The record of a task after an event about it.
TaskAfter(task, m) ==
    CASE m.kind = "task.propose" -> [task EXCEPT !.proposal = At, !.status = StatusOf(m)]
      [] m.kind = "task.assign" -> [task EXCEPT !.assignment = At, !.status = StatusOf(m)]
      [] m.kind = "task.commit" -> [task EXCEPT !.commitment = At, !.status = StatusOf(m)]
      [] m.kind = "task.deliver" -> [task EXCEPT !.delivery = At, !.status = StatusOf(m)]

\* Every task is as m leaves it.
TasksAfter(m) ==
    \A p \in Projects, t \in Tasks :
      projects'[p].tasks[t] = IF IsAbout(m, p, t) THEN TaskAfter(projects[p].tasks[t], m)
                                                  ELSE projects[p].tasks[t]

LEMMA ProjectFacts ==
    ASSUME TypeOK, NEW p \in Projects
    PROVE  /\ projects[p] \in ProjectRecord /\ EnsureProject(p) \in ProjectRecord
           /\ EnsureProject(p).tasks = projects[p].tasks
           /\ EnsureProject(p).motion = projects[p].motion
           /\ EnsureProject(p).intents = projects[p].intents
<1>1. projects[p] \in ProjectRecord
  BY DEF TypeOK, RecordsType
<1> QED
  BY <1>1, EnsureProjectType DEF EnsureProject, ProjectRecord

LEMMA OtherTasks ==
    ASSUME TypeOK, NEW m, m.kind \notin TaskKinds,
           \/ UNCHANGED projects
           \/ \E q \in Projects : \E record :
                SetProject(q, record) /\ record.tasks = projects[q].tasks
    PROVE  TasksAfter(m)
BY DEF TasksAfter, IsAbout, TypeOK, RecordsType, SetProject

LEMMA OneTask ==
    ASSUME TypeOK, NEW m, m.kind \in TaskKinds, NEW q \in Projects, NEW s \in Tasks,
           m.payload.project_id = q, m.payload.task_id = s,
           NEW record, SetProject(q, record),
           record.tasks = [projects[q].tasks EXCEPT ![s] = TaskAfter(projects[q].tasks[s], m)]
    PROVE  TasksAfter(m)
<1> SUFFICES ASSUME NEW p \in Projects, NEW t \in Tasks
             PROVE  projects'[p].tasks[t] = IF IsAbout(m, p, t)
                                            THEN TaskAfter(projects[p].tasks[t], m)
                                            ELSE projects[p].tasks[t]
  BY DEF TasksAfter
<1>1. IsAbout(m, p, t) <=> p = q /\ t = s
  BY DEF IsAbout
<1>2. projects'[p] = IF p = q THEN record ELSE projects[p]
  BY DEF SetProject, TypeOK, RecordsType
<1>3. projects[q].tasks \in [Tasks -> TaskRecord]
  BY ProjectFacts DEF ProjectRecord
<1> QED
  BY <1>1, <1>2, <1>3

LEMMA TaskPayloads ==
    ASSUME NEW m \in Envelopes, m \in MessageEnvelope
    PROVE  /\ m.kind \in TaskKinds => m.payload.project_id \in Projects /\ m.payload.task_id \in Tasks
           /\ m.kind = "project.motion" => MotionProject(m) \in Projects
           /\ m.kind \in {"project.intent", "project.update"} => m.payload.project_id \in Projects
<1>1. /\ m.kind \in TaskKinds => m.payload.project_id \in Projects /\ m.payload.task_id \in Tasks
      /\ m.kind \in {"project.intent", "project.update"} => m.payload.project_id \in Projects
  BY PayloadType DEF TaskKinds, TaskPayload, AssignPayload, CommitPayload, ProjectPayload,
                     UpdatePayload
<1>2. ASSUME m.kind = "project.motion" PROVE MotionProject(m) \in Projects
  BY <1>2, PayloadType, NameAssumption DEF MotionPayload, MotionProject
<1> QED
  BY <1>1, <1>2

\* The log and the tasks change together, or neither does.
LEMMA TaskStepCases ==
    ASSUME TypeOK, [Next]_vars
    PROVE  \/ UNCHANGED <<eventLog, projects>>
           \/ \E m \in Envelopes : Admitted(m) /\ TasksAfter(m)
<1>1. CASE Tick \/ UNCHANGED vars
  BY <1>1 DEF Tick, vars
<1>2. ASSUME NEW m \in Envelopes, Process(m)
      PROVE  UNCHANGED <<eventLog, projects>> \/ (Admitted(m) /\ TasksAfter(m))
  <2> m \in MessageEnvelope
    BY EnvelopeAssumption
  <2>1. CASE RefuseUnchecked(m) \/ RefuseReplay(m) \/ RefuseAfterNonce(m)
    <3>1. UNCHANGED unchangedByRefusal
      BY <2>1 DEF RefuseUnchecked, RefuseReplay, RefuseAfterNonce, unchangedByRefusal, vars, graphVars
    <3> QED
      BY <3>1 DEF unchangedByRefusal
  <2>2. ASSUME UNCHANGED projects, m.kind \notin TaskKinds
        PROVE  UNCHANGED <<eventLog, projects>> \/ (Admitted(m) /\ TasksAfter(m))
    BY <1>2, <2>2, ProcessCases, OtherTasks DEF Idle
  <2>3. ASSUME Accept(m), AppendEvent(m), now' = now, UNCHANGED revokedCapabilities,
               m.kind # "capability.revoke"
        PROVE  Admitted(m)
    BY <2>3, AppendGrows DEF Admitted
  <2>4. CASE GraphDelta(m) \/ GraphDeltaThrows(m) \/ ElectionMotion(m) \/ ElectionVote(m)
    BY <2>2, <2>4 DEF GraphDelta, GraphDeltaThrows, ElectionMotion, ElectionVote, TaskKinds
  <2>5. CASE CapabilityGrant(m) \/ CapabilityRevoke(m) \/ TransportMessage(m)
    BY <2>2, <2>5 DEF CapabilityGrant, CapabilityRevoke, TransportMessage, TransportKinds, TaskKinds
  <2>6. CASE DisputeReport(m) \/ DisputeResponse(m)
    BY <2>2, <2>6 DEF DisputeReport, DisputeResponse, TaskKinds
  <2>7. CASE ProjectMotion(m)
    <3> DEFINE q == MotionProject(m)
               record == [EnsureProject(q) EXCEPT !.motion = At, !.status = "recruiting",
                                                  !.updates = Append(@, At)]
    <3>1. q \in Projects
      BY <2>7, TaskPayloads DEF ProjectMotion
    <3>2. SetProject(q, record) /\ m.kind \notin TaskKinds
      BY <2>7 DEF ProjectMotion, TaskKinds
    <3>3. record.tasks = projects[q].tasks
      BY <3>1, ProjectFacts DEF ProjectRecord
    <3> QED
      BY <2>3, <2>7, <3>1, <3>2, <3>3, OtherTasks DEF ProjectMotion
  <2>8. CASE ProjectIntent(m)
    <3> DEFINE q == m.payload.project_id
               record == [EnsureProject(q) EXCEPT
                            !.intents[m.sender] = At,
                            !.status = IF @ = "draft" THEN "recruiting" ELSE @]
    <3>1. q \in Projects
      BY <2>8, TaskPayloads DEF ProjectIntent
    <3>2. SetProject(q, record) /\ m.kind \notin TaskKinds
      BY <2>8 DEF ProjectIntent, TaskKinds
    <3>3. record.tasks = projects[q].tasks
      BY <3>1, ProjectFacts DEF ProjectRecord
    <3> QED
      BY <2>3, <2>8, <3>1, <3>2, <3>3, OtherTasks DEF ProjectIntent
  <2>9. CASE ProjectUpdate(m)
    <3> DEFINE q == m.payload.project_id
               record == [EnsureProject(q) EXCEPT
                            !.status = IF m.payload.status = "unset" THEN @ ELSE m.payload.status,
                            !.progress = IF m.payload.progress THEN At ELSE @,
                            !.updates = IF m.payload.changes THEN Append(@, At) ELSE @]
    <3>1. q \in Projects
      BY <2>9, TaskPayloads DEF ProjectUpdate
    <3>2. SetProject(q, record) /\ m.kind \notin TaskKinds
      BY <2>9 DEF ProjectUpdate, TaskKinds
    <3>3. record.tasks = projects[q].tasks
      BY <3>1, ProjectFacts DEF ProjectRecord
    <3> QED
      BY <2>3, <2>9, <3>1, <3>2, <3>3, OtherTasks DEF ProjectUpdate
  <2>10. CASE TaskPropose(m) \/ TaskAssign(m) \/ TaskCommit(m) \/ TaskDeliver(m)
    <3> DEFINE q == m.payload.project_id
               s == m.payload.task_id
               after == TaskAfter(projects[q].tasks[s], m)
    <3>1. m.kind \in TaskKinds
      BY <2>10 DEF TaskPropose, TaskAssign, TaskCommit, TaskDeliver, TaskKinds
    <3>2. q \in Projects /\ s \in Tasks
      BY <3>1, TaskPayloads
    <3>3. EnsureProject(q) \in ProjectRecord /\ EnsureProject(q).tasks = projects[q].tasks
      BY <3>2, ProjectFacts
    <3>4. CASE TaskPropose(m) \/ TaskAssign(m) \/ TaskCommit(m)
      <4>1. SetProject(q, [EnsureProject(q) EXCEPT !.tasks[s] = after])
        BY <3>4 DEF TaskPropose, TaskAssign, TaskCommit, TaskAfter, StatusOf, SetTask
      <4>2. [EnsureProject(q) EXCEPT !.tasks[s] = after].tasks
              = [projects[q].tasks EXCEPT ![s] = after]
        BY <3>3 DEF ProjectRecord
      <4> QED
        BY <2>3, <3>1, <3>2, <3>4, <4>1, <4>2, OneTask DEF TaskPropose, TaskAssign, TaskCommit
    <3>5. CASE TaskDeliver(m)
      <4> DEFINE record == [EnsureProject(q) EXCEPT !.tasks[s] = after, !.updates = Append(@, At)]
      <4>1. SetProject(q, record)
        BY <3>5 DEF TaskDeliver, TaskAfter, StatusOf
      <4>2. record.tasks = [projects[q].tasks EXCEPT ![s] = after]
        BY <3>3 DEF ProjectRecord
      <4> QED
        BY <2>3, <3>1, <3>2, <3>5, <4>1, <4>2, OneTask DEF TaskDeliver
    <3> QED
      BY <2>10, <3>4, <3>5
  <2> QED
    BY <1>2, <2>1, <2>4, <2>5, <2>6, <2>7, <2>8, <2>9, <2>10 DEF Process
<1> QED
  BY <1>1, <1>2 DEF Next
-----------------------------------------------------------------------------
(* The tasks follow the log.                                               *)

\* The positions of a task, after an entry has been added.
LEMMA AboutAfter ==
    ASSUME TypeOK, NEW m \in Envelopes, Admitted(m), NEW p \in Projects, NEW t \in Tasks,
           NEW n \in Nat, n = Len(eventLog)
    PROVE  /\ About(p, t)' = About(p, t) \union {i \in {n + 1} : IsAbout(m, p, t)}
           /\ \A kind : AboutOf(p, t, kind)' =
                AboutOf(p, t, kind) \union {i \in {n + 1} : IsAbout(m, p, t) /\ m.kind = kind}
           /\ About(p, t) \subseteq 1..n
           /\ \A i \in About(p, t) : /\ eventLog'[i].kind = eventLog[i].kind
                                     /\ eventLog'[i].payload = eventLog[i].payload
<1>1. /\ DOMAIN eventLog = 1..n /\ DOMAIN eventLog' = 1..(n + 1)
      /\ eventLog'[n + 1] = m
  BY EntriesStay
<1>2. \A i \in 1..n : /\ eventLog'[i].kind = eventLog[i].kind
                      /\ eventLog[i].kind \in TaskKinds => eventLog'[i].payload = eventLog[i].payload
  BY EntriesStay, SameEntryFields DEF TaskKinds
<1>3. /\ \A i : i \in 1..(n + 1) <=> i \in 1..n \/ i = n + 1
      /\ n + 1 \notin 1..n
  OBVIOUS
<1>4. \A i \in 1..n : IsAbout(eventLog'[i], p, t) <=> IsAbout(eventLog[i], p, t)
  BY <1>2 DEF IsAbout
<1>5. About(p, t)' = {i \in 1..(n + 1) : IsAbout(eventLog'[i], p, t)}
      /\ About(p, t) = {i \in 1..n : IsAbout(eventLog[i], p, t)}
  BY <1>1 DEF About
<1>6. About(p, t)' = About(p, t) \union {i \in {n + 1} : IsAbout(m, p, t)}
  BY <1>1, <1>3, <1>4, <1>5
<1>7. ASSUME NEW kind
      PROVE  AboutOf(p, t, kind)' =
               AboutOf(p, t, kind) \union {i \in {n + 1} : IsAbout(m, p, t) /\ m.kind = kind}
  <2>1. AboutOf(p, t, kind)' = {i \in About(p, t)' : eventLog'[i].kind = kind}
    BY DEF AboutOf
  <2>2. \A i \in About(p, t) : i \in 1..n
    BY <1>5
  <2> QED
    BY <1>1, <1>2, <1>6, <2>1, <2>2 DEF AboutOf
<1> QED
  BY <1>2, <1>5, <1>6, <1>7 DEF IsAbout

LEMMA TaskMatchesStep ==
    ASSUME TypeOK, NEW m \in Envelopes, Admitted(m), TasksAfter(m),
           NEW p \in Projects, NEW t \in Tasks, TaskMatches(p, t)
    PROVE  TaskMatches(p, t)'
<1>0. PICK n \in Nat : n = Len(eventLog) /\ eventLog'[n + 1] = m
  BY EntriesStay
<1> DEFINE task == projects[p].tasks[t]
           last == Latest(About(p, t))
           NewLast(kind, old) == IF IsAbout(m, p, t) /\ m.kind = kind THEN n + 1 ELSE old
<1>1. About(p, t) \subseteq 1..n
  BY <1>0, AboutAfter
<1>2. ASSUME NEW kind
      PROVE  Latest(AboutOf(p, t, kind))' = NewLast(kind, Latest(AboutOf(p, t, kind)))
  <2>1. AboutOf(p, t, kind) \subseteq 1..n
    BY <1>1 DEF AboutOf
  <2>2. AboutOf(p, t, kind)' =
          AboutOf(p, t, kind) \union {i \in {n + 1} : IsAbout(m, p, t) /\ m.kind = kind}
    BY <1>0, AboutAfter
  <2>3. CASE IsAbout(m, p, t) /\ m.kind = kind
    <3>1. AboutOf(p, t, kind)' = AboutOf(p, t, kind) \union {n + 1}
      BY <2>2, <2>3
    <3> QED
      BY <2>1, <2>3, <3>1, LastIsNew DEF Latest
  <2>4. CASE ~(IsAbout(m, p, t) /\ m.kind = kind)
    <3>1. AboutOf(p, t, kind)' = AboutOf(p, t, kind)
      BY <2>2, <2>4
    <3> QED
      BY <2>4, <3>1 DEF Latest
  <2> QED
    BY <2>3, <2>4
<1>3. Latest(About(p, t)') = IF IsAbout(m, p, t) THEN n + 1 ELSE last
  <2>1. About(p, t)' = About(p, t) \union {i \in {n + 1} : IsAbout(m, p, t)}
    BY <1>0, AboutAfter
  <2>2. CASE IsAbout(m, p, t)
    <3>1. About(p, t)' = About(p, t) \union {n + 1}
      BY <2>1, <2>2
    <3> QED
      BY <1>1, <2>2, <3>1, LastIsNew
  <2>3. CASE ~IsAbout(m, p, t)
    <3>1. About(p, t)' = About(p, t)
      BY <2>1, <2>3
    <3> QED
      BY <2>3, <3>1
  <2> QED
    BY <2>2, <2>3
<1>4. task \in TaskRecord
  BY ProjectFacts DEF ProjectRecord
<1>5. CASE IsAbout(m, p, t)
  <2>1. projects'[p].tasks[t] = TaskAfter(task, m) /\ m.kind \in TaskKinds
    BY <1>5 DEF TasksAfter, IsAbout
  <2>2. LET new == projects'[p].tasks[t]
        IN  /\ new.proposal = NewLast("task.propose", task.proposal)
            /\ new.assignment = NewLast("task.assign", task.assignment)
            /\ new.commitment = NewLast("task.commit", task.commitment)
            /\ new.delivery = NewLast("task.deliver", task.delivery)
            /\ new.status = StatusOf(m)
    BY <1>0, <1>4, <1>5, <2>1 DEF TaskAfter, TaskRecord, TaskKinds, At
  <2>3. Latest(About(p, t)') = n + 1 /\ n + 1 \in About(p, t)' /\ n + 1 # 0
    BY <1>0, <1>3, <1>5, AboutAfter
  <2> QED
    BY <1>0, <1>2, <2>2, <2>3 DEF TaskMatches
<1>6. CASE ~IsAbout(m, p, t)
  <2>1. projects'[p].tasks[t] = task
    BY <1>6 DEF TasksAfter
  <2>2. About(p, t)' = About(p, t)
    <3>1. About(p, t)' = About(p, t) \union {i \in {n + 1} : IsAbout(m, p, t)}
      BY <1>0, AboutAfter
    <3> QED
      BY <1>6, <3>1
  <2>3. last # 0 => StatusOf(eventLog'[last]) = StatusOf(eventLog[last])
    BY <1>0, AboutAfter DEF TaskMatches, StatusOf
  <2> QED
    BY <1>2, <1>3, <1>6, <2>1, <2>2, <2>3 DEF TaskMatches
<1> QED
  BY <1>5, <1>6

LEMMA TasksStep ==
    ASSUME TypeOK, TasksMatch, [Next]_vars
    PROVE  TasksMatch'
<1>1. CASE UNCHANGED <<eventLog, projects>>
  <2>1. ASSUME NEW p, NEW t
        PROVE  /\ About(p, t)' = About(p, t)
               /\ \A kind : AboutOf(p, t, kind)' = AboutOf(p, t, kind)
    BY <1>1 DEF About, AboutOf
  <2> QED
    BY <1>1, <2>1 DEF TasksMatch, TaskMatches
<1>2. ASSUME NEW m \in Envelopes, Admitted(m), TasksAfter(m)
      PROVE  TasksMatch'
  BY <1>2, TaskMatchesStep DEF TasksMatch
<1> QED
  BY <1>1, <1>2, TaskStepCases

\* A task is a function of the log: its four references are its last proposal,
\* assignment, commitment and delivery, and the last of all its events sets its
\* status, whoever sent it (the task handlers, engine.ts).
THEOREM TasksAreThoseOfTheLog == Spec => []TasksFollowLog
<1>1. Init => TasksMatch
  <2> SUFFICES ASSUME Init PROVE TasksMatch
    OBVIOUS
  <2>1. DOMAIN eventLog = {}
    BY EmptySeq DEF Init
  <2> QED
    BY <2>1 DEF Init, TasksMatch, TaskMatches, About, AboutOf, NoProject, NoTask, Latest
<1>2. TypeOK /\ TasksMatch /\ [Next]_vars => TasksMatch'
  BY TasksStep
<1> QED
  BY <1>1, <1>2, TypeCorrect, TasksMatchTheLog, PTL DEF Spec
-----------------------------------------------------------------------------
(* The steps, as far as projects, votes and edges go.                      *)

\* The entry m sets the status of a project.
SetsStatus(m, p) ==
    m.kind = "project.update" /\ m.payload.project_id = p /\ m.payload.status # "unset"

\* A project keeps its motion and its intents, or it is neither absent nor a draft.
ProjectAfter(m, p) ==
    LET old == projects[p]
        new == projects'[p]
    IN  \/ /\ new.motion = old.motion /\ new.intents = old.intents
           /\ \/ SetsStatus(m, p) /\ new.status # "absent"
              \/ /\ ~SetsStatus(m, p)
                 /\ new.status = old.status \/ (old.status = "absent" /\ new.status = "draft")
        \/ /\ ~SetsStatus(m, p) /\ new.status \notin {"absent", "draft"}
           /\ new.motion \in {old.motion, At}
           /\ \A u \in Users : \/ new.intents[u] = old.intents[u]
                               \/ new.intents[u] = At /\ AddEdge(u, "participates_in", p)

ProjectsAfter(m) == \A p \in Projects : ProjectAfter(m, p)

\* A vote that m casts has its edge.
VotesAfter(m) ==
    \A e \in Elections, u \in Users :
      \/ elections'[e].votes[u] = elections[e].votes[u]
      \/ elections'[e].votes[u] = At /\ AddEdge(u, "voted_for", m.payload.choice)

\* One edge is added or replaced, or the one that m says is removed.
EdgesAfter(m) ==
    \/ UNCHANGED edges
    \/ \E from \in NodeIds \union {"undefined"}, type \in EdgeTypes \union {"undefined"},
          to \in NodeIds \union {"undefined"} : AddEdge(from, type, to)
    \/ /\ m.kind = "graph.delta" /\ m.payload.op = "remove_edge" /\ m.payload.edge \in Edge
       /\ edges' = WithoutEdge(m.payload.edge.from, m.payload.edge.type, m.payload.edge.to)

WorkAfter(m) == EdgesAfter(m) /\ ProjectsAfter(m) /\ VotesAfter(m)

LEMMA ProjectsStay ==
    ASSUME NEW m, m.kind # "project.update", UNCHANGED projects
    PROVE  ProjectsAfter(m)
BY DEF ProjectsAfter, ProjectAfter, SetsStatus

LEMMA ProjectIsSet ==
    ASSUME TypeOK, NEW m, NEW q \in Projects, NEW record, SetProject(q, record),
           m.kind = "project.update" => m.payload.project_id = q,
           projects'[q] = record => ProjectAfter(m, q)
    PROVE  ProjectsAfter(m)
<1>1. \A p \in Projects : projects'[p] = IF p = q THEN record ELSE projects[p]
  BY DEF SetProject, TypeOK, RecordsType
<1> QED
  BY <1>1 DEF ProjectsAfter, ProjectAfter, SetsStatus

LEMMA NoVoteCast ==
    ASSUME NEW m, UNCHANGED elections
    PROVE  VotesAfter(m)
BY DEF VotesAfter

LEMMA NodeNames ==
    ASSUME NEW m \in Envelopes
    PROVE  /\ m.sender \in Users /\ Users \subseteq NodeIds /\ Projects \subseteq NodeIds
           /\ Tasks \subseteq NodeIds
           /\ m.kind = "election.vote" => m.payload.choice \in NodeIds
           /\ m.kind = "task.assign" => m.payload.assignee \in NodeIds
           /\ m.kind = "graph.delta" => m.payload.edge \in Edge \union {NoEdge}
<1> m \in MessageEnvelope
  BY EnvelopeAssumption
<1>1. /\ m.kind = "election.vote" => m.payload.choice \in NodeIds
      /\ m.kind = "task.assign" => m.payload.assignee \in NodeIds
      /\ m.kind = "graph.delta" => m.payload.edge \in Edge \union {NoEdge}
  BY PayloadType DEF VotePayload, AssignPayload, GraphPayload
<1> QED
  BY <1>1, HeaderType, NameAssumption

LEMMA ProjectWork ==
    ASSUME TypeOK, NEW m \in Envelopes,
           ProjectMotion(m) \/ ProjectIntent(m) \/ ProjectUpdate(m)
    PROVE  WorkAfter(m)
<1> m \in MessageEnvelope
  BY EnvelopeAssumption
<1>1. CASE ProjectMotion(m)
  <2> DEFINE q == MotionProject(m)
             record == [EnsureProject(q) EXCEPT !.motion = At, !.status = "recruiting",
                                                !.updates = Append(@, At)]
  <2>1. q \in Projects /\ SetProject(q, record) /\ m.kind = "project.motion"
    BY <1>1, TaskPayloads DEF ProjectMotion
  <2>2. record.motion = At /\ record.status = "recruiting" /\ record.intents = projects[q].intents
    BY <2>1, ProjectFacts DEF ProjectRecord
  <2>3. projects'[q] = record => ProjectAfter(m, q)
    <3> HIDE DEF record
    <3> QED
      BY <2>1, <2>2 DEF ProjectAfter, SetsStatus
  <2>4. ProjectsAfter(m)
    BY <2>1, <2>3, ProjectIsSet
  <2> QED
    BY <1>1, <2>4, NoVoteCast DEF ProjectMotion, WorkAfter, EdgesAfter
<1>2. CASE ProjectIntent(m)
  <2> DEFINE q == m.payload.project_id
             record == [EnsureProject(q) EXCEPT
                          !.intents[m.sender] = At,
                          !.status = IF @ = "draft" THEN "recruiting" ELSE @]
  <2>1. q \in Projects /\ SetProject(q, record) /\ m.kind = "project.intent"
        /\ AddEdge(m.sender, "participates_in", q) /\ UNCHANGED elections
    BY <1>2, TaskPayloads DEF ProjectIntent
  <2>2. /\ record.motion = projects[q].motion /\ record.status \notin {"absent", "draft"}
        /\ record.intents = [projects[q].intents EXCEPT ![m.sender] = At]
    <3>1. EnsureProject(q).status # "absent"
      BY <2>1, ProjectFacts DEF EnsureProject, ProjectRecord
    <3>2. /\ EnsureProject(q) \in ProjectRecord
          /\ EnsureProject(q).motion = projects[q].motion
          /\ EnsureProject(q).intents = projects[q].intents
      BY <2>1, ProjectFacts
    <3> DEFINE old == EnsureProject(q)
    <3> HIDE DEF old
    <3>3. LET new == [old EXCEPT !.intents[m.sender] = At,
                                 !.status = IF @ = "draft" THEN "recruiting" ELSE @]
          IN  /\ old \in ProjectRecord /\ old.status # "absent" =>
                 /\ new.motion = old.motion /\ new.status \notin {"absent", "draft"}
                 /\ new.intents = [old.intents EXCEPT ![m.sender] = At]
      BY DEF ProjectRecord
    <3> QED
      BY <3>1, <3>2, <3>3 DEF old
  <2>3. projects[q].intents \in [Users -> Nat]
    BY <2>1, ProjectFacts DEF ProjectRecord
  <2>4. \A u \in Users : \/ record.intents[u] = projects[q].intents[u]
                         \/ record.intents[u] = At /\ u = m.sender
    <3> HIDE DEF record
    <3> QED
      BY <2>2, <2>3
  <2>5. projects'[q] = record => ProjectAfter(m, q)
    <3> HIDE DEF record
    <3> QED
      BY <2>1, <2>2, <2>4 DEF ProjectAfter, SetsStatus
  <2>6. ProjectsAfter(m)
    BY <2>1, <2>5, ProjectIsSet
  <2>7. EdgesAfter(m)
    <3>1. m.sender \in NodeIds /\ q \in NodeIds /\ "participates_in" \in EdgeTypes
      BY <2>1, NodeNames DEF EdgeTypes
    <3> QED
      BY <2>1, <3>1 DEF EdgesAfter
  <2> QED
    BY <2>1, <2>6, <2>7, NoVoteCast DEF WorkAfter
<1>3. CASE ProjectUpdate(m)
  <2> DEFINE q == m.payload.project_id
             record == [EnsureProject(q) EXCEPT
                          !.status = IF m.payload.status = "unset" THEN @ ELSE m.payload.status,
                          !.progress = IF m.payload.progress THEN At ELSE @,
                          !.updates = IF m.payload.changes THEN Append(@, At) ELSE @]
  <2>1. q \in Projects /\ SetProject(q, record) /\ m.kind = "project.update"
        /\ UNCHANGED <<edges, elections>>
    BY <1>3, TaskPayloads DEF ProjectUpdate, graphVars
  <2>2. /\ record.motion = projects[q].motion /\ record.intents = projects[q].intents
        /\ record.status = IF m.payload.status = "unset" THEN EnsureProject(q).status
                                                         ELSE m.payload.status
    BY <2>1, ProjectFacts DEF ProjectRecord
  <2>3. m.payload.status # "absent"
    BY <2>1, PayloadType DEF UpdatePayload, ProjectStatus
  <2>4. EnsureProject(q).status = projects[q].status
        \/ (projects[q].status = "absent" /\ EnsureProject(q).status = "draft")
    BY <2>1, ProjectFacts DEF EnsureProject, ProjectRecord
  <2>5. projects'[q] = record => ProjectAfter(m, q)
    <3> HIDE DEF record
    <3> QED
      BY <2>1, <2>2, <2>3, <2>4 DEF ProjectAfter, SetsStatus
  <2>6. ProjectsAfter(m)
    BY <2>1, <2>5, ProjectIsSet
  <2> QED
    BY <2>1, <2>6, NoVoteCast DEF WorkAfter, EdgesAfter
<1> QED
  BY <1>1, <1>2, <1>3

LEMMA TaskWork ==
    ASSUME TypeOK, NEW m \in Envelopes,
           TaskPropose(m) \/ TaskAssign(m) \/ TaskCommit(m) \/ TaskDeliver(m)
    PROVE  WorkAfter(m)
<1> DEFINE q == m.payload.project_id
           s == m.payload.task_id
<1> m \in MessageEnvelope
  BY EnvelopeAssumption
<1>1. q \in Projects /\ s \in Tasks /\ m.kind # "project.update"
  BY TaskPayloads DEF TaskPropose, TaskAssign, TaskCommit, TaskDeliver, TaskKinds
<1>2. /\ EnsureProject(q) \in ProjectRecord
      /\ EnsureProject(q).motion = projects[q].motion
      /\ EnsureProject(q).intents = projects[q].intents
      /\ EnsureProject(q).status = projects[q].status
         \/ (projects[q].status = "absent" /\ EnsureProject(q).status = "draft")
  BY <1>1, ProjectFacts DEF EnsureProject, ProjectRecord
<1>3. ASSUME NEW record, SetProject(q, record),
             record.motion = EnsureProject(q).motion, record.intents = EnsureProject(q).intents,
             record.status = EnsureProject(q).status
      PROVE  ProjectsAfter(m)
  <2>1. projects'[q] = record => ProjectAfter(m, q)
    BY <1>1, <1>2, <1>3 DEF ProjectAfter, SetsStatus
  <2> QED
    BY <1>1, <1>3, <2>1, ProjectIsSet
<1>4. ASSUME NEW task, SetTask(q, s, task)
      PROVE  ProjectsAfter(m)
  <2>1. LET record == [EnsureProject(q) EXCEPT !.tasks[s] = task]
        IN  /\ record.motion = EnsureProject(q).motion
            /\ record.intents = EnsureProject(q).intents
            /\ record.status = EnsureProject(q).status
    BY <1>2 DEF ProjectRecord
  <2> QED
    BY <1>3, <1>4, <2>1 DEF SetTask
<1>5. {s, q} \subseteq NodeIds /\ {"depends_on", "assigned_to"} \subseteq EdgeTypes
  BY <1>1, NodeNames DEF EdgeTypes
<1>6. CASE TaskPropose(m)
  <2>1. AddEdge(s, "depends_on", q) /\ UNCHANGED elections
    BY <1>6 DEF TaskPropose
  <2> QED
    BY <1>4, <1>5, <1>6, <2>1, NoVoteCast DEF TaskPropose, WorkAfter, EdgesAfter
<1>7. CASE TaskAssign(m)
  <2>1. AddEdge(m.payload.assignee, "assigned_to", s) /\ UNCHANGED elections
    BY <1>7 DEF TaskAssign
  <2>2. m.payload.assignee \in NodeIds
    BY <1>7, NodeNames DEF TaskAssign
  <2> QED
    BY <1>4, <1>5, <1>7, <2>1, <2>2, NoVoteCast DEF TaskAssign, WorkAfter, EdgesAfter
<1>8. CASE TaskCommit(m)
  BY <1>4, <1>8, NoVoteCast DEF TaskCommit, graphVars, WorkAfter, EdgesAfter
<1>9. CASE TaskDeliver(m)
  <2> DEFINE record == [EnsureProject(q) EXCEPT
                          !.tasks[s] = [projects[q].tasks[s] EXCEPT !.delivery = At,
                                                                    !.status = "delivered"],
                          !.updates = Append(@, At)]
  <2>1. SetProject(q, record) /\ UNCHANGED <<edges, elections>>
    BY <1>9 DEF TaskDeliver, graphVars
  <2>2. /\ record.motion = EnsureProject(q).motion
        /\ record.intents = EnsureProject(q).intents
        /\ record.status = EnsureProject(q).status
    BY <1>2 DEF ProjectRecord
  <2>3. ProjectsAfter(m)
    BY <1>3, <2>1, <2>2
  <2> QED
    BY <2>1, <2>3, NoVoteCast DEF WorkAfter, EdgesAfter
<1> QED
  BY <1>6, <1>7, <1>8, <1>9

LEMMA GraphWork ==
    ASSUME TypeOK, NEW m \in Envelopes, GraphDelta(m) \/ GraphDeltaThrows(m)
    PROVE  WorkAfter(m)
<1>1. UNCHANGED <<projects, elections>> /\ m.kind = "graph.delta"
  BY DEF GraphDelta, GraphDeltaThrows
<1>2. m.payload.edge \in Edge \union {NoEdge}
  BY <1>1, NodeNames
<1>3. EdgesAfter(m)
  <2>1. CASE GraphDelta(m) /\ m.payload.op = "add_edge"
    <3>1. AddEdge(m.payload.edge.from, m.payload.edge.type, m.payload.edge.to)
      BY <2>1 DEF GraphDelta, graphVars
    <3>2. /\ m.payload.edge.from \in NodeIds \union {"undefined"}
          /\ m.payload.edge.type \in EdgeTypes \union {"undefined"}
          /\ m.payload.edge.to \in NodeIds \union {"undefined"}
      BY <1>2 DEF Edge, NoEdge
    <3> QED
      BY <3>1, <3>2 DEF EdgesAfter
  <2>2. CASE GraphDelta(m) /\ m.payload.op = "remove_edge"
    BY <1>1, <1>2, <2>2 DEF GraphDelta, EdgesAfter
  <2>3. CASE GraphDelta(m) /\ m.payload.op \notin {"add_edge", "remove_edge"}
    BY <2>3 DEF GraphDelta, graphVars, EdgesAfter
  <2>4. CASE GraphDeltaThrows(m)
    BY <2>4 DEF GraphDeltaThrows, graphVars, EdgesAfter
  <2> QED
    BY <2>1, <2>2, <2>3, <2>4
<1> QED
  BY <1>1, <1>3, ProjectsStay, NoVoteCast DEF WorkAfter

LEMMA ElectionWork ==
    ASSUME TypeOK, NEW m \in Envelopes, ElectionMotion(m) \/ ElectionVote(m)
    PROVE  WorkAfter(m)
<1>1. ProjectsAfter(m)
  BY ProjectsStay DEF ElectionMotion, ElectionVote
<1>2. CASE ElectionMotion(m)
  <2>1. MotionMade(m) /\ UNCHANGED edges
    BY <1>2, BallotPayloads DEF ElectionMotion, MotionMade
  <2> QED
    BY <1>1, <2>1, AfterMotion DEF WorkAfter, EdgesAfter, VotesAfter
<1>3. CASE ElectionVote(m)
  <2>1. m.kind = "election.vote" /\ m.sender \in Users /\ m.payload.choice \in NodeIds
    BY <1>3, NodeNames DEF ElectionVote
  <2>2. CASE UNCHANGED <<elections, edges>>
    BY <1>1, <2>2, NoVoteCast DEF WorkAfter, EdgesAfter
  <2>3. CASE VoteCounted(m) /\ AddEdge(m.sender, "voted_for", m.payload.choice)
    <3>1. VotesAfter(m)
      BY <2>3, AfterVote DEF VotesAfter, At
    <3>2. m.sender \in NodeIds /\ "voted_for" \in EdgeTypes
      BY <2>1, NodeNames DEF EdgeTypes
    <3> QED
      BY <1>1, <2>1, <2>3, <3>1, <3>2 DEF WorkAfter, EdgesAfter
  <2> QED
    BY <1>3, <2>1, <2>2, <2>3, BallotPayloads DEF ElectionVote, VoteCounted
<1> QED
  BY <1>2, <1>3

\* The log, the projects, the votes and the edges change together.
LEMMA WorkStepCases ==
    ASSUME TypeOK, [Next]_vars
    PROVE  \/ UNCHANGED <<eventLog, projects, elections, edges>>
           \/ \E m \in Envelopes : Admitted(m) /\ WorkAfter(m)
<1>1. CASE Tick \/ UNCHANGED vars
  BY <1>1 DEF Tick, vars, graphVars
<1>2. ASSUME NEW m \in Envelopes, Process(m)
      PROVE  UNCHANGED <<eventLog, projects, elections, edges>> \/ (Admitted(m) /\ WorkAfter(m))
  <2> m \in MessageEnvelope
    BY EnvelopeAssumption
  <2>1. CASE RefuseUnchecked(m) \/ RefuseReplay(m) \/ RefuseAfterNonce(m)
    <3>1. UNCHANGED unchangedByRefusal
      BY <2>1 DEF RefuseUnchecked, RefuseReplay, RefuseAfterNonce, unchangedByRefusal, vars, graphVars
    <3> QED
      BY <3>1 DEF unchangedByRefusal, graphVars
  <2>2. ASSUME Accept(m), AppendEvent(m), now' = now, UNCHANGED revokedCapabilities,
               m.kind # "capability.revoke"
        PROVE  Admitted(m)
    BY <2>2, AppendGrows DEF Admitted
  <2>3. ASSUME UNCHANGED <<projects, elections, edges>>, m.kind # "project.update"
        PROVE  UNCHANGED <<eventLog, projects, elections, edges>> \/ (Admitted(m) /\ WorkAfter(m))
    BY <1>2, <2>3, ProcessCases, ProjectsStay, NoVoteCast DEF Idle, WorkAfter, EdgesAfter
  <2>4. CASE GraphDelta(m) \/ GraphDeltaThrows(m)
    BY <2>2, <2>4, GraphWork DEF GraphDelta, GraphDeltaThrows
  <2>5. CASE ProjectMotion(m) \/ ProjectIntent(m) \/ ProjectUpdate(m)
    BY <2>2, <2>5, ProjectWork DEF ProjectMotion, ProjectIntent, ProjectUpdate
  <2>6. CASE TaskPropose(m) \/ TaskAssign(m) \/ TaskCommit(m) \/ TaskDeliver(m)
    BY <2>2, <2>6, TaskWork DEF TaskPropose, TaskAssign, TaskCommit, TaskDeliver
  <2>7. CASE ElectionMotion(m) \/ ElectionVote(m)
    BY <2>2, <2>7, ElectionWork DEF ElectionMotion, ElectionVote
  <2>8. CASE CapabilityGrant(m) \/ CapabilityRevoke(m) \/ TransportMessage(m)
             \/ DisputeReport(m) \/ DisputeResponse(m)
    BY <2>3, <2>8 DEF CapabilityGrant, CapabilityRevoke, TransportMessage, TransportKinds,
                      DisputeReport, DisputeResponse, graphVars
  <2> QED
    BY <1>2, <2>1, <2>4, <2>5, <2>6, <2>7, <2>8 DEF Process
<1> QED
  BY <1>1, <1>2 DEF Next
-----------------------------------------------------------------------------
(* The graph follows the records.                                          *)

\* The graph has the edge, at least as recent as position i, or it was taken away
\* after i.
HasEdge(from, type, to, i) ==
    \/ \E e \in edges : e.from = from /\ e.type = type /\ e.to = to /\ e.attrs >= i
    \/ \E j \in DOMAIN eventLog : j > i /\ Touches(j, from, type, to)

IntentsHaveEdges ==
    \A p \in Projects, u \in Users :
      LET i == projects[p].intents[u]
      IN  i # 0 => i \in DOMAIN eventLog /\ HasEdge(u, "participates_in", p, i)

VotesHaveEdges ==
    \A e \in Elections, u \in Users :
      LET i == elections[e].votes[u]
      IN  i # 0 => HasEdge(u, "voted_for", eventLog[i].payload.choice, i)

\* An edge as recent as i stays that, or is taken away by an entry after i.
LEMMA EdgeStays ==
    ASSUME TypeOK, NEW m \in Envelopes, Admitted(m), EdgesAfter(m),
           NEW from, NEW type, NEW to, NEW i \in 1..Len(eventLog), HasEdge(from, type, to, i)
    PROVE  HasEdge(from, type, to, i)'
<1>0. PICK n \in Nat : n = Len(eventLog)
  BY EntriesStay
<1>1. /\ DOMAIN eventLog = 1..n /\ DOMAIN eventLog' = 1..(n + 1) /\ eventLog'[n + 1] = m
      /\ i \in Nat /\ i <= n
  BY <1>0, EntriesStay
<1>2. CASE \E j \in DOMAIN eventLog : j > i /\ Touches(j, from, type, to)
  <2>1. PICK j \in 1..n : j > i /\ Touches(j, from, type, to)
    BY <1>1, <1>2
  <2>2. eventLog'[j].kind = eventLog[j].kind /\ eventLog'[j].payload = eventLog[j].payload
    BY <1>0, <2>1, EntriesStay, SameEntryFields DEF Touches, Kind
  <2>3. Touches(j, from, type, to)'
    BY <2>1, <2>2 DEF Touches, Kind
  <2> QED
    BY <1>1, <2>1, <2>3 DEF HasEdge
<1>3. CASE \E e \in edges : e.from = from /\ e.type = type /\ e.to = to /\ e.attrs >= i
  <2>1. PICK e \in edges : e.from = from /\ e.type = type /\ e.to = to /\ e.attrs >= i
    BY <1>3
  <2>2. CASE UNCHANGED edges
    BY <2>1, <2>2 DEF HasEdge
  <2>3. ASSUME NEW a, NEW b, NEW c, AddEdge(a, b, c)
        PROVE  HasEdge(from, type, to, i)'
    <3>1. CASE a = from /\ b = type /\ c = to
      <4> DEFINE f == [from |-> a, type |-> b, to |-> c, attrs |-> n + 1]
      <4>1. f \in edges'
        BY <1>0, <2>3 DEF AddEdge, At
      <4>2. f.from = from /\ f.type = type /\ f.to = to /\ f.attrs >= i
        BY <1>1, <3>1
      <4> QED
        BY <4>1, <4>2 DEF HasEdge
    <3>2. CASE ~(a = from /\ b = type /\ c = to)
      <4>1. e \in edges'
        BY <2>1, <2>3, <3>2 DEF AddEdge, WithoutEdge
      <4> QED
        BY <2>1, <4>1 DEF HasEdge
    <3> QED
      BY <3>1, <3>2
  <2>4. CASE /\ m.kind = "graph.delta" /\ m.payload.op = "remove_edge" /\ m.payload.edge \in Edge
             /\ edges' = WithoutEdge(m.payload.edge.from, m.payload.edge.type, m.payload.edge.to)
    <3> DEFINE x == m.payload.edge
    <3>1. CASE x.from = from /\ x.type = type /\ x.to = to
      <4>1. x = [from |-> from, type |-> type, to |-> to]
        BY <2>4, <3>1 DEF Edge
      <4>2. Touches(n + 1, from, type, to)'
        BY <1>1, <2>4, <4>1 DEF Touches, Kind
      <4> QED
        BY <1>1, <4>2 DEF HasEdge
    <3>2. CASE ~(x.from = from /\ x.type = type /\ x.to = to)
      <4>1. e \in edges'
        BY <2>1, <2>4, <3>2 DEF WithoutEdge
      <4> QED
        BY <2>1, <4>1 DEF HasEdge
    <3> QED
      BY <3>1, <3>2
  <2> QED
    BY <2>2, <2>3, <2>4 DEF EdgesAfter
<1> QED
  BY <1>2, <1>3 DEF HasEdge

\* An edge that has just been added is as recent as the log is long.
LEMMA EdgeIsNew ==
    ASSUME NEW n \in Nat, n = At, NEW from, NEW type, NEW to, AddEdge(from, type, to)
    PROVE  HasEdge(from, type, to, n)'
<1> DEFINE f == [from |-> from, type |-> type, to |-> to, attrs |-> n]
<1>1. f \in edges'
  BY DEF AddEdge
<1> QED
  BY <1>1 DEF HasEdge

LEMMA IntentEdgesStep ==
    ASSUME TypeOK, IntentsHaveEdges, [Next]_vars
    PROVE  IntentsHaveEdges'
<1>1. CASE UNCHANGED <<eventLog, projects, elections, edges>>
  BY <1>1 DEF IntentsHaveEdges, HasEdge, Touches, Kind
<1>2. ASSUME NEW m \in Envelopes, Admitted(m), WorkAfter(m),
             NEW p \in Projects, NEW u \in Users, NEW i, i = projects'[p].intents[u], i # 0
      PROVE  i \in DOMAIN eventLog' /\ HasEdge(u, "participates_in", p, i)'
  <2>1. Len(eventLog) \in Nat /\ DOMAIN eventLog = 1..Len(eventLog)
        /\ DOMAIN eventLog' = 1..(Len(eventLog) + 1)
    BY <1>2, EntriesStay
  <2>2. CASE i = projects[p].intents[u]
    <3>1. i \in 1..Len(eventLog) /\ HasEdge(u, "participates_in", p, i)
      BY <1>2, <2>1, <2>2 DEF IntentsHaveEdges
    <3> QED
      BY <1>2, <2>1, <3>1, EdgeStays DEF WorkAfter
  <2>3. CASE i = At /\ AddEdge(u, "participates_in", p)
    BY <2>1, <2>3, EdgeIsNew DEF At
  <2> QED
    BY <1>2, <2>2, <2>3 DEF WorkAfter, ProjectsAfter, ProjectAfter
<1> QED
  BY <1>1, <1>2, WorkStepCases DEF IntentsHaveEdges

LEMMA VoteEdgesStep ==
    ASSUME TypeOK, VotesInLog, VotesHaveEdges, [Next]_vars
    PROVE  VotesHaveEdges'
<1>1. CASE UNCHANGED <<eventLog, projects, elections, edges>>
  BY <1>1 DEF VotesHaveEdges, HasEdge, Touches, Kind
<1>2. ASSUME NEW m \in Envelopes, Admitted(m), WorkAfter(m),
             NEW e \in Elections, NEW u \in Users, NEW i, i = elections'[e].votes[u], i # 0,
             NEW choice, choice = eventLog'[i].payload.choice
      PROVE  HasEdge(u, "voted_for", choice, i)'
  <2>1. Len(eventLog) \in Nat /\ eventLog'[Len(eventLog) + 1] = m
        /\ DOMAIN eventLog = 1..Len(eventLog)
    BY <1>2, EntriesStay
  <2>2. CASE i = elections[e].votes[u]
    <3>1. i \in 1..Len(eventLog) /\ eventLog[i].kind = "election.vote"
          /\ HasEdge(u, "voted_for", eventLog[i].payload.choice, i)
      BY <1>2, <2>1, <2>2 DEF VotesHaveEdges, VotesInLog, VoteInLog
    <3>2. eventLog'[i].payload = eventLog[i].payload
      BY <1>2, <3>1, EntriesStay, SameEntryFields
    <3> QED
      BY <1>2, <3>1, <3>2, EdgeStays DEF WorkAfter
  <2>3. CASE i = At /\ AddEdge(u, "voted_for", m.payload.choice)
    BY <1>2, <2>1, <2>3, EdgeIsNew DEF At
  <2> QED
    BY <1>2, <2>2, <2>3 DEF WorkAfter, VotesAfter
<1> QED
  BY <1>1, <1>2, WorkStepCases DEF VotesHaveEdges

\* What a record says of a user, the graph says too: no other event takes away or
\* ages the edge of an intent or of a counted vote, unless it removes or adds that
\* very edge (project.intent, election.vote and graph.delta, engine.ts).
THEOREM GraphIsThatOfTheRecords == Spec => []GraphFollowsRecords
<1>1. Init => IntentsHaveEdges /\ VotesHaveEdges
  BY DEF Init, IntentsHaveEdges, VotesHaveEdges, NoProject, NoElection
<1>2. TypeOK /\ ElectionInv /\ IntentsHaveEdges /\ VotesHaveEdges /\ [Next]_vars
        => IntentsHaveEdges' /\ VotesHaveEdges'
  BY IntentEdgesStep, VoteEdgesStep DEF ElectionInv
<1>3. IntentsHaveEdges /\ VotesHaveEdges => GraphFollowsRecords
  BY DEF IntentsHaveEdges, VotesHaveEdges, GraphFollowsRecords, HasEdge
<1> QED
  BY <1>1, <1>2, <1>3, TypeCorrect, ElectionsHold, PTL DEF Spec

-----------------------------------------------------------------------------
(* Drafts.                                                                 *)

\* The entries that set the status of a project.
Settings(p) == {i \in DOMAIN eventLog : SetsStatus(eventLog[i], p)}

DraftMatches(p) ==
    LET project == projects[p]
        last == Latest(Settings(p))
    IN  /\ last \in Nat
        /\ project.motion <= Len(eventLog)
        /\ \A u \in Users : project.intents[u] <= Len(eventLog)
        /\ project.status = "absent" =>
             project.motion = 0 /\ \A u \in Users : project.intents[u] = 0
        /\ project.status = "draft" =>
             project.motion <= last /\ \A u \in Users : project.intents[u] <= last

DraftsMatch == \A p \in Projects : DraftMatches(p)

LEMMA DraftsMatchTheLog == DraftsMatch => DraftIsUntouched
<1>1. ASSUME NEW p
      PROVE  Settings(p) = {i \in DOMAIN eventLog : /\ Kind(i) = "project.update"
                                                    /\ eventLog[i].payload.project_id = p
                                                    /\ eventLog[i].payload.status # "unset"}
  BY DEF Settings, SetsStatus, Kind
<1> SUFFICES ASSUME DraftsMatch PROVE DraftIsUntouched
  OBVIOUS
<1> SUFFICES ASSUME NEW p \in Projects, DraftMatches(p)
             PROVE  DraftIsUntouched!(p)
  BY DEF DraftIsUntouched, DraftsMatch
<1> QED
  BY <1>1, Zenon DEF DraftMatches, Positions

LEMMA DraftStep ==
    ASSUME TypeOK, NEW m \in Envelopes, Admitted(m), NEW p \in Projects, ProjectAfter(m, p),
           DraftMatches(p)
    PROVE  DraftMatches(p)'
<1>0. PICK n \in Nat : n = Len(eventLog)
  BY EntriesStay
<1> DEFINE old == projects[p]
           new == projects'[p]
           last == Latest(Settings(p))
           later == Latest(Settings(p)')
<1>1. /\ DOMAIN eventLog = 1..n /\ DOMAIN eventLog' = 1..(n + 1) /\ eventLog'[n + 1] = m
      /\ Len(eventLog') = n + 1
  BY <1>0, EntriesStay DEF Admitted, Grows
<1>2. \A i \in 1..n : SetsStatus(eventLog'[i], p) <=> SetsStatus(eventLog[i], p)
  <2>1. \A i \in 1..n : /\ eventLog'[i].kind = eventLog[i].kind
                        /\ eventLog[i].kind = "project.update" =>
                             eventLog'[i].payload = eventLog[i].payload
    BY <1>0, EntriesStay, SameEntryFields
  <2> QED
    BY <2>1 DEF SetsStatus
<1>3. Settings(p)' = Settings(p) \union {i \in {n + 1} : SetsStatus(m, p)}
      /\ Settings(p) \subseteq 1..n
  <2>1. /\ \A i : i \in 1..(n + 1) <=> i \in 1..n \/ i = n + 1
        /\ n + 1 \notin 1..n
    OBVIOUS
  <2> QED
    BY <1>1, <1>2, <2>1 DEF Settings
<1>4. later = IF SetsStatus(m, p) THEN n + 1 ELSE last
  <2>1. CASE SetsStatus(m, p)
    <3>1. Settings(p)' = Settings(p) \union {n + 1}
      BY <1>3, <2>1
    <3> QED
      BY <1>3, <2>1, <3>1, LastIsNew
  <2>2. CASE ~SetsStatus(m, p)
    <3>1. Settings(p)' = Settings(p)
      BY <1>3, <2>2
    <3> QED
      BY <2>2, <3>1
  <2> QED
    BY <2>1, <2>2
<1>5. /\ old.motion \in Nat /\ \A u \in Users : old.intents[u] \in Nat
  BY ProjectFacts DEF ProjectRecord
<1>6. /\ last \in Nat /\ old.motion <= n /\ \A u \in Users : old.intents[u] <= n
      /\ old.status = "absent" => old.motion = 0 /\ \A u \in Users : old.intents[u] = 0
      /\ old.status = "draft" => old.motion <= last /\ \A u \in Users : old.intents[u] <= last
  BY <1>0 DEF DraftMatches
<1>7. new.motion \in {old.motion, n + 1}
      /\ \A u \in Users : new.intents[u] \in {old.intents[u], n + 1}
  BY <1>0 DEF ProjectAfter, At
<1>8. /\ new.status = "absent" => new.motion = 0 /\ \A u \in Users : new.intents[u] = 0
      /\ new.status = "draft" => new.motion <= later /\ \A u \in Users : new.intents[u] <= later
  <2>1. CASE new.motion = old.motion /\ new.intents = old.intents /\ SetsStatus(m, p)
               /\ new.status # "absent"
    BY <1>4, <1>5, <1>6, <2>1
  <2>2. CASE /\ new.motion = old.motion /\ new.intents = old.intents /\ ~SetsStatus(m, p)
             /\ new.status = old.status \/ (old.status = "absent" /\ new.status = "draft")
    BY <1>4, <1>5, <1>6, <2>2
  <2>3. CASE new.status \notin {"absent", "draft"}
    BY <2>3
  <2> QED
    BY <2>1, <2>2, <2>3 DEF ProjectAfter
<1>9. later \in Nat /\ new.motion <= n + 1 /\ \A u \in Users : new.intents[u] <= n + 1
  BY <1>4, <1>5, <1>6, <1>7
<1> QED
  BY <1>1, <1>8, <1>9 DEF DraftMatches

LEMMA DraftsStep ==
    ASSUME TypeOK, DraftsMatch, [Next]_vars
    PROVE  DraftsMatch'
<1>1. CASE UNCHANGED <<eventLog, projects, elections, edges>>
  <2>1. ASSUME NEW p PROVE Settings(p)' = Settings(p)
    BY <1>1 DEF Settings
  <2> QED
    BY <1>1, <2>1 DEF DraftsMatch, DraftMatches
<1>2. ASSUME NEW m \in Envelopes, Admitted(m), WorkAfter(m)
      PROVE  DraftsMatch'
  BY <1>2, DraftStep DEF DraftsMatch, WorkAfter, ProjectsAfter
<1> QED
  BY <1>1, <1>2, WorkStepCases

\* A project that is a draft has not been moved or joined since an update last set
\* its status: no motion and no intent is ever left behind in a draft
\* (ensureProject and the project handlers, engine.ts).
THEOREM DraftsAreUntouched == Spec => []DraftIsUntouched
<1>1. Init => DraftsMatch
  <2> SUFFICES ASSUME Init PROVE DraftsMatch
    OBVIOUS
  <2>1. DOMAIN eventLog = {} /\ Len(eventLog) = 0
    BY EmptySeq DEF Init
  <2> QED
    BY <2>1 DEF Init, DraftsMatch, DraftMatches, Settings, NoProject, Latest
<1>2. TypeOK /\ DraftsMatch /\ [Next]_vars => DraftsMatch'
  BY DraftsStep
<1> QED
  BY <1>1, <1>2, TypeCorrect, DraftsMatchTheLog, PTL DEF Spec
-----------------------------------------------------------------------------
(* Disputes.                                                               *)

IsReportOf(m, key) == m.kind = "dispute.report" /\ ReportKey(m) = key
IsResponseTo(m, key) == m.kind = "dispute.response" /\ ResponseKey(m) = key

\* The reports with a key, and the responses with it after a position.
Reports(key) == {i \in DOMAIN eventLog : IsReportOf(eventLog[i], key)}
Answers(key, report) == {i \in DOMAIN eventLog : IsResponseTo(eventLog[i], key) /\ i > report}

\* The responses are the answers in their order.
InOrder(responses, answers) ==
    /\ IsFiniteSet(answers) /\ Len(responses) = Cardinality(answers)
    /\ \A k \in DOMAIN responses : /\ responses[k] \in answers
                                   /\ k > 1 => responses[k - 1] < responses[k]

DisputeMatches(d) ==
    LET answers == Answers(d.key, d.report)
    IN  /\ d.report \in DOMAIN eventLog /\ d.report = Latest(Reports(d.key))
        /\ InOrder(d.responses, answers)
        /\ d.status = IF answers = {} THEN "open" ELSE "under_review"

DisputesMatch == \A d \in disputes : DisputeMatches(d)

LEMMA DisputesMatchTheLog == DisputesMatch => DisputesFollowLog
<1>1. ASSUME NEW key
      PROVE  Reports(key) = {i \in DOMAIN eventLog : /\ Kind(i) = "dispute.report"
                                                     /\ ReportKey(eventLog[i]) = key}
  BY DEF Reports, IsReportOf, Kind
<1>2. ASSUME NEW key, NEW report
      PROVE  Answers(key, report) =
               {i \in DOMAIN eventLog : /\ Kind(i) = "dispute.response"
                                        /\ ResponseKey(eventLog[i]) = key
                                        /\ i > report}
  BY DEF Answers, IsResponseTo, Kind
<1> SUFFICES ASSUME DisputesMatch PROVE DisputesFollowLog
  OBVIOUS
<1> SUFFICES ASSUME NEW d \in disputes, DisputeMatches(d)
             PROVE  DisputesFollowLog!(d)
  BY DEF DisputesFollowLog, DisputesMatch
<1> QED
  BY <1>1, <1>2, Zenon DEF DisputeMatches, InOrder, Positions

\* What m makes of the disputes.
ReportMade(m) ==
    /\ m.kind = "dispute.report"
    /\ disputes' = {d \in disputes : d.key # ReportKey(m)} \union
                   {[key |-> ReportKey(m), report |-> At, responses |-> <<>>,
                     status |-> "open"]}
ResponseMade(m) ==
    /\ m.kind = "dispute.response"
    /\ disputes' = {IF d.key = ResponseKey(m)
                    THEN [d EXCEPT !.responses = Append(@, At), !.status = "under_review"]
                    ELSE d : d \in disputes}
NoDispute(m) ==
    m.kind \notin {"dispute.report", "dispute.response"} /\ UNCHANGED disputes

\* The log and the disputes change together, or neither does.
LEMMA DisputeStepCases ==
    ASSUME TypeOK, [Next]_vars
    PROVE  \/ UNCHANGED <<eventLog, disputes>>
           \/ \E m \in Envelopes :
                Admitted(m) /\ (ReportMade(m) \/ ResponseMade(m) \/ NoDispute(m))
<1>1. CASE Tick \/ UNCHANGED vars
  BY <1>1 DEF Tick, vars
<1>2. ASSUME NEW m \in Envelopes, Process(m)
      PROVE  \/ UNCHANGED <<eventLog, disputes>>
             \/ Admitted(m) /\ (ReportMade(m) \/ ResponseMade(m) \/ NoDispute(m))
  <2> m \in MessageEnvelope
    BY EnvelopeAssumption
  <2>1. CASE RefuseUnchecked(m) \/ RefuseReplay(m) \/ RefuseAfterNonce(m)
    <3>1. UNCHANGED unchangedByRefusal
      BY <2>1 DEF RefuseUnchecked, RefuseReplay, RefuseAfterNonce, unchangedByRefusal, vars, graphVars
    <3> QED
      BY <3>1 DEF unchangedByRefusal
  <2>2. ASSUME UNCHANGED disputes, m.kind \notin {"dispute.report", "dispute.response"}
        PROVE  \/ UNCHANGED <<eventLog, disputes>>
               \/ Admitted(m) /\ (ReportMade(m) \/ ResponseMade(m) \/ NoDispute(m))
    BY <1>2, <2>2, ProcessCases DEF Idle, NoDispute
  <2>3. CASE GraphDelta(m) \/ GraphDeltaThrows(m) \/ ProjectMotion(m)
             \/ ProjectIntent(m) \/ ProjectUpdate(m)
    BY <2>2, <2>3 DEF GraphDelta, GraphDeltaThrows, ProjectMotion, ProjectIntent, ProjectUpdate
  <2>4. CASE TaskPropose(m) \/ TaskAssign(m) \/ TaskCommit(m) \/ TaskDeliver(m)
    BY <2>2, <2>4 DEF TaskPropose, TaskAssign, TaskCommit, TaskDeliver
  <2>5. CASE ElectionMotion(m) \/ ElectionVote(m)
    BY <2>2, <2>5 DEF ElectionMotion, ElectionVote
  <2>6. CASE CapabilityGrant(m) \/ CapabilityRevoke(m) \/ TransportMessage(m)
    BY <2>2, <2>6 DEF CapabilityGrant, CapabilityRevoke, TransportMessage, TransportKinds
  <2>7. CASE DisputeReport(m)
    <3>1. Admitted(m)
      BY <2>7, AppendGrows DEF DisputeReport, Admitted
    <3>2. ReportMade(m)
      BY <2>7 DEF DisputeReport, ReportMade
    <3> QED
      BY <3>1, <3>2
  <2>8. CASE DisputeResponse(m)
    <3>1. Admitted(m)
      BY <2>8, AppendGrows DEF DisputeResponse, Admitted
    <3>2. ResponseMade(m)
      BY <2>8 DEF DisputeResponse, ResponseMade
    <3> QED
      BY <3>1, <3>2
  <2> QED
    BY <1>2, <2>1, <2>3, <2>4, <2>5, <2>6, <2>7, <2>8 DEF Process
<1> QED
  BY <1>1, <1>2 DEF Next

\* The positions of a dispute, after an entry has been added.
LEMMA DisputePositions ==
    ASSUME TypeOK, NEW m \in Envelopes, Admitted(m), NEW key, NEW report,
           NEW n \in Nat, n = Len(eventLog)
    PROVE  /\ Reports(key)' = Reports(key) \union {i \in {n + 1} : IsReportOf(m, key)}
           /\ Answers(key, report)' = Answers(key, report) \union
                {i \in {n + 1} : IsResponseTo(m, key) /\ n + 1 > report}
           /\ Reports(key) \subseteq 1..n /\ Answers(key, report) \subseteq 1..n
           /\ DOMAIN eventLog = 1..n /\ DOMAIN eventLog' = 1..(n + 1)
<1>1. /\ DOMAIN eventLog = 1..n /\ DOMAIN eventLog' = 1..(n + 1)
      /\ eventLog'[n + 1] = m
  BY EntriesStay
<1>2. \A i \in 1..n :
        /\ eventLog'[i].kind = eventLog[i].kind /\ eventLog'[i].id = eventLog[i].id
        /\ eventLog[i].kind \in {"dispute.report", "dispute.response"} =>
             eventLog'[i].payload = eventLog[i].payload
  BY EntriesStay DEF SameEntry, Header
<1>3. \A i \in 1..n : /\ IsReportOf(eventLog'[i], key) <=> IsReportOf(eventLog[i], key)
                      /\ IsResponseTo(eventLog'[i], key) <=> IsResponseTo(eventLog[i], key)
  BY <1>2 DEF IsReportOf, IsResponseTo, ReportKey, ResponseKey
<1>4. /\ \A i : i \in 1..(n + 1) <=> i \in 1..n \/ i = n + 1
      /\ n + 1 \notin 1..n
  OBVIOUS
<1>5. Reports(key)' = Reports(key) \union {i \in {n + 1} : IsReportOf(m, key)}
  BY <1>1, <1>3, <1>4 DEF Reports
<1>6. Answers(key, report)' = Answers(key, report) \union
        {i \in {n + 1} : IsResponseTo(m, key) /\ n + 1 > report}
  BY <1>1, <1>3, <1>4 DEF Answers
<1> QED
  BY <1>1, <1>5, <1>6 DEF Reports, Answers

\* One more answer, after all others.
LEMMA OneMoreAnswer ==
    ASSUME NEW n \in Nat, NEW answers \in SUBSET (1..n), NEW responses \in Seq(Nat),
           InOrder(responses, answers)
    PROVE  InOrder(Append(responses, n + 1), answers \union {n + 1})
<1> DEFINE more == Append(responses, n + 1)
           all == answers \union {n + 1}
<1>1. n + 1 \notin answers /\ IsFiniteSet(answers)
  BY DEF InOrder
<1>2. IsFiniteSet(all) /\ Cardinality(all) = Cardinality(answers) + 1
  BY <1>1, FS_AddElement
<1>3. /\ Len(responses) \in Nat /\ DOMAIN responses = 1..Len(responses)
      /\ Len(more) = Len(responses) + 1 /\ DOMAIN more = 1..(Len(responses) + 1)
      /\ more[Len(responses) + 1] = n + 1
      /\ \A k \in 1..Len(responses) : more[k] = responses[k]
  BY AppendProperties, LenProperties
<1>4. \A k \in 1..Len(responses) : /\ responses[k] \in answers
                                   /\ k > 1 => responses[k - 1] < responses[k]
  BY <1>3 DEF InOrder
<1>5. ASSUME NEW k \in 1..(Len(responses) + 1)
      PROVE  more[k] \in all /\ (k > 1 => more[k - 1] < more[k])
  <2>1. CASE k \in 1..Len(responses)
    <3>1. more[k] = responses[k] /\ (k > 1 => more[k - 1] = responses[k - 1])
      BY <1>3, <2>1
    <3> QED
      BY <1>4, <2>1, <3>1
  <2>2. CASE k = Len(responses) + 1
    <3>1. more[k] = n + 1
      BY <1>3, <2>2
    <3>2. ASSUME k > 1 PROVE more[k - 1] \in answers
      <4>1. k - 1 = Len(responses) /\ k - 1 \in 1..Len(responses)
        BY <1>3, <2>2, <3>2
      <4>2. more[k - 1] = responses[k - 1] /\ responses[k - 1] \in answers
        BY <1>3, <1>4, <4>1
      <4> QED
        BY <4>2
    <3> QED
      BY <3>1, <3>2
  <2> QED
    BY <1>3, <2>1, <2>2
<1>6. Len(more) = Cardinality(all)
  BY <1>2, <1>3 DEF InOrder
<1> QED
  BY <1>2, <1>3, <1>5, <1>6 DEF InOrder

LEMMA DisputesMatchStep ==
    ASSUME TypeOK, DisputesMatch, [Next]_vars
    PROVE  DisputesMatch'
<1>1. CASE UNCHANGED <<eventLog, disputes>>
  <2>1. ASSUME NEW key, NEW report
        PROVE  Reports(key)' = Reports(key) /\ Answers(key, report)' = Answers(key, report)
    BY <1>1 DEF Reports, Answers
  <2> QED
    BY <1>1, <2>1 DEF DisputesMatch, DisputeMatches
<1>2. ASSUME NEW m \in Envelopes, Admitted(m), NEW n \in Nat, n = Len(eventLog),
             NEW d \in disputes, ~IsReportOf(m, d.key), ~IsResponseTo(m, d.key)
      PROVE  DisputeMatches(d)'
  <2>1. DisputeMatches(d)
    BY DEF DisputesMatch
  <2>2. /\ Reports(d.key)' = Reports(d.key) \union {i \in {n + 1} : IsReportOf(m, d.key)}
        /\ Answers(d.key, d.report)' = Answers(d.key, d.report) \union
             {i \in {n + 1} : IsResponseTo(m, d.key) /\ n + 1 > d.report}
        /\ d.report \in DOMAIN eventLog => d.report \in DOMAIN eventLog'
    BY <1>2, DisputePositions
  <2>3. /\ Reports(d.key)' = Reports(d.key)
        /\ Answers(d.key, d.report)' = Answers(d.key, d.report)
    BY <1>2, <2>2
  <2> QED
    BY <2>1, <2>2, <2>3 DEF DisputeMatches
<1>3. ASSUME NEW m \in Envelopes, Admitted(m), NEW n \in Nat, n = Len(eventLog),
             NEW d \in disputes, IsResponseTo(m, d.key)
      PROVE  DisputeMatches([d EXCEPT !.responses = Append(@, n + 1),
                                      !.status = "under_review"])'
  <2> DEFINE answers == Answers(d.key, d.report)
  <2>1. DisputeMatches(d) /\ d \in DisputeRecord
    BY DEF DisputesMatch, TypeOK, RecordsType
  <2>2. d.report \in 1..n /\ ~IsReportOf(m, d.key)
    BY <1>3, <2>1, EntriesStay DEF DisputeMatches, IsReportOf, IsResponseTo
  <2>3. /\ Reports(d.key)' = Reports(d.key)
        /\ Answers(d.key, d.report)' = answers \union {n + 1}
        /\ answers \subseteq 1..n /\ d.report \in DOMAIN eventLog'
    <3>1. /\ Reports(d.key)' = Reports(d.key) \union {i \in {n + 1} : IsReportOf(m, d.key)}
          /\ Answers(d.key, d.report)' = answers \union
               {i \in {n + 1} : IsResponseTo(m, d.key) /\ n + 1 > d.report}
          /\ answers \subseteq 1..n /\ DOMAIN eventLog' = 1..(n + 1)
      BY <1>3, DisputePositions
    <3> QED
      BY <1>3, <2>2, <3>1
  <2>4. d.responses \in Seq(Nat) /\ InOrder(d.responses, answers)
    BY <2>1 DEF DisputeRecord, DisputeMatches
  <2>5. InOrder(Append(d.responses, n + 1), answers \union {n + 1})
    BY <2>3, <2>4, OneMoreAnswer
  <2> DEFINE new == [d EXCEPT !.responses = Append(@, n + 1), !.status = "under_review"]
  <2>6. /\ new.key = d.key /\ new.report = d.report /\ new.status = "under_review"
        /\ new.responses = Append(d.responses, n + 1)
    BY <2>1 DEF DisputeRecord
  <2> HIDE DEF new
  <2>7. DisputeMatches(new)'
    BY <2>1, <2>3, <2>5, <2>6 DEF DisputeMatches
  <2> QED
    BY <2>7 DEF new
<1>4. ASSUME NEW m \in Envelopes, Admitted(m), NEW n \in Nat, n = Len(eventLog),
             m.kind = "dispute.report"
      PROVE  DisputeMatches([key |-> ReportKey(m), report |-> n + 1, responses |-> <<>>,
                             status |-> "open"])'
  <2> DEFINE key == ReportKey(m)
  <2>1. Reports(key)' = Reports(key) \union {n + 1} /\ Reports(key) \subseteq 1..n
        /\ n + 1 \in DOMAIN eventLog'
    BY <1>4, DisputePositions DEF IsReportOf
  <2>2. Latest(Reports(key)') = n + 1
    BY <2>1, LastIsNew
  <2>3. Answers(key, n + 1)' = {}
    <3>1. /\ Answers(key, n + 1)' = Answers(key, n + 1) \union
               {i \in {n + 1} : IsResponseTo(m, key) /\ n + 1 > n + 1}
          /\ Answers(key, n + 1) \subseteq 1..n
      BY <1>4, DisputePositions
    <3>2. \A i \in Answers(key, n + 1) : i > n + 1
      BY DEF Answers
    <3> QED
      BY <3>1, <3>2
  <2>4. InOrder(<<>>, {})
    BY FS_EmptySet, EmptySeq DEF InOrder
  <2> QED
    BY <2>1, <2>2, <2>3, <2>4 DEF DisputeMatches
<1>5. ASSUME NEW m \in Envelopes, Admitted(m), ReportMade(m) \/ ResponseMade(m) \/ NoDispute(m),
             NEW e \in disputes'
      PROVE  DisputeMatches(e)'
  <2>0. PICK n \in Nat : n = Len(eventLog)
    BY <1>5, EntriesStay
  <2>1. CASE NoDispute(m)
    BY <1>2, <1>5, <2>0, <2>1 DEF NoDispute, IsReportOf, IsResponseTo
  <2>2. CASE ReportMade(m)
    <3>1. CASE e \in disputes /\ e.key # ReportKey(m)
      BY <1>2, <1>5, <2>0, <2>2, <3>1 DEF ReportMade, IsReportOf, IsResponseTo
    <3>2. CASE e = [key |-> ReportKey(m), report |-> n + 1, responses |-> <<>>, status |-> "open"]
      BY <1>4, <1>5, <2>0, <2>2, <3>2 DEF ReportMade
    <3> QED
      BY <1>5, <2>0, <2>2, <3>1, <3>2 DEF ReportMade, At
  <2>3. CASE ResponseMade(m)
    <3>1. PICK d \in disputes :
            e = IF d.key = ResponseKey(m)
                THEN [d EXCEPT !.responses = Append(@, n + 1), !.status = "under_review"]
                ELSE d
      BY <1>5, <2>0, <2>3 DEF ResponseMade, At
    <3>2. CASE d.key = ResponseKey(m)
      BY <1>3, <1>5, <2>0, <2>3, <3>1, <3>2 DEF ResponseMade, IsResponseTo
    <3>3. CASE d.key # ResponseKey(m)
      BY <1>2, <1>5, <2>0, <2>3, <3>1, <3>3 DEF ResponseMade, IsReportOf, IsResponseTo
    <3> QED
      BY <3>2, <3>3
  <2> QED
    BY <1>5, <2>1, <2>2, <2>3
<1> QED
  BY <1>1, <1>5, DisputeStepCases DEF DisputesMatch

\* A dispute is its last report and the responses with its key that came after it,
\* in the order of the log, however often it was reported or answered in between
\* (dispute.report and dispute.response, engine.ts).
THEOREM DisputesAreThoseOfTheLog == Spec => []DisputesFollowLog
<1>1. Init => DisputesMatch
  BY DEF Init, DisputesMatch
<1>2. TypeOK /\ DisputesMatch /\ [Next]_vars => DisputesMatch'
  BY DisputesMatchStep
<1> QED
  BY <1>1, <1>2, TypeCorrect, DisputesMatchTheLog, PTL DEF Spec
===============================================================================
