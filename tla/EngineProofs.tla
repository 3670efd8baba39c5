----------------------------- MODULE EngineProofs -----------------------------
(***************************************************************************)
(* Theorems about the engine, for every set of envelopes, every clock skew *)
(* and every nonce TTL that the assumptions of AppState allow: what its    *)
(* state is made of, and what the log can never hold.                      *)
(***************************************************************************)
EXTENDS EngineProperties, SequenceProofs

-----------------------------------------------------------------------------
(* Envelopes.                                                              *)

\* Whatever its kind, an envelope has a typed header.
LEMMA HeaderType ==
    ASSUME NEW m \in MessageEnvelope
    PROVE  /\ m.id \in MsgIds /\ m.sender \in Users /\ m.created \in Nat
           /\ m.nonce \in Nonces /\ m.prev \in Hashes /\ m.chain \in Hashes
           /\ m.token \in Token /\ m.token.id \in CapabilityIds
BY DEF MessageEnvelope, EnvelopeOf, Token

\* The kind of an envelope determines what its payload is made of.
LEMMA PayloadType ==
    ASSUME NEW m \in MessageEnvelope
    PROVE  /\ m.kind = "graph.delta" => m.payload \in GraphPayload
           /\ m.kind = "project.motion" => m.payload \in MotionPayload
           /\ m.kind = "project.intent" => m.payload \in ProjectPayload
           /\ m.kind = "project.update" => m.payload \in UpdatePayload
           /\ m.kind \in {"task.propose", "task.deliver"} => m.payload \in TaskPayload
           /\ m.kind = "task.assign" => m.payload \in AssignPayload
           /\ m.kind = "task.commit" => m.payload \in CommitPayload
           /\ m.kind = "election.motion" => m.payload \in BallotPayload
           /\ m.kind = "election.vote" => m.payload \in VotePayload
           /\ m.kind = "capability.grant" => m.payload \in GrantPayload
           /\ m.kind = "capability.revoke" => m.payload \in RevokePayload
           /\ m.kind = "dispute.report" => m.payload \in ReportPayload
           /\ m.kind = "dispute.response" => m.payload \in ResponsePayload
BY DEF MessageEnvelope, EnvelopeOf, TransportKinds

\* Rewriting the expiry of a grant leaves a grant.
LEMMA ExpiredGrant ==
    ASSUME NEW g \in MessageEnvelope, g.kind = "capability.grant", NEW x \in Nat
    PROVE  /\ [g EXCEPT !.payload.expires_at = x] \in MessageEnvelope
           /\ [g EXCEPT !.payload.expires_at = x].kind = "capability.grant"
<1>1. g \in EnvelopeOf({"capability.grant"}, GrantPayload)
  BY DEF MessageEnvelope, EnvelopeOf, TransportKinds
<1>2. [g EXCEPT !.payload.expires_at = x] \in EnvelopeOf({"capability.grant"}, GrantPayload)
  BY <1>1 DEF EnvelopeOf, GrantPayload
<1> QED
  BY <1>2 DEF MessageEnvelope, EnvelopeOf
-----------------------------------------------------------------------------
(* The log.                                                                *)

\* Two entries of the log that differ at most in the payload of a grant.
SameEntry(e, f) ==
    /\ Header(e) = Header(f)
    /\ e.token = f.token
    /\ e.kind # "capability.grant" => e.payload = f.payload

\* The log grows by the envelope m, and keeps what it had.
Grows(m) ==
    /\ eventLog' \in Seq(MessageEnvelope)
    /\ Len(eventLog') = Len(eventLog) + 1
    /\ eventLog'[Len(eventLog) + 1] = m
    /\ \A i \in 1..Len(eventLog) : SameEntry(eventLog'[i], eventLog[i])

\* appendEvent.
LEMMA AppendGrows ==
    ASSUME TypeOK, NEW m \in MessageEnvelope, AppendEvent(m)
    PROVE  Grows(m)
<1>1. eventLog \in Seq(MessageEnvelope)
  BY DEF TypeOK, AdmissionType
<1> QED
  BY <1>1, AppendProperties DEF AppendEvent, Grows, SameEntry

\* capability.revoke appends, and may rewrite the payload of one grant.
LEMMA RevokeGrows ==
    ASSUME TypeOK, NEW m \in MessageEnvelope, m.kind = "capability.revoke",
           eventLog' = Expire(Append(eventLog, m), m.payload.capability_id)
    PROVE  Grows(m)
<1> DEFINE c == m.payload.capability_id
           longer == Append(eventLog, m)
           i == capabilities[c]
<1>1. c \in CapabilityIds
  BY PayloadType DEF RevokePayload
<1>2. eventLog \in Seq(MessageEnvelope) /\ now - 1 \in Nat
  BY DEF TypeOK, AdmissionType
<1>3. /\ longer \in Seq(MessageEnvelope) /\ Len(longer) = Len(eventLog) + 1
      /\ longer[Len(eventLog) + 1] = m
      /\ \A j \in 1..Len(eventLog) : longer[j] = eventLog[j]
  BY <1>2, AppendProperties
<1>4. CASE ~(i # 0 /\ longer[i].payload.constrained)
  BY <1>3, <1>4 DEF Expire, Grows, SameEntry
<1>5. CASE i # 0 /\ longer[i].payload.constrained
  <2> DEFINE g == longer[i]
             h == [g EXCEPT !.payload.expires_at = now - 1]
  <2>1. i \in 1..Len(eventLog) /\ g.kind = "capability.grant" /\ g = eventLog[i]
    BY <1>1, <1>2, <1>3, <1>5, LenProperties DEF TypeOK, GrantsStored
  <2>2. g \in MessageEnvelope
    BY <1>2, <2>1, ElementOfSeq
  <2>3. h \in MessageEnvelope /\ SameEntry(h, g)
    <3>1. h \in MessageEnvelope /\ h.kind = "capability.grant"
      BY <1>2, <2>1, <2>2, ExpiredGrant
    <3>2. Header(h) = Header(g) /\ h.token = g.token
      BY <2>1, <2>2 DEF Header, MessageEnvelope, EnvelopeOf
    <3> QED
      BY <3>1, <3>2 DEF SameEntry
  <2>4. eventLog' = [longer EXCEPT ![i] = h]
    BY <1>5 DEF Expire
  <2>5. i \in 1..Len(longer)
    BY <1>2, <1>3, <2>1, LenProperties
  <2>6. /\ eventLog' \in Seq(MessageEnvelope) /\ Len(eventLog') = Len(longer)
        /\ \A j \in 1..Len(longer) : eventLog'[j] = IF j = i THEN h ELSE longer[j]
    <3> HIDE DEF h, longer, i
    <3> QED
      BY <1>3, <2>3, <2>4, <2>5, ExceptSeq
  <2>7. \A j \in 1..Len(eventLog) : SameEntry(eventLog'[j], eventLog[j])
    <3> TAKE j \in 1..Len(eventLog)
    <3>1. j \in 1..Len(longer) /\ longer[j] = eventLog[j]
      BY <1>2, <1>3, LenProperties
    <3>2. CASE j = i
      BY <2>1, <2>3, <2>6, <3>1, <3>2
    <3>3. CASE j # i
      BY <2>6, <3>1, <3>3 DEF SameEntry
    <3> QED
      BY <3>2, <3>3
  <2>8. eventLog'[Len(eventLog) + 1] = m
    BY <1>2, <1>3, <2>1, <2>6, LenProperties
  <2> QED
    BY <1>3, <2>6, <2>7, <2>8 DEF Grows
<1> QED
  BY <1>4, <1>5

-----------------------------------------------------------------------------
(* Type correctness.                                                       *)

\* What the checks leave behind is typed.
LEMMA RecordNonceType ==
    ASSUME TypeOK, NEW m \in MessageEnvelope, RecordNonce(m)
    PROVE  nonceCache' \in [Users -> SUBSET [nonce : Nonces, at : Nat]]
<1>1. LiveNonces(m.sender) \subseteq [nonce : Nonces, at : Nat]
  BY HeaderType DEF TypeOK, AdmissionType, LiveNonces
<1>2. [nonce |-> m.nonce, at |-> now] \in [nonce : Nonces, at : Nat]
  BY HeaderType DEF TypeOK, AdmissionType
<1> QED
  BY <1>1, <1>2 DEF TypeOK, AdmissionType, RecordNonce

LEMMA AcceptType ==
    ASSUME TypeOK, NEW m \in MessageEnvelope, Accept(m), Grows(m), now' = now,
           revokedCapabilities' \subseteq CapabilityIds
    PROVE  AdmissionType'
<1>1. nonceCache' \in [Users -> SUBSET [nonce : Nonces, at : Nat]]
  BY RecordNonceType DEF Accept
<1>2. capabilityUsage' \in [CapabilityIds -> Nat]
  BY HeaderType DEF TypeOK, AdmissionType, Accept, RecordCapabilityUsage
<1> QED
  BY <1>1, <1>2 DEF TypeOK, AdmissionType, Grows

\* A log that grows keeps the stored grants where they are.
LEMMA GrantsStay ==
    ASSUME TypeOK, NEW m \in MessageEnvelope, Grows(m), UNCHANGED capabilities
    PROVE  GrantsStored'
<1>1. Len(eventLog) \in Nat
  BY LenProperties DEF TypeOK, AdmissionType
<1> SUFFICES ASSUME NEW c \in CapabilityIds, capabilities[c] # 0
             PROVE  /\ capabilities[c] \in 1..Len(eventLog')
                    /\ eventLog'[capabilities[c]].kind = "capability.grant"
  BY DEF TypeOK, GrantsStored
<1>2. capabilities[c] \in 1..Len(eventLog) /\ eventLog[capabilities[c]].kind = "capability.grant"
  BY DEF TypeOK, GrantsStored
<1>3. Header(eventLog'[capabilities[c]]) = Header(eventLog[capabilities[c]])
  BY <1>2 DEF Grows, SameEntry
<1> QED
  BY <1>1, <1>2, <1>3 DEF Grows, Header

\* The helpers of the handlers.
LEMMA AddEdgeType ==
    ASSUME TypeOK, NEW from \in NodeIds \union {"undefined"},
           NEW type \in EdgeTypes \union {"undefined"}, NEW to \in NodeIds \union {"undefined"},
           AddEdge(from, type, to)
    PROVE  edges' \subseteq StoredEdge
<1>1. At \in Nat
  BY LenProperties DEF TypeOK, AdmissionType, At
<1> QED
  BY <1>1 DEF TypeOK, GraphType, StoredEdge, AddEdge, WithoutEdge

LEMMA BumpTrustType ==
    ASSUME TypeOK, NEW u \in Users, NEW delta \in Int, BumpTrust(u, delta)
    PROVE  trust' \in [Users -> -100..100]
<1>1. trust \in [Users -> -100..100]
  BY DEF TypeOK, RecordsType
<1>2. trust[u] \in Int
  BY <1>1
<1>3. \A score \in Int : Clamp(score) \in -100..100
  BY DEF Clamp
<1>4. Clamp(trust[u] + delta) \in -100..100
  BY <1>2, <1>3
<1> QED
  BY <1>1, <1>4 DEF BumpTrust

LEMMA EnsureProjectType ==
    ASSUME TypeOK, NEW p \in Projects
    PROVE  EnsureProject(p) \in ProjectRecord
<1>1. projects[p] \in ProjectRecord
  BY DEF TypeOK, RecordsType
<1>2. [projects[p] EXCEPT !.status = "draft"] \in ProjectRecord
  BY <1>1 DEF ProjectRecord, ProjectStatus
<1> QED
  BY <1>1, <1>2 DEF EnsureProject

LEMMA SetTaskType ==
    ASSUME TypeOK, NEW p \in Projects, NEW t \in Tasks, NEW task \in TaskRecord,
           SetTask(p, t, task)
    PROVE  projects' \in [Projects -> ProjectRecord]
<1>1. [EnsureProject(p) EXCEPT !.tasks[t] = task] \in ProjectRecord
  BY EnsureProjectType DEF ProjectRecord
<1> QED
  BY <1>1 DEF TypeOK, RecordsType, SetTask, SetProject

\* What the handlers that append and leave the grants alone have in common.
LEMMA AppendType ==
    ASSUME TypeOK, NEW m \in MessageEnvelope, Accept(m), AppendEvent(m),
           UNCHANGED <<now, capabilities, revokedCapabilities>>
    PROVE  AdmissionType' /\ GrantsStored' /\ At \in Nat
<1>1. Grows(m)
  BY AppendGrows
<1>2. revokedCapabilities' \subseteq CapabilityIds
  BY DEF TypeOK, AdmissionType
<1>3. At \in Nat
  BY LenProperties DEF TypeOK, AdmissionType, At
<1> QED
  BY <1>1, <1>2, <1>3, AcceptType, GrantsStay

\* A refused message and the passing of time.
LEMMA RefusalType ==
    ASSUME TypeOK, NEW m \in Envelopes,
           RefuseUnchecked(m) \/ RefuseReplay(m) \/ RefuseAfterNonce(m)
    PROVE  TypeOK'
<1> m \in MessageEnvelope
  BY EnvelopeAssumption
<1>1. nonceCache' \in [Users -> SUBSET [nonce : Nonces, at : Nat]]
  <2>1. CASE RefuseUnchecked(m)
    BY <2>1 DEF RefuseUnchecked, vars, TypeOK, AdmissionType
  <2>2. CASE RefuseReplay(m)
    BY <2>2 DEF RefuseReplay, EvictNonces, LiveNonces, TypeOK, AdmissionType
  <2>3. CASE RefuseAfterNonce(m)
    BY <2>3, RecordNonceType DEF RefuseAfterNonce
  <2> QED
    BY <2>1, <2>2, <2>3
<1>2. UNCHANGED unchangedByRefusal
  BY DEF RefuseUnchecked, RefuseReplay, RefuseAfterNonce, unchangedByRefusal, vars, graphVars
<1> QED
  BY <1>1, <1>2 DEF unchangedByRefusal, graphVars, TypeOK, AdmissionType, GraphType,
                    RecordsType, GrantsStored

LEMMA GraphDeltaType ==
    ASSUME TypeOK, NEW m \in Envelopes, GraphDelta(m) \/ GraphDeltaThrows(m)
    PROVE  TypeOK'
<1> m \in MessageEnvelope
  BY EnvelopeAssumption
<1>1. AdmissionType' /\ GrantsStored' /\ At \in Nat
  BY AppendType DEF GraphDelta, GraphDeltaThrows
<1>2. CASE GraphDelta(m)
  <2>1. m.payload \in GraphPayload
    BY <1>2, PayloadType DEF GraphDelta
  <2>2. trust' \in [Users -> -100..100]
    BY <1>2, BumpTrustType, HeaderType DEF GraphDelta
  <2>3. GraphType'
    <3>1. CASE m.payload.op \in {"upsert_node", "patch_node"}
      BY <1>1, <1>2, <2>1, <3>1 DEF GraphDelta, EnsureNode, TypeOK, GraphType, GraphPayload
    <3>2. CASE m.payload.op = "delete_node"
      BY <1>2, <2>1, <3>2 DEF GraphDelta, TypeOK, GraphType, GraphPayload
    <3>3. CASE m.payload.op = "add_edge"
      <4>1. m.payload.edge \in Edge \union {NoEdge}
        BY <2>1 DEF GraphPayload
      <4>2. /\ m.payload.edge.from \in NodeIds \union {"undefined"}
            /\ m.payload.edge.type \in EdgeTypes \union {"undefined"}
            /\ m.payload.edge.to \in NodeIds \union {"undefined"}
        BY <4>1 DEF Edge, NoEdge
      <4> QED
        BY <1>2, <3>3, <4>2, AddEdgeType DEF GraphDelta, TypeOK, GraphType
    <3>4. CASE m.payload.op = "remove_edge"
      BY <1>2, <3>4 DEF GraphDelta, WithoutEdge, TypeOK, GraphType
    <3>5. CASE m.payload.op = "other"
      BY <1>2, <3>5 DEF GraphDelta, graphVars, TypeOK, GraphType
    <3> QED
      BY <1>2, <3>1, <3>2, <3>3, <3>4, <3>5 DEF GraphDelta
  <2> QED
    BY <1>1, <1>2, <2>2, <2>3 DEF GraphDelta, TypeOK, RecordsType
<1>3. CASE GraphDeltaThrows(m)
  BY <1>1, <1>3 DEF GraphDeltaThrows, graphVars, TypeOK, GraphType, RecordsType
<1> QED
  BY <1>2, <1>3

LEMMA ProjectType ==
    ASSUME TypeOK, NEW m \in Envelopes,
           ProjectMotion(m) \/ ProjectIntent(m) \/ ProjectUpdate(m)
    PROVE  TypeOK'
<1> m \in MessageEnvelope /\ m.sender \in Users
  BY EnvelopeAssumption, HeaderType
<1>1. AdmissionType' /\ GrantsStored' /\ At \in Nat
  BY AppendType DEF ProjectMotion, ProjectIntent, ProjectUpdate
<1>2. CASE ProjectMotion(m)
  <2> DEFINE p == MotionProject(m)
             record == [EnsureProject(p) EXCEPT !.motion = At, !.status = "recruiting",
                                                !.updates = Append(@, At)]
  <2>1. p \in Projects
    BY <1>2, PayloadType, NameAssumption DEF ProjectMotion, MotionProject, MotionPayload
  <2>2. record \in ProjectRecord
    <3>1. EnsureProject(p) \in ProjectRecord
      BY <2>1, EnsureProjectType
    <3>2. Append(EnsureProject(p).updates, At) \in Seq(Nat)
      BY <1>1, <3>1, AppendProperties DEF ProjectRecord
    <3> QED
      BY <1>1, <3>1, <3>2 DEF ProjectRecord, ProjectStatus
  <2>3. projects' \in [Projects -> ProjectRecord]
    BY <1>2, <2>1, <2>2 DEF ProjectMotion, SetProject, TypeOK, RecordsType
  <2>4. trust' \in [Users -> -100..100]
    BY <1>2, BumpTrustType DEF ProjectMotion
  <2>5. GraphType'
    BY <1>1, <1>2, <2>1, NameAssumption DEF ProjectMotion, EnsureNode, TypeOK, GraphType
  <2> QED
    BY <1>1, <1>2, <2>3, <2>4, <2>5 DEF ProjectMotion, TypeOK, RecordsType
<1>3. CASE ProjectIntent(m)
  <2> DEFINE p == m.payload.project_id
             record == [EnsureProject(p) EXCEPT
                          !.intents[m.sender] = At,
                          !.status = IF @ = "draft" THEN "recruiting" ELSE @]
  <2>1. p \in Projects
    BY <1>3, PayloadType DEF ProjectIntent, ProjectPayload
  <2>2. record \in ProjectRecord
    <3>1. EnsureProject(p) \in ProjectRecord
      BY <2>1, EnsureProjectType
    <3> QED
      BY <1>1, <3>1 DEF ProjectRecord, ProjectStatus
  <2>3. projects' \in [Projects -> ProjectRecord]
    BY <1>3, <2>1, <2>2 DEF ProjectIntent, SetProject, TypeOK, RecordsType
  <2>4. trust' \in [Users -> -100..100]
    BY <1>3, BumpTrustType DEF ProjectIntent
  <2>5. AddEdge(m.sender, "participates_in", p)
    BY <1>3 DEF ProjectIntent
  <2>6. GraphType'
    BY <1>3, <2>1, <2>5, AddEdgeType, NameAssumption
       DEF ProjectIntent, EdgeTypes, TypeOK, GraphType
  <2> QED
    BY <1>1, <1>3, <2>3, <2>4, <2>6 DEF ProjectIntent, TypeOK, RecordsType
<1>4. CASE ProjectUpdate(m)
  <2> DEFINE p == m.payload.project_id
             old == EnsureProject(p)
             record == [old EXCEPT
               !.status = IF m.payload.status = "unset" THEN @ ELSE m.payload.status,
               !.progress = IF m.payload.progress THEN At ELSE @,
               !.updates = IF m.payload.changes THEN Append(@, At) ELSE @]
  <2>1. p \in Projects /\ m.payload.status \in ProjectStatus \union {"unset"}
    BY <1>4, PayloadType DEF ProjectUpdate, UpdatePayload
  <2>2. record \in ProjectRecord
    <3>1. old \in ProjectRecord
      BY <2>1, EnsureProjectType
    <3>2. (IF m.payload.changes THEN Append(old.updates, At) ELSE old.updates) \in Seq(Nat)
      BY <1>1, <3>1, AppendProperties DEF ProjectRecord
    <3>3. (IF m.payload.progress THEN At ELSE old.progress) \in Nat
      BY <1>1, <3>1 DEF ProjectRecord
    <3> HIDE DEF old
    <3> QED
      BY <2>1, <3>1, <3>2, <3>3 DEF ProjectRecord
  <2>3. projects' \in [Projects -> ProjectRecord]
    BY <1>4, <2>1, <2>2 DEF ProjectUpdate, SetProject, TypeOK, RecordsType
  <2> QED
    BY <1>1, <1>4, <2>3 DEF ProjectUpdate, graphVars, TypeOK, GraphType, RecordsType
<1> QED
  BY <1>2, <1>3, <1>4

LEMMA TaskType ==
    ASSUME TypeOK, NEW m \in Envelopes,
           TaskPropose(m) \/ TaskAssign(m) \/ TaskCommit(m) \/ TaskDeliver(m)
    PROVE  TypeOK'
<1> DEFINE p == m.payload.project_id
           t == m.payload.task_id
           task == projects[p].tasks[t]
<1> m \in MessageEnvelope /\ m.sender \in Users
  BY EnvelopeAssumption, HeaderType
<1>1. AdmissionType' /\ GrantsStored' /\ At \in Nat
  BY AppendType DEF TaskPropose, TaskAssign, TaskCommit, TaskDeliver
<1>2. p \in Projects /\ t \in Tasks
  BY PayloadType DEF TaskPropose, TaskAssign, TaskCommit, TaskDeliver,
                     TaskPayload, AssignPayload, CommitPayload
<1>3. task \in TaskRecord
  BY <1>2 DEF TypeOK, RecordsType, ProjectRecord
<1>4. CASE TaskPropose(m)
  <2>1. [task EXCEPT !.proposal = At, !.status = "proposed"] \in TaskRecord
    BY <1>1, <1>3 DEF TaskRecord
  <2>2. projects' \in [Projects -> ProjectRecord]
    BY <1>2, <1>4, <2>1, SetTaskType DEF TaskPropose
  <2>3. AddEdge(t, "depends_on", p)
    BY <1>4 DEF TaskPropose
  <2>4. GraphType'
    BY <1>2, <1>4, <2>3, AddEdgeType, NameAssumption
       DEF TaskPropose, EdgeTypes, TypeOK, GraphType
  <2> QED
    BY <1>1, <1>4, <2>2, <2>4 DEF TaskPropose, TypeOK, RecordsType
<1>5. CASE TaskAssign(m)
  <2>1. [task EXCEPT !.assignment = At, !.status = "assigned"] \in TaskRecord
    BY <1>1, <1>3 DEF TaskRecord
  <2>2. projects' \in [Projects -> ProjectRecord]
    BY <1>2, <1>5, <2>1, SetTaskType DEF TaskAssign
  <2>3. AddEdge(m.payload.assignee, "assigned_to", t) /\ m.payload.assignee \in NodeIds
    BY <1>5, PayloadType DEF TaskAssign, AssignPayload
  <2>4. GraphType'
    BY <1>2, <1>5, <2>3, AddEdgeType, NameAssumption
       DEF TaskAssign, EdgeTypes, TypeOK, GraphType
  <2> QED
    BY <1>1, <1>5, <2>2, <2>4 DEF TaskAssign, TypeOK, RecordsType
<1>6. CASE TaskCommit(m)
  <2>1. [task EXCEPT !.commitment = At,
                     !.status = IF m.payload.accepted THEN "committed" ELSE "assigned"]
          \in TaskRecord
    BY <1>1, <1>3 DEF TaskRecord
  <2>2. projects' \in [Projects -> ProjectRecord]
    BY <1>2, <1>6, <2>1, SetTaskType DEF TaskCommit
  <2>3. trust' \in [Users -> -100..100]
    BY <1>6, BumpTrustType DEF TaskCommit
  <2> QED
    BY <1>1, <1>6, <2>2, <2>3 DEF TaskCommit, graphVars, TypeOK, GraphType, RecordsType
<1>7. CASE TaskDeliver(m)
  <2> DEFINE old == EnsureProject(p)
             done == [task EXCEPT !.delivery = At, !.status = "delivered"]
             record == [old EXCEPT !.tasks[t] = done, !.updates = Append(@, At)]
  <2>1. old \in ProjectRecord
    BY <1>2, EnsureProjectType
  <2>2. done \in TaskRecord
    BY <1>1, <1>3 DEF TaskRecord
  <2>3. Append(old.updates, At) \in Seq(Nat)
    BY <1>1, <2>1, AppendProperties DEF ProjectRecord
  <2>4. record \in ProjectRecord
    <3> HIDE DEF old, done
    <3> QED
      BY <1>2, <2>1, <2>2, <2>3 DEF ProjectRecord
  <2>5. projects' = [projects EXCEPT ![p] = record]
    BY <1>7 DEF TaskDeliver, SetProject
  <2>6. projects' \in [Projects -> ProjectRecord]
    BY <2>4, <2>5 DEF TypeOK, RecordsType
  <2>7. trust' \in [Users -> -100..100]
    BY <1>7, BumpTrustType DEF TaskDeliver
  <2> QED
    BY <1>1, <1>7, <2>6, <2>7 DEF TaskDeliver, graphVars, TypeOK, GraphType, RecordsType
<1> QED
  BY <1>4, <1>5, <1>6, <1>7

LEMMA ElectionType ==
    ASSUME TypeOK, NEW m \in Envelopes, ElectionMotion(m) \/ ElectionVote(m)
    PROVE  TypeOK'
<1> DEFINE e == m.payload.election_id
<1> m \in MessageEnvelope /\ m.sender \in Users
  BY EnvelopeAssumption, HeaderType
<1>1. AdmissionType' /\ GrantsStored' /\ At \in Nat
  BY AppendType DEF ElectionMotion, ElectionVote
<1>2. e \in Elections
  BY PayloadType DEF ElectionMotion, ElectionVote, BallotPayload, VotePayload
<1>3. elections[e] \in ElectionRecord
  BY <1>2 DEF TypeOK, RecordsType
<1>4. CASE ElectionMotion(m)
  <2>1. EnsureElection(e) \in ElectionRecord
    BY <1>3 DEF EnsureElection, ElectionRecord
  <2>2. [EnsureElection(e) EXCEPT !.motion = At, !.status = "open"] \in ElectionRecord
    BY <1>1, <2>1 DEF ElectionRecord
  <2>3. elections' \in [Elections -> ElectionRecord]
    BY <1>2, <1>4, <2>2 DEF ElectionMotion, TypeOK, RecordsType
  <2>4. GraphType'
    BY <1>1, <1>2, <1>4, NameAssumption DEF ElectionMotion, EnsureNode, TypeOK, GraphType
  <2> QED
    BY <1>1, <1>4, <2>3, <2>4 DEF ElectionMotion, TypeOK, RecordsType
<1>5. CASE ElectionVote(m)
  <2> DEFINE record == [elections[e] EXCEPT
                          !.nullifiers = @ \union {m.payload.nullifier},
                          !.votes[m.sender] = At, !.status = "voting"]
  <2>1. m.payload \in VotePayload
    BY <1>5, PayloadType DEF ElectionVote
  <2>2. CASE m.payload.nullifier \in elections[e].nullifiers
    BY <1>1, <1>5, <2>2 DEF ElectionVote, TypeOK, GraphType, RecordsType
  <2>3. CASE m.payload.nullifier \notin elections[e].nullifiers
    <3>1. record \in ElectionRecord
      BY <1>1, <1>3, <2>1 DEF ElectionRecord, VotePayload
    <3>2. elections' = [elections EXCEPT ![e] = record]
      BY <1>5, <2>3 DEF ElectionVote
    <3>3. elections' \in [Elections -> ElectionRecord]
      BY <3>1, <3>2 DEF TypeOK, RecordsType
    <3>4. trust' \in [Users -> -100..100]
      BY <1>5, <2>3, BumpTrustType DEF ElectionVote
    <3>5. AddEdge(m.sender, "voted_for", m.payload.choice) /\ m.payload.choice \in NodeIds
      BY <1>5, <2>1, <2>3 DEF ElectionVote, VotePayload
    <3>6. GraphType'
      BY <1>5, <3>5, AddEdgeType, NameAssumption DEF ElectionVote, EdgeTypes, TypeOK, GraphType
    <3> QED
      BY <1>1, <1>5, <3>3, <3>4, <3>6 DEF ElectionVote, TypeOK, RecordsType
  <2> QED
    BY <2>2, <2>3
<1> QED
  BY <1>4, <1>5

LEMMA CapabilityType ==
    ASSUME TypeOK, NEW m \in Envelopes, CapabilityGrant(m) \/ CapabilityRevoke(m)
    PROVE  TypeOK'
<1> m \in MessageEnvelope
  BY EnvelopeAssumption
<1>1. GraphType' /\ RecordsType'
  BY DEF CapabilityGrant, CapabilityRevoke, graphVars, TypeOK, GraphType, RecordsType
<1>2. CASE CapabilityGrant(m)
  <2> DEFINE c == m.payload.capability_id
  <2>1. Grows(m) /\ c \in CapabilityIds
    BY <1>2, AppendGrows, PayloadType DEF CapabilityGrant, GrantPayload
  <2>2. AdmissionType'
    BY <1>2, <2>1, AcceptType DEF CapabilityGrant, TypeOK, AdmissionType
  <2>3. At = Len(eventLog') /\ At \in Nat \ {0} /\ Len(eventLog) \in Nat
    BY <2>1, LenProperties DEF Grows, At, TypeOK, AdmissionType
  <2>4. capabilities' = [capabilities EXCEPT ![c] = At]
    BY <1>2 DEF CapabilityGrant
  <2>5. capabilities' \in [CapabilityIds -> Nat]
    BY <2>3, <2>4 DEF TypeOK, GrantsStored
  <2>6. ASSUME NEW d \in CapabilityIds, capabilities'[d] # 0
        PROVE  /\ capabilities'[d] \in 1..Len(eventLog')
               /\ eventLog'[capabilities'[d]].kind = "capability.grant"
    <3>1. CASE d = c
      <4>1. capabilities'[d] = At
        BY <2>1, <2>4, <3>1 DEF TypeOK, GrantsStored
      <4> QED
        BY <1>2, <2>1, <2>3, <4>1 DEF CapabilityGrant, Grows, At
    <3>2. CASE d # c
      <4>1. capabilities'[d] = capabilities[d]
        BY <2>4, <3>2 DEF TypeOK, GrantsStored
      <4>2. capabilities[d] \in 1..Len(eventLog) /\ eventLog[capabilities[d]].kind = "capability.grant"
        BY <2>6, <4>1 DEF TypeOK, GrantsStored
      <4>3. Header(eventLog'[capabilities[d]]) = Header(eventLog[capabilities[d]])
        BY <2>1, <4>2 DEF Grows, SameEntry
      <4> QED
        BY <2>1, <2>3, <4>1, <4>2, <4>3 DEF Grows, Header
    <3> QED
      BY <3>1, <3>2
  <2> QED
    BY <1>1, <2>2, <2>5, <2>6 DEF TypeOK, GrantsStored
<1>3. CASE CapabilityRevoke(m)
  <2>1. Grows(m)
    BY <1>3, RevokeGrows DEF CapabilityRevoke
  <2>2. m.payload.capability_id \in CapabilityIds
    BY <1>3, PayloadType DEF CapabilityRevoke, RevokePayload
  <2>3. revokedCapabilities' \subseteq CapabilityIds
    BY <1>3, <2>2 DEF CapabilityRevoke, TypeOK, AdmissionType
  <2>4. AdmissionType'
    BY <1>3, <2>1, <2>3, AcceptType DEF CapabilityRevoke
  <2>5. GrantsStored'
    BY <1>3, <2>1, GrantsStay DEF CapabilityRevoke
  <2> QED
    BY <1>1, <2>4, <2>5 DEF TypeOK
<1> QED
  BY <1>2, <1>3

LEMMA DisputeType ==
    ASSUME TypeOK, NEW m \in Envelopes, DisputeReport(m) \/ DisputeResponse(m)
    PROVE  TypeOK'
<1> m \in MessageEnvelope /\ m.id \in MsgIds
  BY EnvelopeAssumption, HeaderType
<1>1. AdmissionType' /\ GrantsStored' /\ At \in Nat
  BY AppendType DEF DisputeReport, DisputeResponse
<1>2. disputes \subseteq DisputeRecord /\ trust \in [Users -> -100..100]
  BY DEF TypeOK, RecordsType
<1>3. CASE DisputeReport(m)
  <2>1. m.payload \in ReportPayload
    BY <1>3, PayloadType DEF DisputeReport
  <2>2. ReportKey(m) \in DisputeKeys
    <3>1. <<m.payload.project_id, m.payload.subject, m.id>> \in Projects \X NodeIds \X MsgIds
      BY <2>1 DEF ReportPayload
    <3> QED
      BY <2>1, <3>1, NameAssumption DEF ReportKey, ReportPayload
  <2>3. [key |-> ReportKey(m), report |-> At, responses |-> <<>>, status |-> "open"]
          \in DisputeRecord
    BY <1>1, <2>2, EmptySeq DEF DisputeRecord
  <2>4. disputes' \subseteq DisputeRecord
    BY <1>2, <1>3, <2>3 DEF DisputeReport
  <2>5. trust' \in [Users -> -100..100]
    <3>1. CASE m.payload.accused \in Users
      <4>1. BumpTrust(m.payload.accused, -5) /\ -5 \in Int
        BY <1>3, <3>1 DEF DisputeReport
      <4> QED
        BY <3>1, <4>1, BumpTrustType
    <3>2. CASE m.payload.accused \notin Users
      BY <1>2, <1>3, <3>2 DEF DisputeReport
    <3> QED
      BY <3>1, <3>2
  <2> QED
    BY <1>1, <1>3, <2>4, <2>5 DEF DisputeReport, graphVars, TypeOK, GraphType, RecordsType
<1>4. CASE DisputeResponse(m)
  <2>1. ASSUME NEW d \in disputes
        PROVE  [d EXCEPT !.responses = Append(@, At), !.status = "under_review"] \in DisputeRecord
    <3>1. d \in DisputeRecord
      BY <1>2, <2>1
    <3>2. Append(d.responses, At) \in Seq(Nat)
      BY <1>1, <3>1, AppendProperties DEF DisputeRecord
    <3> QED
      BY <3>1, <3>2 DEF DisputeRecord
  <2>2. disputes' \subseteq DisputeRecord
    BY <1>2, <1>4, <2>1 DEF DisputeResponse
  <2> QED
    BY <1>1, <1>2, <1>4, <2>2 DEF DisputeResponse, graphVars, TypeOK, GraphType, RecordsType
<1> QED
  BY <1>3, <1>4

LEMMA InitType == Init => TypeOK
<1> SUFFICES ASSUME Init PROVE TypeOK
  OBVIOUS
<1>1. AdmissionType
  BY ClockAssumption, EmptySeq DEF Init, AdmissionType
<1>2. GraphType
  BY DEF Init, GraphType
<1>3. NoProject \in ProjectRecord
  BY EmptySeq DEF NoProject, ProjectRecord, NoTask, TaskRecord
<1>4. NoElection \in ElectionRecord
  BY DEF NoElection, ElectionRecord
<1>5. RecordsType
  BY <1>3, <1>4 DEF Init, RecordsType
<1>6. GrantsStored
  BY DEF Init, GrantsStored
<1> QED
  BY <1>1, <1>2, <1>5, <1>6 DEF TypeOK

LEMMA NextType == TypeOK /\ [Next]_vars => TypeOK'
<1> SUFFICES ASSUME TypeOK, [Next]_vars PROVE TypeOK'
  OBVIOUS
<1>1. CASE Tick
  <2>1. now' \in 1..MaxNow
    BY <1>1, ClockAssumption DEF Tick, TypeOK, AdmissionType
  <2>2. AdmissionType'
    BY <1>1, <2>1 DEF Tick, TypeOK, AdmissionType
  <2>3. GraphType' /\ RecordsType' /\ GrantsStored'
    BY <1>1 DEF Tick, graphVars, TypeOK, GraphType, RecordsType, GrantsStored
  <2> QED
    BY <2>2, <2>3 DEF TypeOK
<1>2. ASSUME NEW m \in Envelopes, Process(m)
      PROVE  TypeOK'
  <2>1. CASE TransportMessage(m)
    <3>1. AdmissionType' /\ GrantsStored'
      BY <2>1, AppendType, EnvelopeAssumption DEF TransportMessage
    <3> QED
      BY <2>1, <3>1 DEF TransportMessage, graphVars, TypeOK, GraphType, RecordsType
  <2> QED
    BY <1>2, <2>1, RefusalType, GraphDeltaType, ProjectType, TaskType, ElectionType,
       CapabilityType, DisputeType DEF Process
<1>3. CASE UNCHANGED vars
  BY <1>3 DEF vars, graphVars, TypeOK, AdmissionType, GraphType, RecordsType, GrantsStored
<1> QED
  BY <1>1, <1>2, <1>3 DEF Next

\* The state of the engine has its types whatever it is fed; in particular the
\* object that capability.revoke writes to is always a grant in the log.
THEOREM TypeCorrect == Spec => []TypeOK
BY InitType, NextType, PTL DEF Spec

-----------------------------------------------------------------------------
(* What a step may do to the admission state.  The proofs that follow look *)
(* at a step through these two operators only.                             *)

\* The envelope m has been admitted.
Admitted(m) ==
    /\ Accept(m) /\ Grows(m) /\ now' = now
    /\ revokedCapabilities' =
         revokedCapabilities \union (IF m.kind = "capability.revoke"
                                     THEN {m.payload.capability_id} ELSE {})

\* Nothing has been admitted; no live nonce is forgotten.
Idle ==
    /\ UNCHANGED <<eventLog, capabilityUsage, revokedCapabilities>>
    /\ now' \in {now, now + 1}
    /\ \A u \in Users : LiveNonces(u) \subseteq nonceCache'[u]

LEMMA RefusalIsIdle ==
    ASSUME TypeOK, NEW m \in Envelopes,
           RefuseUnchecked(m) \/ RefuseReplay(m) \/ RefuseAfterNonce(m)
    PROVE  Idle
<1>1. UNCHANGED unchangedByRefusal
  BY DEF RefuseUnchecked, RefuseReplay, RefuseAfterNonce, unchangedByRefusal, vars, graphVars
<1>2. nonceCache \in [Users -> SUBSET [nonce : Nonces, at : Nat]]
  BY DEF TypeOK, AdmissionType
<1>3. ASSUME NEW u \in Users PROVE LiveNonces(u) \subseteq nonceCache'[u]
  <2>1. LiveNonces(u) \subseteq nonceCache[u]
    BY DEF LiveNonces
  <2>2. CASE RefuseUnchecked(m)
    BY <2>1, <2>2 DEF RefuseUnchecked, vars
  <2>3. CASE RefuseReplay(m)
    BY <1>2, <2>1, <2>3 DEF RefuseReplay, EvictNonces
  <2>4. CASE RefuseAfterNonce(m)
    BY <1>2, <2>1, <2>4 DEF RefuseAfterNonce, RecordNonce
  <2> QED
    BY <2>2, <2>3, <2>4
<1> QED
  BY <1>1, <1>3 DEF unchangedByRefusal, Idle

LEMMA ProcessCases ==
    ASSUME TypeOK, NEW m \in Envelopes, Process(m)
    PROVE  Admitted(m) \/ Idle
<1> m \in MessageEnvelope
  BY EnvelopeAssumption
<1>1. CASE CapabilityRevoke(m)
  BY <1>1, RevokeGrows DEF CapabilityRevoke, Admitted
<1>2. ASSUME Accept(m), AppendEvent(m), now' = now, UNCHANGED revokedCapabilities,
             m.kind # "capability.revoke"
      PROVE  Admitted(m)
  BY <1>2, AppendGrows DEF Admitted
<1>3. CASE GraphDelta(m) \/ GraphDeltaThrows(m)
  BY <1>2, <1>3 DEF GraphDelta, GraphDeltaThrows
<1>4. CASE ProjectMotion(m) \/ ProjectIntent(m) \/ ProjectUpdate(m)
  BY <1>2, <1>4 DEF ProjectMotion, ProjectIntent, ProjectUpdate
<1>5. CASE TaskPropose(m) \/ TaskAssign(m) \/ TaskCommit(m) \/ TaskDeliver(m)
  BY <1>2, <1>5 DEF TaskPropose, TaskAssign, TaskCommit, TaskDeliver
<1>6. CASE ElectionMotion(m) \/ ElectionVote(m)
  BY <1>2, <1>6 DEF ElectionMotion, ElectionVote
<1>7. CASE CapabilityGrant(m)
  BY <1>2, <1>7 DEF CapabilityGrant
<1>8. CASE DisputeReport(m) \/ DisputeResponse(m)
  BY <1>2, <1>8 DEF DisputeReport, DisputeResponse
<1>9. CASE TransportMessage(m)
  BY <1>2, <1>9 DEF TransportMessage, TransportKinds
<1> QED
  BY <1>1, <1>3, <1>4, <1>5, <1>6, <1>7, <1>8, <1>9, RefusalIsIdle DEF Process

LEMMA StepCases ==
    ASSUME TypeOK, [Next]_vars
    PROVE  Idle \/ \E m \in Envelopes : Admitted(m)
<1>1. CASE Tick \/ UNCHANGED vars
  BY <1>1 DEF Tick, vars, Idle, LiveNonces
<1> QED
  BY <1>1, ProcessCases DEF Next

\* Two entries that are the same but for the payload of a grant agree on what
\* the properties of this module speak of.
LEMMA SameEntryFields ==
    ASSUME NEW e, NEW f, SameEntry(e, f)
    PROVE  /\ e.prev = f.prev /\ e.chain = f.chain /\ e.kind = f.kind
           /\ e.sender = f.sender /\ e.nonce = f.nonce /\ e.created = f.created
           /\ e.token = f.token
           /\ e.kind # "capability.grant" => e.payload = f.payload
BY DEF SameEntry, Header

\* Admission leaves every entry of the log the same, and adds the message.
LEMMA EntriesStay ==
    ASSUME TypeOK, NEW m \in Envelopes, Admitted(m)
    PROVE  /\ Len(eventLog) \in Nat
           /\ DOMAIN eventLog = 1..Len(eventLog)
           /\ DOMAIN eventLog' = 1..(Len(eventLog) + 1)
           /\ \A i \in 1..Len(eventLog) : SameEntry(eventLog'[i], eventLog[i])
           /\ eventLog'[Len(eventLog) + 1] = m
BY LenProperties DEF TypeOK, AdmissionType, Admitted, Grows

-----------------------------------------------------------------------------
(* The chain.                                                              *)

LEMMA ChainStep ==
    ASSUME TypeOK, ChainLinked, [Next]_vars
    PROVE  ChainLinked'
<1>1. CASE Idle
  BY <1>1 DEF Idle, ChainLinked
<1>2. ASSUME NEW m \in Envelopes, Admitted(m)
      PROVE  ChainLinked'
  <2> SUFFICES ASSUME NEW i \in DOMAIN eventLog'
               PROVE  eventLog'[i].prev = IF i = 1 THEN "genesis" ELSE eventLog'[i - 1].chain
    BY DEF ChainLinked
  <2>1. \A j \in DOMAIN eventLog :
          /\ j \in DOMAIN eventLog'
          /\ eventLog'[j].prev = eventLog[j].prev /\ eventLog'[j].chain = eventLog[j].chain
    BY <1>2, EntriesStay, SameEntryFields
  <2>2. CASE i # Len(eventLog) + 1
    <3>1. i \in DOMAIN eventLog /\ (i # 1 => i - 1 \in DOMAIN eventLog)
      BY <1>2, <2>2, EntriesStay
    <3> QED
      BY <2>1, <3>1 DEF ChainLinked
  <2>3. CASE i = Len(eventLog) + 1
    <3>1. eventLog'[i].prev = ChainTip
      BY <1>2, <2>3, EntriesStay DEF Admitted, Accept, VerifyChainLink
    <3>2. CASE eventLog = <<>>
      BY <2>3, <3>1, <3>2 DEF ChainTip
    <3>3. CASE eventLog # <<>>
      <4>1. Len(eventLog) \in DOMAIN eventLog /\ i # 1 /\ i - 1 = Len(eventLog)
        BY <1>2, <2>3, <3>3, EntriesStay, EmptySeq DEF TypeOK, AdmissionType
      <4> QED
        BY <2>1, <3>1, <3>3, <4>1 DEF ChainTip
    <3> QED
      BY <3>2, <3>3
  <2> QED
    BY <2>2, <2>3
<1> QED
  BY <1>1, <1>2, StepCases

\* The log is one chain from the genesis: no event is ever admitted beside
\* another that names the same place, whatever is refused, delayed or repeated.
THEOREM ChainIsLinked == Spec => []ChainLinked
<1>1. Init => ChainLinked
  BY EmptySeq DEF Init, ChainLinked
<1>2. TypeOK /\ ChainLinked /\ [Next]_vars => ChainLinked'
  BY ChainStep
<1> QED
  BY <1>1, <1>2, TypeCorrect, PTL DEF Spec

-----------------------------------------------------------------------------
(* Replay.  NoReplay is not inductive: it says nothing of the cache, and   *)
(* the cache alone says nothing of old messages, since a nonce is          *)
(* forgotten after NonceTTL.  NoncesGuarded joins the two to the clock.    *)

\* What the proof knows of the entries of the log and of the cache.
LEMMA EntryFacts ==
    ASSUME TypeOK, NEW i \in DOMAIN eventLog
    PROVE  /\ eventLog[i] \in MessageEnvelope
           /\ eventLog[i].sender \in Users /\ eventLog[i].created \in Nat
           /\ \A n \in nonceCache[eventLog[i].sender] : n.at \in Nat
           /\ now \in Nat /\ MaxClockSkew \in Nat /\ NonceTTL \in Nat
<1>1. eventLog[i] \in MessageEnvelope
  BY DEF TypeOK, AdmissionType
<1> QED
  BY <1>1, HeaderType, ClockAssumption DEF TypeOK, AdmissionType

\* The nonce of a message that could still pass the skew check is live.
LEMMA GuardIsLive ==
    ASSUME TypeOK, NoncesGuarded, NEW i \in DOMAIN eventLog,
           now <= eventLog[i].created + MaxClockSkew
    PROVE  \E n \in LiveNonces(eventLog[i].sender) :
             /\ n.nonce = eventLog[i].nonce
             /\ n.at >= eventLog[i].created - MaxClockSkew
<1> DEFINE e == eventLog[i]
<1>1. PICK n \in nonceCache[e.sender] : n.nonce = e.nonce /\ n.at >= e.created - MaxClockSkew
  BY EntryFacts DEF NoncesGuarded, Guarded
<1>2. now - n.at <= NonceTTL
  BY <1>1, EntryFacts, RetentionAssumption
<1> QED
  BY <1>1, <1>2 DEF LiveNonces

\* The temporal window in terms of order.
LEMMA WindowBounds ==
    ASSUME NEW m \in MessageEnvelope, now \in Nat, VerifyTemporalWindow(m)
    PROVE  m.created - MaxClockSkew <= now /\ now <= m.created + MaxClockSkew
BY HeaderType, ClockAssumption DEF VerifyTemporalWindow, Distance, Max2

LEMMA NoncesGuardedStep ==
    ASSUME TypeOK, TypeOK', NoncesGuarded, [Next]_vars
    PROVE  NoncesGuarded'
<1>1. ASSUME NEW i \in DOMAIN eventLog, eventLog'[i].sender = eventLog[i].sender,
             eventLog'[i].nonce = eventLog[i].nonce,
             eventLog'[i].created = eventLog[i].created,
             now' \in {now, now + 1},
             \A u \in Users : LiveNonces(u) \subseteq nonceCache'[u]
      PROVE  Guarded(eventLog[i])'
  <2>1. CASE now > eventLog[i].created + MaxClockSkew
    BY <1>1, <2>1, EntryFacts DEF Guarded
  <2>2. CASE now <= eventLog[i].created + MaxClockSkew
    BY <1>1, <2>2, EntryFacts, GuardIsLive DEF Guarded
  <2> QED
    BY <2>1, <2>2, EntryFacts
<1>2. CASE Idle
  BY <1>1, <1>2 DEF Idle, NoncesGuarded
<1>3. ASSUME NEW m \in Envelopes, Admitted(m)
      PROVE  NoncesGuarded'
  <2> m \in MessageEnvelope /\ m.sender \in Users
    BY EnvelopeAssumption, HeaderType
  <2>1. nonceCache' = [nonceCache EXCEPT ![m.sender] =
                         LiveNonces(m.sender) \union {[nonce |-> m.nonce, at |-> now]}]
    BY <1>3 DEF Admitted, Accept, RecordNonce
  <2>2. nonceCache \in [Users -> SUBSET [nonce : Nonces, at : Nat]] /\ now \in Nat
    BY DEF TypeOK, AdmissionType
  <2>3. \A u \in Users : LiveNonces(u) \subseteq nonceCache'[u]
    BY <2>1, <2>2 DEF LiveNonces
  <2>4. \A i \in 1..Len(eventLog) : Guarded(eventLog[i])'
    BY <1>1, <1>3, <2>3, EntriesStay, SameEntryFields DEF Admitted
  <2>5. Guarded(eventLog[Len(eventLog)])'
    <3>1. eventLog'[Len(eventLog')] = m
      BY <1>3 DEF Admitted, Grows
    <3>2. [nonce |-> m.nonce, at |-> now] \in nonceCache'[m.sender]
      BY <2>1, <2>2
    <3>3. now >= m.created - MaxClockSkew
      BY <1>3, <2>2, WindowBounds DEF Admitted, Accept, PassesFirstChecks
    <3> QED
      BY <3>1, <3>2, <3>3 DEF Guarded
  <2> QED
    BY <1>3, <2>4, <2>5, EntriesStay DEF NoncesGuarded, Admitted, Grows
<1> QED
  BY <1>2, <1>3, StepCases

\* A message that the log holds is not admitted.
LEMMA ReplayIsLive ==
    ASSUME TypeOK, NoncesGuarded, NEW m \in Envelopes, Admitted(m),
           NEW i \in DOMAIN eventLog,
           eventLog[i].sender = m.sender, eventLog[i].nonce = m.nonce,
           eventLog[i].created = m.created
    PROVE  FALSE
<1>1. now <= m.created + MaxClockSkew
  BY WindowBounds, EnvelopeAssumption
     DEF Admitted, Accept, PassesFirstChecks, TypeOK, AdmissionType
<1>2. \E n \in LiveNonces(m.sender) : n.nonce = m.nonce
  BY <1>1, GuardIsLive
<1> QED
  BY <1>2 DEF Admitted, Accept, IsReplay

LEMMA NoReplayStep ==
    ASSUME TypeOK, NoncesGuarded, NoReplay, [Next]_vars
    PROVE  NoReplay'
<1> DEFINE Same(e, f) == e.sender = f.sender /\ e.nonce = f.nonce /\ e.created = f.created
<1>1. CASE Idle
  BY <1>1 DEF Idle, NoReplay
<1>2. ASSUME NEW m \in Envelopes, Admitted(m)
      PROVE  NoReplay'
  <2>1. ASSUME NEW i \in 1..Len(eventLog), Same(eventLog[i], m)
        PROVE  FALSE
    BY <1>2, <2>1, EntriesStay, ReplayIsLive
  <2>2. \A i \in 1..Len(eventLog) : Same(eventLog'[i], eventLog[i])
    BY <1>2, EntriesStay, SameEntryFields
  <2>3. ASSUME NEW i \in DOMAIN eventLog', NEW j \in DOMAIN eventLog',
               Same(eventLog'[i], eventLog'[j])
        PROVE  i = j
    <3>1. CASE i \in 1..Len(eventLog) /\ j \in 1..Len(eventLog)
      BY <1>2, <2>2, <2>3, <3>1, EntriesStay DEF NoReplay
    <3>2. CASE i = Len(eventLog) + 1 \/ j = Len(eventLog) + 1
      BY <1>2, <2>1, <2>2, <2>3, <3>2, EntriesStay
    <3> QED
      BY <1>2, <3>1, <3>2, EntriesStay
  <2> QED
    BY <2>3 DEF NoReplay
<1> QED
  BY <1>1, <1>2, StepCases

\* No message enters the log twice, although its nonce is forgotten in time:
\* provided only that a nonce is kept for twice the allowed clock skew.
THEOREM ReplayIsRefused == Spec => []NoReplay
<1>1. Init => NoncesGuarded /\ NoReplay
  BY EmptySeq DEF Init, NoncesGuarded, NoReplay
<1>2. TypeOK /\ TypeOK' /\ NoncesGuarded /\ NoReplay /\ [Next]_vars
        => NoncesGuarded' /\ NoReplay'
  BY NoncesGuardedStep, NoReplayStep
<1> QED
  BY <1>1, <1>2, TypeCorrect, PTL DEF Spec

\* Why nonces may be forgotten: the cache still holds the nonce of every logged
\* message that could pass the skew check once more (recordNonce, isReplay).
THEOREM NoncesStayGuarded == Spec => []NoncesGuarded
<1>1. Init => NoncesGuarded
  BY EmptySeq DEF Init, NoncesGuarded
<1>2. TypeOK /\ TypeOK' /\ NoncesGuarded /\ [Next]_vars => NoncesGuarded'
  BY NoncesGuardedStep
<1> QED
  BY <1>1, <1>2, TypeCorrect, PTL DEF Spec

-----------------------------------------------------------------------------
(* Capabilities.  The log says what has been revoked and used, and the two *)
(* maps that verifyCapabilityToken consults agree with it.                 *)

RevokedFollowLog ==
    \A i \in DOMAIN eventLog :
      Kind(i) = "capability.revoke" => eventLog[i].payload.capability_id \in revokedCapabilities

Uses(log, c, n) == {j \in 1..n : log[j].token.id = c}

UsageFollowsLog ==
    \A c \in CapabilityIds : capabilityUsage[c] = Cardinality(Uses(eventLog, c, Len(eventLog)))

\* What an accepted message knew of its token.
LEMMA AcceptedToken ==
    ASSUME NEW m \in Envelopes, Admitted(m)
    PROVE  /\ m.token.id \notin revokedCapabilities
           /\ BelowMaxCount(m.token)
           /\ capabilityUsage' = [capabilityUsage EXCEPT ![m.token.id] = @ + 1]
BY DEF Admitted, Accept, VerifyAuthz, VerifyCapabilityToken, RecordCapabilityUsage

LEMMA RevocationStep ==
    ASSUME TypeOK, RevokedFollowLog, RevocationHonoured, [Next]_vars
    PROVE  RevokedFollowLog' /\ RevocationHonoured'
<1>1. CASE Idle
  BY <1>1 DEF Idle, RevokedFollowLog, RevocationHonoured, Kind
<1>2. ASSUME NEW m \in Envelopes, Admitted(m)
      PROVE  RevokedFollowLog' /\ RevocationHonoured'
  <2>1. \A i \in 1..Len(eventLog) :
          /\ eventLog'[i].kind = eventLog[i].kind
          /\ eventLog'[i].token = eventLog[i].token
          /\ eventLog[i].kind = "capability.revoke" =>
               eventLog'[i].payload.capability_id = eventLog[i].payload.capability_id
    BY <1>2, EntriesStay, SameEntryFields
  <2>2. RevokedFollowLog'
    BY <1>2, <2>1, EntriesStay DEF RevokedFollowLog, Kind, Admitted
  <2>3. ASSUME NEW i \in DOMAIN eventLog', NEW j \in DOMAIN eventLog',
               i < j, eventLog'[i].kind = "capability.revoke"
        PROVE  eventLog'[j].token.id # eventLog'[i].payload.capability_id
    <3>1. i \in 1..Len(eventLog)
      BY <1>2, <2>3, EntriesStay
    <3>2. CASE j \in 1..Len(eventLog)
      BY <1>2, <2>1, <2>3, <3>1, <3>2, EntriesStay DEF RevocationHonoured, Kind
    <3>3. CASE j = Len(eventLog) + 1
      <4>1. eventLog'[i].payload.capability_id \in revokedCapabilities
        BY <1>2, <2>1, <2>3, <3>1, EntriesStay DEF RevokedFollowLog, Kind
      <4> QED
        BY <1>2, <3>3, <4>1, EntriesStay, AcceptedToken
    <3> QED
      BY <1>2, <3>2, <3>3, EntriesStay
  <2> QED
    BY <2>2, <2>3 DEF RevocationHonoured, Kind
<1> QED
  BY <1>1, <1>2, StepCases

\* From the event that follows its revocation on, no event of the log has been
\* admitted under a revoked capability, and granting it again changes nothing.
THEOREM RevocationIsFinal == Spec => []RevocationHonoured
<1>1. Init => RevokedFollowLog /\ RevocationHonoured
  BY EmptySeq DEF Init, RevokedFollowLog, RevocationHonoured
<1>2. TypeOK /\ RevokedFollowLog /\ RevocationHonoured /\ [Next]_vars
        => RevokedFollowLog' /\ RevocationHonoured'
  BY RevocationStep
<1> QED
  BY <1>1, <1>2, TypeCorrect, PTL DEF Spec

LEMMA UsesAreFinite ==
    ASSUME NEW log, NEW c, NEW n \in Nat
    PROVE  IsFiniteSet(Uses(log, c, n)) /\ Cardinality(Uses(log, c, n)) \in Nat
<1>1. IsFiniteSet(1..n)
  BY FS_Interval
<1>2. Uses(log, c, n) \subseteq 1..n
  BY DEF Uses
<1>3. IsFiniteSet(Uses(log, c, n))
  BY <1>1, <1>2, FS_Subset
<1> QED
  BY <1>3, FS_CardinalityType

\* Admission leaves the uses of a capability alone, but for one more.
LEMMA UsesGrow ==
    ASSUME TypeOK, NEW m \in Envelopes, Admitted(m), NEW c
    PROVE  /\ \A n \in 0..Len(eventLog) : Uses(eventLog', c, n) = Uses(eventLog, c, n)
           /\ Uses(eventLog', c, Len(eventLog) + 1) =
                Uses(eventLog, c, Len(eventLog)) \union
                (IF m.token.id = c THEN {Len(eventLog) + 1} ELSE {})
<1>1. /\ Len(eventLog) \in Nat
      /\ \A j \in 1..Len(eventLog) : eventLog'[j].token = eventLog[j].token
      /\ eventLog'[Len(eventLog) + 1] = m
  BY EntriesStay, SameEntryFields
<1> QED
  BY <1>1 DEF Uses

LEMMA UsageStep ==
    ASSUME TypeOK, UsageFollowsLog, [Next]_vars
    PROVE  UsageFollowsLog'
<1>1. CASE Idle
  BY <1>1 DEF Idle, UsageFollowsLog
<1>2. ASSUME NEW m \in Envelopes, Admitted(m)
      PROVE  UsageFollowsLog'
  <2>1. Len(eventLog) \in Nat /\ Len(eventLog') = Len(eventLog) + 1
    BY <1>2, EntriesStay DEF Admitted, Grows
  <2> SUFFICES ASSUME NEW c \in CapabilityIds
               PROVE  capabilityUsage'[c] = Cardinality(Uses(eventLog', c, Len(eventLog) + 1))
    BY <2>1 DEF UsageFollowsLog
  <2> DEFINE before == Uses(eventLog, c, Len(eventLog))
             after == Uses(eventLog', c, Len(eventLog) + 1)
  <2>2. capabilityUsage[c] = Cardinality(before) /\ capabilityUsage \in [CapabilityIds -> Nat]
    BY DEF UsageFollowsLog, TypeOK, AdmissionType
  <2>3. CASE m.token.id = c
    <3>1. after = before \union {Len(eventLog) + 1} /\ Len(eventLog) + 1 \notin before
      <4>1. after = before \union {Len(eventLog) + 1}
        BY <1>2, <2>3, UsesGrow
      <4>2. Len(eventLog) + 1 \notin 1..Len(eventLog)
        BY <2>1
      <4> QED
        BY <4>1, <4>2 DEF Uses
    <3>2. IsFiniteSet(before)
      BY <2>1, UsesAreFinite
    <3>3. Cardinality(after) = Cardinality(before) + 1
      <4> HIDE DEF before, after
      <4> QED
        BY <3>1, <3>2, FS_AddElement
    <3> QED
      BY <1>2, <2>2, <2>3, <3>3, AcceptedToken
  <2>4. CASE m.token.id # c
    <3>1. after = before
      BY <1>2, <2>4, UsesGrow
    <3> QED
      BY <1>2, <2>2, <2>4, <3>1, AcceptedToken
  <2> QED
    BY <2>3, <2>4
<1> QED
  BY <1>1, <1>2, StepCases

LEMMA MaxCountStep ==
    ASSUME TypeOK, UsageFollowsLog, WithinMaxCount, [Next]_vars
    PROVE  WithinMaxCount'
<1>1. CASE Idle
  BY <1>1 DEF Idle, WithinMaxCount
<1>2. ASSUME NEW m \in Envelopes, Admitted(m)
      PROVE  WithinMaxCount'
  <2> SUFFICES ASSUME NEW i \in DOMAIN eventLog', eventLog'[i].token.max > 0
               PROVE  Cardinality(Uses(eventLog', eventLog'[i].token.id, i))
                        <= eventLog'[i].token.max
    BY DEF WithinMaxCount, Uses
  <2>1. CASE i \in 1..Len(eventLog)
    <3>1. eventLog'[i].token = eventLog[i].token /\ i \in DOMAIN eventLog
      BY <1>2, <2>1, EntriesStay, SameEntryFields
    <3>2. i \in 0..Len(eventLog)
      BY <1>2, <2>1, EntriesStay
    <3>3. Uses(eventLog', eventLog[i].token.id, i) = Uses(eventLog, eventLog[i].token.id, i)
      BY <1>2, <3>2, UsesGrow
    <3> QED
      BY <3>1, <3>3 DEF WithinMaxCount, Uses
  <2>2. CASE i = Len(eventLog) + 1
    <3> DEFINE c == m.token.id
               before == Uses(eventLog, c, Len(eventLog))
               after == Uses(eventLog', c, Len(eventLog) + 1)
    <3>1. eventLog'[i] = m /\ Len(eventLog) \in Nat
      BY <1>2, <2>2, EntriesStay
    <3>2. c \in CapabilityIds /\ m.token.max \in Nat
      BY EnvelopeAssumption, HeaderType DEF Token
    <3>3. Cardinality(before) < m.token.max
      BY <1>2, <3>1, <3>2, AcceptedToken DEF BelowMaxCount, UsageFollowsLog
    <3>4. after = before \union {Len(eventLog) + 1} /\ Len(eventLog) + 1 \notin before
      <4>1. after = before \union {Len(eventLog) + 1}
        BY <1>2, UsesGrow
      <4>2. Len(eventLog) + 1 \notin 1..Len(eventLog)
        BY <3>1
      <4> QED
        BY <4>1, <4>2 DEF Uses
    <3>5. IsFiniteSet(before) /\ Cardinality(before) \in Nat
      BY <3>1, UsesAreFinite
    <3>6. Cardinality(after) = Cardinality(before) + 1
      <4> HIDE DEF before, after
      <4> QED
        BY <3>4, <3>5, FS_AddElement
    <3> QED
      BY <2>2, <3>1, <3>2, <3>3, <3>5, <3>6
  <2> QED
    BY <1>2, <2>1, <2>2, EntriesStay
<1> QED
  BY <1>1, <1>2, StepCases

\* However many messages are sent under a capability and in whatever order they
\* arrive, the log never holds more of them than the token allows.
THEOREM MaxCountIsKept == Spec => []WithinMaxCount
<1>1. Init => UsageFollowsLog
  <2> SUFFICES ASSUME Init, NEW c \in CapabilityIds
               PROVE  capabilityUsage[c] = Cardinality(Uses(eventLog, c, Len(eventLog)))
    BY DEF UsageFollowsLog
  <2>1. Uses(eventLog, c, Len(eventLog)) = {}
    BY EmptySeq DEF Init, Uses
  <2> QED
    BY <2>1, FS_EmptySet DEF Init
<1>2. Init => WithinMaxCount
  BY EmptySeq DEF Init, WithinMaxCount
<1>3. TypeOK /\ UsageFollowsLog /\ WithinMaxCount /\ [Next]_vars
        => UsageFollowsLog' /\ WithinMaxCount'
  BY UsageStep, MaxCountStep
<1> QED
  BY <1>1, <1>2, <1>3, TypeCorrect, PTL DEF Spec

-----------------------------------------------------------------------------
(* The log implements the abstract ledger: an admission is an Admit, and   *)
(* every other step, the rewriting of a grant included, is a stutter.      *)

HeadersOf(log) == [i \in DOMAIN log |-> Header(log[i])]
Headers == HeadersOf(eventLog)

LEMMA HeadersFollowLog ==
    ASSUME NEW log \in Seq(MessageEnvelope)
    PROVE  /\ Len(log) \in Nat /\ DOMAIN log = 1..Len(log)
           /\ HeadersOf(log) \in Seq({Header(m) : m \in MessageEnvelope})
           /\ Len(HeadersOf(log)) = Len(log) /\ DOMAIN HeadersOf(log) = 1..Len(log)
           /\ \A i \in 1..Len(log) : HeadersOf(log)[i] = Header(log[i])
<1>1. Len(log) \in Nat /\ DOMAIN log = 1..Len(log)
  BY LenProperties
<1>2. \A i \in 1..Len(log) : log[i] \in MessageEnvelope
  BY <1>1, ElementOfSeq
<1>3. HeadersOf(log) \in [1..Len(log) -> {Header(m) : m \in MessageEnvelope}]
  BY <1>1, <1>2 DEF HeadersOf
<1>4. HeadersOf(log) \in Seq({Header(m) : m \in MessageEnvelope})
  BY <1>1, <1>3
<1> QED
  BY <1>1, <1>3, <1>4, LenProperties DEF HeadersOf

LEMMA AdmittedIsAdmit ==
    ASSUME TypeOK, TypeOK', NoncesGuarded, NEW m \in Envelopes, Admitted(m)
    PROVE  AbstractLedger!Admit(Header(m))
<1> eventLog \in Seq(MessageEnvelope) /\ eventLog' \in Seq(MessageEnvelope)
  BY DEF TypeOK, AdmissionType
<1>1. Header(m).prev = IF Headers = <<>> THEN "genesis" ELSE Headers[Len(Headers)].chain
  <2>1. m.prev = ChainTip
    BY DEF Admitted, Accept, VerifyChainLink
  <2>2. CASE eventLog = <<>>
    BY <2>1, <2>2 DEF ChainTip, Headers, HeadersOf, Header
  <2>3. CASE eventLog # <<>>
    <3>1. Len(eventLog) \in 1..Len(eventLog)
      BY <2>3, EmptySeq, LenProperties DEF TypeOK, AdmissionType
    <3>2. Headers # <<>>
      <4>1. Len(Headers) = Len(eventLog) /\ Len(eventLog) \in Nat
        BY HeadersFollowLog DEF Headers
      <4>2. Len(eventLog) # 0
        BY <3>1, <4>1
      <4> QED
        BY <4>1, <4>2
    <3>3. Headers[Len(Headers)] = Header(eventLog[Len(eventLog)])
      BY <3>1, HeadersFollowLog DEF Headers
    <3> QED
      BY <2>1, <2>3, <3>2, <3>3 DEF ChainTip, Header
  <2> QED
    BY <2>2, <2>3
<1>2. ASSUME NEW i \in DOMAIN Headers
      PROVE  ~AbstractLedger!SameMessage(Headers[i], Header(m))
  <2>1. i \in DOMAIN eventLog /\ Headers[i] = Header(eventLog[i])
    BY <1>2, HeadersFollowLog DEF Headers
  <2>2. ASSUME eventLog[i].sender = m.sender, eventLog[i].nonce = m.nonce,
               eventLog[i].created = m.created
        PROVE  FALSE
    BY <2>1, <2>2, ReplayIsLive
  <2> QED
    BY <2>1, <2>2 DEF AbstractLedger!SameMessage, Header
<1>3. Headers' = Append(Headers, Header(m))
  <2> DEFINE n == Len(eventLog)
             H == {Header(x) : x \in MessageEnvelope}
  <2>1. Headers \in Seq(H) /\ Headers' \in Seq(H) /\ Header(m) \in H
    BY HeadersFollowLog, EnvelopeAssumption DEF Headers
  <2>2. n \in Nat /\ Len(Headers) = n /\ Len(Headers') = n + 1
    BY HeadersFollowLog DEF Admitted, Grows, Headers
  <2>3. \A i \in 1..n : Headers'[i] = Headers[i]
    <3> SUFFICES ASSUME NEW i \in 1..n PROVE Headers'[i] = Headers[i]
      OBVIOUS
    <3>1. Headers[i] = Header(eventLog[i])
      BY HeadersFollowLog DEF Headers
    <3>2. i \in 1..Len(eventLog')
      BY <2>2 DEF Admitted, Grows
    <3>3. Headers'[i] = Header(eventLog'[i])
      BY <3>2, HeadersFollowLog DEF Headers
    <3> QED
      BY <3>1, <3>3, EntriesStay DEF SameEntry
  <2>4. Headers'[n + 1] = Header(m)
    <3>1. n + 1 \in 1..Len(eventLog')
      BY <2>2 DEF Admitted, Grows
    <3>2. Headers'[n + 1] = Header(eventLog'[n + 1])
      BY <3>1, HeadersFollowLog DEF Headers
    <3> QED
      BY <3>2, EntriesStay
  <2>5. /\ Append(Headers, Header(m)) \in Seq(H)
        /\ Len(Append(Headers, Header(m))) = n + 1
        /\ \A i \in 1..n : Append(Headers, Header(m))[i] = Headers[i]
        /\ Append(Headers, Header(m))[n + 1] = Header(m)
    BY <2>1, <2>2, AppendProperties
  <2>6. \A i \in 1..(n + 1) : Headers'[i] = Append(Headers, Header(m))[i]
    BY <2>2, <2>3, <2>4, <2>5
  <2> QED
    BY <2>1, <2>2, <2>5, <2>6, SeqEqual
<1> QED
  BY <1>1, <1>2, <1>3 DEF AbstractLedger!Admit, AbstractLedger!Tip, Headers, HeadersOf

\* The engine refines the abstract ledger: whatever it is fed, its log behaves
\* as an append-only chain that holds every signed message at most once.
THEOREM LogIsLedger == Spec => ImplementsLedger
<1>1. Init => AbstractLedger!Init
  BY EmptySeq DEF Init, AbstractLedger!Init
<1>2. TypeOK /\ TypeOK' /\ NoncesGuarded /\ [Next]_vars
        => [AbstractLedger!Next]_Headers
  <2> SUFFICES ASSUME TypeOK, TypeOK', NoncesGuarded, [Next]_vars
               PROVE  [AbstractLedger!Next]_Headers
    OBVIOUS
  <2>1. CASE Idle
    BY <2>1 DEF Idle, Headers, HeadersOf
  <2>2. ASSUME NEW m \in Envelopes, Admitted(m)
        PROVE  AbstractLedger!Next
    BY <2>2, AdmittedIsAdmit DEF AbstractLedger!Next
  <2> QED
    BY <2>1, <2>2, StepCases
<1>3. Init => NoncesGuarded
  BY EmptySeq DEF Init, NoncesGuarded
<1>4. TypeOK /\ TypeOK' /\ NoncesGuarded /\ [Next]_vars => NoncesGuarded'
  BY NoncesGuardedStep
<1> QED
  BY <1>1, <1>2, <1>3, <1>4, TypeCorrect, PTL
     DEF Spec, ImplementsLedger, AbstractLedger!Spec, Headers, HeadersOf
=============================================================================
