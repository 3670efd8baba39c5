------------------------------ MODULE AppState ------------------------------
(***************************************************************************)
(* The state an engine of CommonsMesh keeps, and the messages it is fed.   *)
(*                                                                         *)
(* protocol/src/types.ts    the envelope and the records of the state      *)
(* protocol/src/state.ts    the initial state                              *)
(*                                                                         *)
(* Two abstractions run through all modules of the engine.                 *)
(*                                                                         *)
(* - The network may hand the engine any member of Envelopes, in any       *)
(*   order, any number of times, or never.                                 *)
(* - The engine keeps references to the payload objects of its event log   *)
(*   (project.motion = payload, capabilities.set(id, payload), ...).  Such *)
(*   a reference is a position in eventLog, and 0 stands for undefined, so *)
(*   that a change made through a reference is a change of the log.        *)
(***************************************************************************)
EXTENDS Integers, Sequences, FiniteSets

CONSTANTS
    Users, MsgIds, Nonces, Hashes, Targets,   \* strings, by the part they play
    CapabilityIds, NodeIds, Projects, Tasks, Elections, Nullifiers,
    DisputeKeys,         \* keys of the disputes map, a tuple for a composed one
    Envelopes,           \* what senders have signed, and the network may deliver
    MaxClockSkew,        \* MAX_CLOCK_SKEW_SEC
    NonceTTL,            \* NONCE_TTL_SEC
    MaxNow               \* bound of the clock

VARIABLES
    now,                 \* Math.floor(Date.now() / 1000)
    eventLog, nonceCache, nodes, edges, projects, elections, disputes,
    capabilities, trust, capabilityUsage, revokedCapabilities

graphVars == <<nodes, edges>>
vars == <<now, eventLog, nonceCache, nodes, edges, projects, elections, disputes,
          capabilities, trust, capabilityUsage, revokedCapabilities>>

-----------------------------------------------------------------------------
(* Messages.                                                               *)

HighImpactKinds ==
    {"project.motion", "election.motion", "capability.grant", "capability.revoke"}

\* Handled at the transport layer: the engine only logs them.
TransportKinds == {"ack", "sync.request", "sync.snapshot"}

AllowedKinds ==
    HighImpactKinds \union TransportKinds \union
    {"graph.delta", "project.intent", "project.update", "task.propose",
     "task.assign", "task.commit", "task.deliver", "election.vote",
     "dispute.report", "dispute.response"}

Rights == {"write", "propose", "comment", "assign", "vote", "grant", "revoke",
           "report", "read", "*"}

EdgeTypes == {"offers", "needs", "participates_in", "proposed_by", "assigned_to",
              "voted_for", "trusts", "verified_by", "depends_on", "supports",
              "conflicts_with", "supersedes", "endorsed_by", "located_in", "member_of"}

ProjectStatus == {"draft", "recruiting", "assigned", "active", "blocked",
                  "completed", "archived"}

\* A token that is not there (null) is one whose signature does not verify.
Token == [id : CapabilityIds, signed : BOOLEAN,
          from : Nat, to : Nat, expires : Nat, max : Nat,
          rights : SUBSET Rights,
          project : Targets \union {"unset"}, topic : Targets \union {"unset"},
          object : Targets \union {"unset"}]

Edge == [from : NodeIds, type : EdgeTypes, to : NodeIds]

\* A payload without an edge.  add_edge stores even that.
NoEdge == [from |-> "undefined", type |-> "undefined", to |-> "undefined"]

GraphPayload ==
    [op : {"upsert_node", "patch_node", "delete_node", "add_edge", "remove_edge", "other"},
     node : NodeIds, edge : Edge \union {NoEdge}]
MotionPayload == [motion_id : Projects \union {"unset"}]
ProjectPayload == [project_id : Projects]
UpdatePayload == [project_id : Projects, status : ProjectStatus \union {"unset"},
                  progress : BOOLEAN, changes : BOOLEAN]  \* present and well typed?
TaskPayload == [project_id : Projects, task_id : Tasks]
AssignPayload == [project_id : Projects, task_id : Tasks, assignee : NodeIds]
CommitPayload == [project_id : Projects, task_id : Tasks, accepted : BOOLEAN]
BallotPayload == [election_id : Elections]
VotePayload == [election_id : Elections, choice : NodeIds, nullifier : Nullifiers]
GrantPayload == [capability_id : CapabilityIds, constrained : BOOLEAN, expires_at : Nat]
RevokePayload == [capability_id : CapabilityIds]
ReportPayload == [dispute_id : DisputeKeys \union {<<>>}, project_id : Projects,
                  subject : NodeIds, accused : Users \union {"unset"}]
ResponsePayload == [dispute_id : DisputeKeys \union {<<>>}, project_id : Projects,
                    subject : NodeIds]
OpaquePayload == [body : {"opaque"}]

\* The envelopes of some kinds, with the payload these kinds carry.  `formed`
\* stands for the presence and the types of the remaining fields, `signed` for
\* a signature that verifies, and a payload for its own (injective) hash.
EnvelopeOf(kinds, Payload) ==
    [formed : BOOLEAN, id : MsgIds, kind : kinds, created : Nat, sender : Users,
     token : Token, target : Targets, from : Nat, to : Nat, nonce : Nonces,
     prev : Hashes, chain : Hashes, signed : BOOLEAN,
     payload : Payload, payloadHash : Payload]

MessageEnvelope ==
           EnvelopeOf({"graph.delta"}, GraphPayload)
    \union EnvelopeOf({"project.motion"}, MotionPayload)
    \union EnvelopeOf({"project.intent"}, ProjectPayload)
    \union EnvelopeOf({"project.update"}, UpdatePayload)
    \union EnvelopeOf({"task.propose", "task.deliver"}, TaskPayload)
    \union EnvelopeOf({"task.assign"}, AssignPayload)
    \union EnvelopeOf({"task.commit"}, CommitPayload)
    \union EnvelopeOf({"election.motion"}, BallotPayload)
    \union EnvelopeOf({"election.vote"}, VotePayload)
    \union EnvelopeOf({"capability.grant"}, GrantPayload)
    \union EnvelopeOf({"capability.revoke"}, RevokePayload)
    \union EnvelopeOf({"dispute.report"}, ReportPayload)
    \union EnvelopeOf({"dispute.response"}, ResponsePayload)
    \union EnvelopeOf(TransportKinds \union {"unknown"}, OpaquePayload)

ASSUME ClockAssumption ==
    MaxClockSkew \in Nat /\ NonceTTL \in Nat /\ MaxNow \in Nat \ {0}

\* A nonce outlives the window in which its message may be admitted: the code
\* has 86400 >= 2 * 300.
ASSUME RetentionAssumption == NonceTTL >= 2 * MaxClockSkew

ASSUME EnvelopeAssumption == Envelopes \subseteq MessageEnvelope

\* Projects, elections, tasks, users and candidates are also node ids, a motion
\* without motion_id names its project after its message, and a key that is
\* composed of a project, a subject and a message is a dispute key.
ASSUME NameAssumption ==
    /\ Projects \union Elections \union Tasks \union Users \subseteq NodeIds
    /\ \A m \in Envelopes :
         m.kind = "project.motion" /\ m.payload.motion_id = "unset" => m.id \in Projects
    /\ Projects \X NodeIds \X MsgIds \subseteq DisputeKeys
    /\ "genesis" \in Hashes
    /\ "unset" \notin Projects \union Users \union Targets

-----------------------------------------------------------------------------
(* The records of the state.                                               *)

StoredEdge == [from : NodeIds \union {"undefined"}, type : EdgeTypes \union {"undefined"},
               to : NodeIds \union {"undefined"}, attrs : Nat]

TaskRecord == [status : {"absent", "proposed", "assigned", "committed", "delivered"},
               proposal : Nat, assignment : Nat, commitment : Nat, delivery : Nat]
NoTask == [status |-> "absent", proposal |-> 0, assignment |-> 0,
           commitment |-> 0, delivery |-> 0]

ProjectRecord == [status : ProjectStatus \union {"absent"}, motion : Nat,
                  intents : [Users -> Nat], tasks : [Tasks -> TaskRecord],
                  progress : Nat, updates : Seq(Nat)]
NoProject == [status |-> "absent", motion |-> 0, intents |-> [u \in Users |-> 0],
              tasks |-> [t \in Tasks |-> NoTask], progress |-> 0, updates |-> <<>>]

ElectionRecord == [status : {"absent", "proposed", "open", "voting"}, motion : Nat,
                   votes : [Users -> Nat], nullifiers : SUBSET Nullifiers]
NoElection == [status |-> "absent", motion |-> 0, votes |-> [u \in Users |-> 0],
               nullifiers |-> {}]

DisputeRecord == [key : DisputeKeys, report : Nat, responses : Seq(Nat),
                  status : {"open", "under_review"}]

Init ==
    /\ now = 1
    /\ eventLog = <<>>
    /\ nonceCache = [u \in Users |-> {}]
    /\ nodes = [n \in NodeIds |-> 0]
    /\ edges = {}
    /\ projects = [p \in Projects |-> NoProject]
    /\ elections = [e \in Elections |-> NoElection]
    /\ disputes = {}
    /\ capabilities = [c \in CapabilityIds |-> 0]
    /\ trust = [u \in Users |-> 0]
    /\ capabilityUsage = [c \in CapabilityIds |-> 0]
    /\ revokedCapabilities = {}

AdmissionType ==
    /\ now \in 1..MaxNow
    /\ eventLog \in Seq(MessageEnvelope)
    /\ nonceCache \in [Users -> SUBSET [nonce : Nonces, at : Nat]]
    /\ capabilityUsage \in [CapabilityIds -> Nat]
    /\ revokedCapabilities \subseteq CapabilityIds

GraphType ==
    /\ nodes \in [NodeIds -> Nat]
    /\ edges \subseteq StoredEdge

RecordsType ==
    /\ projects \in [Projects -> ProjectRecord]
    /\ elections \in [Elections -> ElectionRecord]
    /\ disputes \subseteq DisputeRecord
    /\ trust \in [Users -> -100..100]

\* A reference to a granted token leads to a grant in the log.
GrantsStored ==
    /\ capabilities \in [CapabilityIds -> Nat]
    /\ \A c \in CapabilityIds :
         capabilities[c] # 0 => /\ capabilities[c] \in 1..Len(eventLog)
                                /\ eventLog[capabilities[c]].kind = "capability.grant"

\* Every variable has its type, and what capability.revoke writes through
\* (engine.ts:308) is a stored grant and nothing else.
TypeOK == AdmissionType /\ GraphType /\ RecordsType /\ GrantsStored
=============================================================================
