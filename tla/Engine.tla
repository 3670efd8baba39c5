-------------------------------- MODULE Engine --------------------------------
(***************************************************************************)
(* The state-transition engine (protocol/src/engine.ts): process(msg)      *)
(* validates, appends to the log and materialises.  One action per kind of *)
(* message; the ways a message is refused are in Validator.                *)
(***************************************************************************)
EXTENDS Validator

At == Len(eventLog) + 1      \* the position the message takes in the log

AppendEvent(m) == eventLog' = Append(eventLog, m)

Clamp(score) == IF score > 100 THEN 100 ELSE IF score < -100 THEN -100 ELSE score

\* In hundredths of the code's score.
BumpTrust(u, delta) == trust' = [trust EXCEPT ![u] = Clamp(@ + delta)]

EnsureNode(n) == nodes' = [nodes EXCEPT ![n] = At]

\* The key of an edge is (from, type, to): a second edge replaces the first.
WithoutEdge(from, type, to) ==
    {e \in edges : ~(e.from = from /\ e.type = type /\ e.to = to)}

\* Mutant: an edge that exists is left as it is.
AddEdgeIfAbsent(from, type, to) ==
    edges' = IF WithoutEdge(from, type, to) # edges THEN edges
             ELSE edges \union {[from |-> from, type |-> type, to |-> to, attrs |-> At]}

AddEdge(from, type, to) ==
    edges' = WithoutEdge(from, type, to) \union
             {[from |-> from, type |-> type, to |-> to, attrs |-> At]}

\* Mutant: the record is created anew each time.
RecreateProject(p) == [NoProject EXCEPT !.status = "draft"]

EnsureProject(p) ==
    IF projects[p].status = "absent" THEN [projects[p] EXCEPT !.status = "draft"]
                                     ELSE projects[p]

SetProject(p, record) == projects' = [projects EXCEPT ![p] = record]

\* ensureProject, ensureTask, then the assignments of the handler.
SetTask(p, t, task) == SetProject(p, [EnsureProject(p) EXCEPT !.tasks[t] = task])

\* Mutant: the record is created anew each time.
RecreateElection(e) == [NoElection EXCEPT !.status = "proposed"]

EnsureElection(e) ==
    IF elections[e].status = "absent" THEN [elections[e] EXCEPT !.status = "proposed"]
                                      ELSE elections[e]

-----------------------------------------------------------------------------
(* The handlers of applyMessage.                                           *)

GraphDelta(m) ==
    /\ m.kind = "graph.delta"
    /\ Accept(m) /\ AppendEvent(m)
    /\ \/ /\ m.payload.op \in {"upsert_node", "patch_node"}
          /\ EnsureNode(m.payload.node)
          /\ UNCHANGED edges
       \/ /\ m.payload.op = "delete_node"      \* its edges stay
          /\ nodes' = [nodes EXCEPT ![m.payload.node] = 0]
          /\ UNCHANGED edges
       \/ /\ m.payload.op = "add_edge"
          /\ AddEdge(m.payload.edge.from, m.payload.edge.type, m.payload.edge.to)
          /\ UNCHANGED nodes
       \/ /\ m.payload.op = "remove_edge" /\ m.payload.edge # NoEdge
          /\ edges' = WithoutEdge(m.payload.edge.from, m.payload.edge.type,
                                  m.payload.edge.to)
          /\ UNCHANGED nodes
       \/ m.payload.op = "other" /\ UNCHANGED graphVars
    /\ BumpTrust(m.sender, 1)
    /\ UNCHANGED <<now, projects, elections, disputes, capabilities, revokedCapabilities>>

\* remove_edge without an edge throws: the message is in the log, and the trust
\* of its sender does not move.
GraphDeltaThrows(m) ==
    /\ m.kind = "graph.delta" /\ m.payload.op = "remove_edge" /\ m.payload.edge = NoEdge
    /\ Accept(m) /\ AppendEvent(m)
    /\ UNCHANGED <<now, graphVars, projects, elections, disputes, capabilities, trust,
                   revokedCapabilities>>

MotionProject(m) == IF m.payload.motion_id = "unset" THEN m.id ELSE m.payload.motion_id

ProjectMotion(m) ==
    /\ m.kind = "project.motion"
    /\ Accept(m) /\ AppendEvent(m)
    /\ SetProject(MotionProject(m),
                  [EnsureProject(MotionProject(m)) EXCEPT
                     !.motion = At, !.status = "recruiting", !.updates = Append(@, At)])
    /\ EnsureNode(MotionProject(m))
    /\ BumpTrust(m.sender, 5)
    /\ UNCHANGED <<now, edges, elections, disputes, capabilities, revokedCapabilities>>

\* Mutant: an intent does not start the recruiting.
ProjectIntentStaysDraft(m) ==
    /\ m.kind = "project.intent"
    /\ Accept(m) /\ AppendEvent(m)
    /\ LET p == m.payload.project_id
       IN /\ SetProject(p, [EnsureProject(p) EXCEPT !.intents[m.sender] = At])
          /\ AddEdge(m.sender, "participates_in", p)
    /\ BumpTrust(m.sender, 2)
    /\ UNCHANGED <<now, nodes, elections, disputes, capabilities, revokedCapabilities>>

ProjectIntent(m) ==
    /\ m.kind = "project.intent"
    /\ Accept(m) /\ AppendEvent(m)
    /\ LET p == m.payload.project_id
       IN /\ SetProject(p, [EnsureProject(p) EXCEPT
                              !.intents[m.sender] = At,
                              !.status = IF @ = "draft" THEN "recruiting" ELSE @])
          /\ AddEdge(m.sender, "participates_in", p)
    /\ BumpTrust(m.sender, 2)
    /\ UNCHANGED <<now, nodes, elections, disputes, capabilities, revokedCapabilities>>

ProjectUpdate(m) ==
    /\ m.kind = "project.update"
    /\ Accept(m) /\ AppendEvent(m)
    /\ LET p == m.payload.project_id
       IN SetProject(p, [EnsureProject(p) EXCEPT
            !.status = IF m.payload.status = "unset" THEN @ ELSE m.payload.status,
            !.progress = IF m.payload.progress THEN At ELSE @,
            !.updates = IF m.payload.changes THEN Append(@, At) ELSE @])
    /\ UNCHANGED <<now, graphVars, elections, disputes, capabilities, trust,
                   revokedCapabilities>>

TaskPropose(m) ==
    /\ m.kind = "task.propose"
    /\ Accept(m) /\ AppendEvent(m)
    /\ LET p == m.payload.project_id
           t == m.payload.task_id
       IN /\ SetTask(p, t, [projects[p].tasks[t] EXCEPT !.proposal = At,
                                                        !.status = "proposed"])
          /\ AddEdge(t, "depends_on", p)
    /\ UNCHANGED <<now, nodes, elections, disputes, capabilities, trust,
                   revokedCapabilities>>

TaskAssign(m) ==
    /\ m.kind = "task.assign"
    /\ Accept(m) /\ AppendEvent(m)
    /\ LET p == m.payload.project_id
           t == m.payload.task_id
       IN /\ SetTask(p, t, [projects[p].tasks[t] EXCEPT !.assignment = At,
                                                        !.status = "assigned"])
          /\ AddEdge(m.payload.assignee, "assigned_to", t)
    /\ UNCHANGED <<now, nodes, elections, disputes, capabilities, trust,
                   revokedCapabilities>>

TaskCommit(m) ==
    /\ m.kind = "task.commit"
    /\ Accept(m) /\ AppendEvent(m)
    /\ LET p == m.payload.project_id
           t == m.payload.task_id
       IN SetTask(p, t, [projects[p].tasks[t] EXCEPT
            !.commitment = At,
            !.status = IF m.payload.accepted THEN "committed" ELSE "assigned"])
    /\ BumpTrust(m.sender, IF m.payload.accepted THEN 3 ELSE 0)
    /\ UNCHANGED <<now, graphVars, elections, disputes, capabilities, revokedCapabilities>>

TaskDeliver(m) ==
    /\ m.kind = "task.deliver"
    /\ Accept(m) /\ AppendEvent(m)
    /\ LET p == m.payload.project_id
           t == m.payload.task_id
       IN SetProject(p, [EnsureProject(p) EXCEPT
            !.tasks[t] = [projects[p].tasks[t] EXCEPT !.delivery = At, !.status = "delivered"],
            !.updates = Append(@, At)])
    /\ BumpTrust(m.sender, 10)
    /\ UNCHANGED <<now, graphVars, elections, disputes, capabilities, revokedCapabilities>>

ElectionMotion(m) ==
    /\ m.kind = "election.motion"
    /\ Accept(m) /\ AppendEvent(m)
    /\ LET e == m.payload.election_id
       IN /\ elections' = [elections EXCEPT ![e] =
                             [EnsureElection(e) EXCEPT !.motion = At, !.status = "open"]]
          /\ EnsureNode(e)
    /\ UNCHANGED <<now, edges, projects, disputes, capabilities, trust, revokedCapabilities>>

\* Mutant: nobody looks whether the nullifier is spent.
ElectionVoteUnchecked(m) ==
    /\ m.kind = "election.vote"
    /\ Accept(m) /\ AppendEvent(m)
    /\ LET e == m.payload.election_id
       IN /\ elections' = [elections EXCEPT ![e] =
                                [elections[e] EXCEPT !.nullifiers = @ \union {m.payload.nullifier},
                                  !.votes[m.sender] = At, !.status = "voting"]]
          /\ AddEdge(m.sender, "voted_for", m.payload.choice)
          /\ BumpTrust(m.sender, 1)
    /\ UNCHANGED <<now, nodes, projects, disputes, capabilities, revokedCapabilities>>

\* Mutant: the first vote of a user is final.
ElectionVoteOnce(m) ==
    /\ m.kind = "election.vote"
    /\ Accept(m) /\ AppendEvent(m)
    /\ LET e == m.payload.election_id
       IN \/ /\ \/ m.payload.nullifier \in elections[e].nullifiers
                \/ elections[e].votes[m.sender] # 0
             /\ UNCHANGED <<elections, edges, trust>>
          \/ /\ m.payload.nullifier \notin elections[e].nullifiers
             /\ elections[e].votes[m.sender] = 0
             /\ elections' = [elections EXCEPT ![e] =
                                [elections[e] EXCEPT !.nullifiers = @ \union {m.payload.nullifier},
                                  !.votes[m.sender] = At, !.status = "voting"]]
             /\ AddEdge(m.sender, "voted_for", m.payload.choice)
             /\ BumpTrust(m.sender, 1)
    /\ UNCHANGED <<now, nodes, projects, disputes, capabilities, revokedCapabilities>>

ElectionVote(m) ==
    /\ m.kind = "election.vote"
    /\ Accept(m) /\ AppendEvent(m)
    /\ LET e == m.payload.election_id
       IN \/ /\ m.payload.nullifier \in elections[e].nullifiers
             /\ UNCHANGED <<elections, edges, trust>>
          \/ /\ m.payload.nullifier \notin elections[e].nullifiers
             /\ elections' = [elections EXCEPT ![e] =
                                [elections[e] EXCEPT !.nullifiers = @ \union {m.payload.nullifier},
                                  !.votes[m.sender] = At, !.status = "voting"]]
             /\ AddEdge(m.sender, "voted_for", m.payload.choice)
             /\ BumpTrust(m.sender, 1)
    /\ UNCHANGED <<now, nodes, projects, disputes, capabilities, revokedCapabilities>>

\* Mutant: the stored reference leads to the event before the grant.
CapabilityGrantBefore(m) ==
    /\ m.kind = "capability.grant"
    /\ Accept(m) /\ AppendEvent(m)
    /\ capabilities' = [capabilities EXCEPT ![m.payload.capability_id] = Len(eventLog)]
    /\ UNCHANGED <<now, graphVars, projects, elections, disputes, trust,
                   revokedCapabilities>>

\* The payload itself is stored, not a copy of it.
CapabilityGrant(m) ==
    /\ m.kind = "capability.grant"
    /\ Accept(m) /\ AppendEvent(m)
    /\ capabilities' = [capabilities EXCEPT ![m.payload.capability_id] = At]
    /\ UNCHANGED <<now, graphVars, projects, elections, disputes, trust,
                   revokedCapabilities>>

\* The stored token is expired in place, in the object the log holds too.  A
\* stored token without constraints makes the handler throw there, after the id
\* has been added to the revoked ones.
Expire(log, c) ==
    IF capabilities[c] # 0 /\ log[capabilities[c]].payload.constrained
    THEN [log EXCEPT ![capabilities[c]].payload.expires_at = now - 1]
    ELSE log

\* Mutant: only a capability whose grant has been seen is revoked.
CapabilityRevokeKnown(m) ==
    /\ m.kind = "capability.revoke"
    /\ Accept(m)
    /\ eventLog' = Expire(Append(eventLog, m), m.payload.capability_id)
    /\ revokedCapabilities' = revokedCapabilities \union
         {c \in {m.payload.capability_id} : capabilities[c] # 0}
    /\ UNCHANGED <<now, graphVars, projects, elections, disputes, capabilities, trust>>

CapabilityRevoke(m) ==
    /\ m.kind = "capability.revoke"
    /\ Accept(m)
    /\ eventLog' = Expire(Append(eventLog, m), m.payload.capability_id)
    /\ revokedCapabilities' = revokedCapabilities \union {m.payload.capability_id}
    /\ UNCHANGED <<now, graphVars, projects, elections, disputes, capabilities, trust>>

ReportKey(m) ==
    IF m.payload.dispute_id = <<>>
    THEN <<m.payload.project_id, m.payload.subject, m.id>>
    ELSE m.payload.dispute_id

ResponseKey(m) ==
    IF m.payload.dispute_id = <<>>
    THEN <<m.payload.project_id, m.payload.subject>>
    ELSE m.payload.dispute_id

\* Mutant: a report of a known dispute is dropped.
DisputeReportIfNew(m) ==
    /\ m.kind = "dispute.report"
    /\ Accept(m) /\ AppendEvent(m)
    /\ disputes' = IF \E d \in disputes : d.key = ReportKey(m) THEN disputes
                   ELSE disputes \union {[key |-> ReportKey(m), report |-> At,
                                          responses |-> <<>>, status |-> "open"]}
    /\ IF m.payload.accused \in Users THEN BumpTrust(m.payload.accused, -5)
                                      ELSE UNCHANGED trust
    /\ UNCHANGED <<now, graphVars, projects, elections, capabilities, revokedCapabilities>>

DisputeReport(m) ==
    /\ m.kind = "dispute.report"
    /\ Accept(m) /\ AppendEvent(m)
    /\ disputes' = {d \in disputes : d.key # ReportKey(m)} \union
                   {[key |-> ReportKey(m), report |-> At, responses |-> <<>>,
                     status |-> "open"]}
    /\ IF m.payload.accused \in Users THEN BumpTrust(m.payload.accused, -5)
                                      ELSE UNCHANGED trust
    /\ UNCHANGED <<now, graphVars, projects, elections, capabilities, revokedCapabilities>>

\* A response that matches no dispute is logged and does nothing else.
DisputeResponse(m) ==
    /\ m.kind = "dispute.response"
    /\ Accept(m) /\ AppendEvent(m)
    /\ disputes' = {IF d.key = ResponseKey(m)
                    THEN [d EXCEPT !.responses = Append(@, At), !.status = "under_review"]
                    ELSE d : d \in disputes}
    /\ UNCHANGED <<now, graphVars, projects, elections, capabilities, trust,
                   revokedCapabilities>>

TransportMessage(m) ==
    /\ m.kind \in TransportKinds
    /\ Accept(m) /\ AppendEvent(m)
    /\ UNCHANGED <<now, graphVars, projects, elections, disputes, capabilities, trust,
                   revokedCapabilities>>

-----------------------------------------------------------------------------

\* Time passes, up to the bound of the model.
Tick ==
    /\ now < MaxNow
    /\ now' = now + 1
    /\ UNCHANGED <<eventLog, nonceCache, graphVars, projects, elections, disputes,
                   capabilities, trust, capabilityUsage, revokedCapabilities>>

Process(m) ==
    \/ RefuseUnchecked(m) \/ RefuseReplay(m) \/ RefuseAfterNonce(m)
    \/ GraphDelta(m) \/ GraphDeltaThrows(m)
    \/ ProjectMotion(m) \/ ProjectIntent(m) \/ ProjectUpdate(m)
    \/ TaskPropose(m) \/ TaskAssign(m) \/ TaskCommit(m) \/ TaskDeliver(m)
    \/ ElectionMotion(m) \/ ElectionVote(m)
    \/ CapabilityGrant(m) \/ CapabilityRevoke(m)
    \/ DisputeReport(m) \/ DisputeResponse(m)
    \/ TransportMessage(m)

Next == Tick \/ \E m \in Envelopes : Process(m)

Spec == Init /\ [][Next]_vars
=============================================================================
