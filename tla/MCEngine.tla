------------------------------- MODULE MCEngine -------------------------------
(***************************************************************************)
(* Small instances of the engine.  A run is a set of message templates;    *)
(* Linked gives every template each predecessor it could be signed with,   *)
(* so that the messages can be admitted in any order.                      *)
(***************************************************************************)
EXTENDS EngineProperties

MCMsgIds == {m.id : m \in Envelopes}
MCNonces == {m.nonce : m \in Envelopes}
MCHashes == {m.prev : m \in Envelopes} \union {m.chain : m \in Envelopes} \union {"genesis"}
MCNodeIds == Projects \union Elections \union Tasks \union Users \union {"c1", "c2", "n1"}
MCDisputeKeys ==
    Projects \X NodeIds \X MsgIds \union {<<"d1">>} \union Projects \X NodeIds

-----------------------------------------------------------------------------
(* Building templates.                                                     *)

Forever == MaxNow + 10

AnyToken == [id |-> "root", signed |-> TRUE, from |-> 0, to |-> Forever,
             expires |-> Forever, max |-> 0, rights |-> {"*"},
             project |-> "unset", topic |-> "unset", object |-> "unset"]

\* A message that is created at time 1 and may be admitted as long as the clock
\* skew allows.
Msg(id, kind, sender, payload) ==
    [formed |-> TRUE, id |-> id, kind |-> kind, created |-> 1, sender |-> sender,
     token |-> AnyToken, target |-> "x", from |-> 0, to |-> Forever, nonce |-> id,
     prev |-> "genesis", chain |-> id, signed |-> TRUE,
     payload |-> payload, payloadHash |-> payload]

\* Every template, with every predecessor it could have among them.
Linked(templates) ==
    {[m EXCEPT !.prev = p] : m \in templates,
                             p \in {"genesis"} \union {m.chain : m \in templates}}

\* A scene is a sequence of templates for u1 and one for u2, of which each gets
\* the nonce of its place.  Scenes that are put together share their nonces but
\* not their predecessors, so that a log tells one of them.
Scene(ofU1, ofU2) ==
    LET By(seq, u) == {[seq[i] EXCEPT !.sender = u, !.nonce = i] : i \in DOMAIN seq}
    IN By(ofU1, "u1") \union By(ofU2, "u2")

Opaque == [body |-> "opaque"]
Node(op, n) == [op |-> op, node |-> n, edge |-> NoEdge]
EdgeDelta(op, from, type, to) ==
    [op |-> op, node |-> "n1", edge |-> [from |-> from, type |-> type, to |-> to]]
Work(t) == [project_id |-> "p1", task_id |-> t]

-----------------------------------------------------------------------------
(* Admission: the clock runs through several windows and TTLs, a user      *)
(* spends a nonce again later, and some messages must be refused.          *)

AdmissionEnvelopes ==
    LET early == [Msg("m1", "ack", "u1", Opaque) EXCEPT !.created = 2, !.nonce = "n"]
        again == [Msg("m2", "sync.request", "u1", Opaque) EXCEPT !.created = 6, !.nonce = "n"]
        late == [Msg("m3", "graph.delta", "u1", Node("other", "n1")) EXCEPT !.created = 4, !.to = 4]
        last == [Msg("m5", "graph.delta", "u2", Node("delete_node", "n1"))
                   EXCEPT !.created = 4, !.prev = "m3"]
        other == [Msg("m4", "sync.snapshot", "u2", Opaque) EXCEPT !.created = 3, !.nonce = "n"]
    IN Linked({early, again, late, other}) \union
       {last, [early EXCEPT !.signed = FALSE], [early EXCEPT !.created = 0],
        [other EXCEPT !.kind = "unknown"]}

-----------------------------------------------------------------------------
(* Capabilities: two tokens carry the id c1, one for a single event and    *)
(* one for two; c2 expires, and one of its grants has no constraints.  u1  *)
(* earns the standing to grant and to revoke.  A delta that uses c1        *)
(* throws, and so does the revocation of the grant without constraints.    *)

Once == [AnyToken EXCEPT !.id = "c1", !.max = 1, !.topic = "x", !.project = "y",
                         !.object = "y", !.rights = {"write", "comment"}]
Twice == [Once EXCEPT !.max = 2]
Timed == [AnyToken EXCEPT !.id = "c2", !.max = 2, !.expires = 1]
Grant(c, yes) == [capability_id |-> c, constrained |-> yes, expires_at |-> Forever]

CapabilityEnvelopes ==
    Linked({Msg("deliver", "task.deliver", "u1", Work("t1")),
            [Msg("grant1", "capability.grant", "u1", Grant("c1", TRUE)) EXCEPT !.token = Timed],
            Msg("grant2", "capability.grant", "u1", Grant("c1", FALSE)),
            Msg("revoke", "capability.revoke", "u1", [capability_id |-> "c1"]),
            [Msg("use1", "graph.delta", "u2", Node("patch_node", "n1")) EXCEPT !.token = Once],
            [Msg("use2", "graph.delta", "u2", Node("remove_edge", "n1")) EXCEPT !.token = Twice],
            [Msg("use3", "project.motion", "u1", [motion_id |-> "unset"]) EXCEPT !.token = Timed]})

-----------------------------------------------------------------------------
(* Work: a project that is joined, left, moved and updated, and tasks that *)
(* are proposed, assigned, committed to and delivered, in every order.     *)

Update(id, status) == Msg(id, "project.update", "u2",
    [project_id |-> "p1", status |-> status, progress |-> TRUE, changes |-> TRUE])

ProjectScene ==
    Scene(<<Msg("deliver", "task.deliver", "u1", Work("t1")),
            Msg("motion", "project.motion", "u1", [motion_id |-> "p1"])>>,
          <<Msg("intent", "project.intent", "u2", [project_id |-> "p1"]),
            Update("back", "draft"),
            Msg("leave", "graph.delta", "u2", EdgeDelta("remove_edge", "u2", "participates_in", "p1")),
            Msg("offer", "graph.delta", "u2", EdgeDelta("add_edge", "u2", "participates_in", "p1"))>>)

TaskScene ==
    LET Commit(id, yes) == Msg(id, "task.commit", "u1",
                               [project_id |-> "p1", task_id |-> "t1", accepted |-> yes])
    IN Scene(<<Msg("propose", "task.propose", "u1", Work("t1")),
               Msg("assign", "task.assign", "u1",
                   [project_id |-> "p1", task_id |-> "t1", assignee |-> "u2"]),
               Commit("reject", FALSE)>>,
             <<Commit("accept", TRUE), Update("progress", "unset"),
               Msg("done", "task.deliver", "u2", Work("t1")),
               Msg("other", "task.deliver", "u2", Work("t2"))>>)

WorkEnvelopes == Linked(ProjectScene) \union Linked(TaskScene)

-----------------------------------------------------------------------------
(* Governance: an election whose voters change their minds and spend each  *)
(* other's nullifiers, begun when u1 is one hundredth short of the         *)
(* standing for the motion; and disputes with every form of key.           *)

ElectionEnvelopes ==
    LET Commit(id) == Msg(id, "task.commit", "u1",
                          [project_id |-> "p1", task_id |-> "t1", accepted |-> TRUE])
        Vote(id, c, k) == Msg(id, "election.vote", "u1",
                              [election_id |-> "e1", choice |-> c, nullifier |-> k])
        begun == <<"genesis", "yes1", "yes2">>
        scene == Scene(<<Commit("yes1"), Commit("yes2"), Commit("yes3"), Vote("vote1", "c1", "k1"),
                         Vote("vote3", "c1", "k2"),
                         Msg("ballot", "election.motion", "u1", [election_id |-> "e1"])>>,
                       <<Vote("vote2", "c1", "k1"), Vote("vote4", "c2", "k3")>>)
        opening == {m \in scene : m.kind = "task.commit"}
        free == scene \ opening
    IN {[m EXCEPT !.prev = begun[m.nonce]] : m \in opening} \union
       {[m EXCEPT !.prev = p] : m \in free, p \in {"yes3"} \union {m.chain : m \in free}}

DisputeEnvelopes ==
    LET Report(id, d, u) == Msg(id, "dispute.report", "u1",
                                [dispute_id |-> d, project_id |-> "p1", subject |-> "n1",
                                 accused |-> u])
        Response(id, d) == Msg(id, "dispute.response", "u2",
                               [dispute_id |-> d, project_id |-> "p1", subject |-> "n1"])
    IN Linked(Scene(<<Report("report1", <<"d1">>, "u2"), Report("report2", <<"d1">>, "u2"),
                      Report("report3", <<>>, "unset"), Response("response1", <<"d1">>)>>,
                    <<Response("response2", <<"d1">>), Response("response3", <<>>)>>))

GovernanceEnvelopes == ElectionEnvelopes \union DisputeEnvelopes

-----------------------------------------------------------------------------
(* Three messages that follow each other, each with a nonce of its own.    *)

ChainEnvelopes ==
    {Msg("m1", "ack", "u1", Opaque),
     [Msg("m2", "ack", "u2", Opaque) EXCEPT !.prev = "m1"],
     [Msg("m3", "ack", "u1", Opaque) EXCEPT !.prev = "m2"]}
=============================================================================
