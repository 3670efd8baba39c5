--------------------------- MODULE EngineProperties ---------------------------
(***************************************************************************)
(* What must be true of an engine, whatever it is fed.                     *)
(***************************************************************************)
EXTENDS Engine, SequencesExt

Kind(i) == eventLog[i].kind

\* The last position of a set of positions, and 0 if there is none.
Latest(S) == IF S = {} THEN 0 ELSE CHOOSE i \in S : \A j \in S : j <= i

Positions(Test(_)) == {i \in DOMAIN eventLog : Test(i)}

-----------------------------------------------------------------------------
(* Admission to the log.                                                   *)

\* README.md "Strict linear chain_hash chain": every event names the event
\* before it, the first one the genesis (verifyChainLink).
ChainLinked ==
    \A i \in DOMAIN eventLog :
      eventLog[i].prev = IF i = 1 THEN "genesis" ELSE eventLog[i - 1].chain

\* SECURITY.md "Prevent replay of old messages": no message is admitted twice,
\* although nonces are forgotten after their TTL, because by then the message is
\* outside the clock-skew window (isReplay together with verifyTemporalWindow).
NoReplay ==
    \A i, j \in DOMAIN eventLog :
      /\ eventLog[i].sender = eventLog[j].sender
      /\ eventLog[i].nonce = eventLog[j].nonce
      /\ eventLog[i].created = eventLog[j].created
      => i = j

\* Why forgetting is safe: as long as a logged message could pass the skew check
\* again, its nonce is in the cache, and young enough to stay there until the
\* message no longer can.
Guarded(e) ==
    \/ now > e.created + MaxClockSkew
    \/ \E n \in nonceCache[e.sender] :
         n.nonce = e.nonce /\ n.at >= e.created - MaxClockSkew

NoncesGuarded == \A i \in DOMAIN eventLog : Guarded(eventLog[i])

\* README.md "max_count enforcement": the events admitted under one capability
\* never outnumber the max_count of the token the last of them was sent with
\* (verifyCapabilityToken together with recordCapabilityUsage).
WithinMaxCount ==
    \A i \in DOMAIN eventLog :
      eventLog[i].token.max > 0 =>
        Cardinality({j \in 1..i : eventLog[j].token.id = eventLog[i].token.id})
          <= eventLog[i].token.max

\* README.md "Instant revocation": once a revocation is in the log, no event
\* that follows it uses the capability, and a later grant of the same id does
\* not bring it back.
RevocationHonoured ==
    \A i, j \in DOMAIN eventLog :
      i < j /\ Kind(i) = "capability.revoke" =>
        eventLog[j].token.id # eventLog[i].payload.capability_id

\* A vote counts if no earlier vote in the election spent its nullifier.
Counts(i) ==
    /\ Kind(i) = "election.vote"
    /\ \A j \in 1..(i - 1) :
         Kind(j) = "election.vote" /\ eventLog[j].payload.election_id = eventLog[i].payload.election_id
           => eventLog[j].payload.nullifier # eventLog[i].payload.nullifier

\* What an event may have earned its sender, in hundredths.
Worth(i) ==
    CASE Kind(i) = "graph.delta" -> 1
      [] Kind(i) = "project.motion" -> 5
      [] Kind(i) = "project.intent" -> 2
      [] Kind(i) = "task.commit" /\ eventLog[i].payload.accepted -> 3
      [] Kind(i) = "task.deliver" -> 10
      [] Counts(i) -> 1
      [] OTHER -> 0

Total(numbers) == FoldLeft(LAMBDA a, b : a + b, 0, numbers)

\* What user u may have earned with the first n events.
Earned(u, n) == Total([j \in 1..n |-> IF eventLog[j].sender = u THEN Worth(j) ELSE 0])

\* README.md "high-impact actions require score >= 0.1": whoever gets a motion, a
\* grant or a revocation into the log has earned that much with events that
\* precede it there.  Rejected commitments and votes with a spent nullifier
\* earn nothing, and what others did to the score cannot help (policyOk).
HighImpactEarned ==
    \A i \in DOMAIN eventLog :
      Kind(i) \in HighImpactKinds => Earned(eventLog[i].sender, i - 1) >= HighImpactTrustMin

\* What the ledger keeps of a message: all but its payload, which
\* capability.revoke may rewrite.
Header(m) == [id |-> m.id, kind |-> m.kind, created |-> m.created, sender |-> m.sender,
              nonce |-> m.nonce, prev |-> m.prev, chain |-> m.chain]

\* The log of the engine implements the abstract ledger: no refusal, eviction,
\* throw or revocation removes, reorders or inserts a header.
AbstractLedger == INSTANCE Ledger WITH
    ledger <- [i \in DOMAIN eventLog |-> Header(eventLog[i])],
    Headers <- {Header(m) : m \in Envelopes}
ImplementsLedger == AbstractLedger!Spec

-----------------------------------------------------------------------------
(* The views materialised from the log.                                    *)

\* event-store.ts:1-6 "the event log is the source of truth": the record of a
\* task is the one its events in the log determine, whoever sent them and
\* whatever was refused between them.
TasksFollowLog ==
    \A p \in Projects, t \in Tasks :
      LET task == projects[p].tasks[t]
          IsAbout(i) == /\ Kind(i) \in {"task.propose", "task.assign", "task.commit", "task.deliver"}
                        /\ eventLog[i].payload.project_id = p
                        /\ eventLog[i].payload.task_id = t
          LastOf(kind) == LET Is(i) == IsAbout(i) /\ Kind(i) = kind IN Latest(Positions(Is))
          last == Latest(Positions(IsAbout))
      IN /\ task.proposal = LastOf("task.propose")
         /\ task.assignment = LastOf("task.assign")
         /\ task.commitment = LastOf("task.commit")
         /\ task.delivery = LastOf("task.deliver")
         /\ task.status =
              IF last = 0 THEN "absent"
              ELSE CASE Kind(last) = "task.propose" -> "proposed"
                     [] Kind(last) = "task.deliver" -> "delivered"
                     [] Kind(last) = "task.commit" /\ eventLog[last].payload.accepted -> "committed"
                     [] OTHER -> "assigned"

\* A project is a draft only while nobody has moved it or joined it since an
\* update last set its status (ensureProject, project.motion, project.intent).
DraftIsUntouched ==
    \A p \in Projects :
      LET SetsStatus(i) == /\ Kind(i) = "project.update"
                           /\ eventLog[i].payload.project_id = p
                           /\ eventLog[i].payload.status # "unset"
      IN projects[p].status = "draft" =>
           \A i \in {projects[p].motion} \union {projects[p].intents[u] : u \in Users} :
             i <= Latest(Positions(SetsStatus))

\* A graph.delta at position i speaks of this edge.
Touches(i, from, type, to) ==
    /\ Kind(i) = "graph.delta" /\ eventLog[i].payload.op \in {"add_edge", "remove_edge"}
    /\ eventLog[i].payload.edge = [from |-> from, type |-> type, to |-> to]

\* What a record of the state says of a user, the graph says too: an intent and
\* a vote that counts have their edge, at least as recent, unless a later
\* graph.delta took that edge away.
GraphFollowsRecords ==
    LET HasEdge(from, type, to, i) ==
          \/ \E e \in edges : e.from = from /\ e.type = type /\ e.to = to /\ e.attrs >= i
          \/ \E j \in DOMAIN eventLog : j > i /\ Touches(j, from, type, to)
    IN /\ \A p \in Projects, u \in Users :
            projects[p].intents[u] # 0 =>
              HasEdge(u, "participates_in", p, projects[p].intents[u])
       /\ \A e \in Elections, u \in Users :
            elections[e].votes[u] # 0 =>
              HasEdge(u, "voted_for", eventLog[elections[e].votes[u]].payload.choice,
                      elections[e].votes[u])

\* README.md "each nullifier can only be used once": the votes an election counts
\* spend distinct nullifiers, also after voters have voted again and the motion
\* has been repeated.
BallotsSpendDistinctNullifiers ==
    \A e \in Elections : \A u, v \in Users :
      LET votes == elections[e].votes
      IN votes[u] # 0 /\ votes[v] # 0 /\ u # v =>
           eventLog[votes[u]].payload.nullifier # eventLog[votes[v]].payload.nullifier

\* An election holds, of every user, the last vote that spent a fresh nullifier,
\* and every nullifier that was ever shown to it.
BallotsFollowLog ==
    \A e \in Elections :
      LET IsVote(i) == Kind(i) = "election.vote" /\ eventLog[i].payload.election_id = e
      IN /\ elections[e].nullifiers = {eventLog[i].payload.nullifier : i \in Positions(IsVote)}
         /\ \A u \in Users :
              LET IsBallot(i) == IsVote(i) /\ eventLog[i].sender = u /\ Counts(i)
              IN elections[e].votes[u] = Latest(Positions(IsBallot))

\* No step takes back a vote or a spent nullifier; a repeated election.motion
\* only reopens the election.
VotesAreKept ==
    [][\A e \in Elections :
         /\ elections[e].nullifiers \subseteq elections'[e].nullifiers
         /\ \A u \in Users : elections[e].votes[u] <= elections'[e].votes[u]]_vars

\* A dispute is its last report and the responses with its key that came after
\* it, in the order of the log; it is under review once there is one.
DisputesFollowLog ==
    \A d \in disputes :
      LET IsReport(i) == Kind(i) = "dispute.report" /\ ReportKey(eventLog[i]) = d.key
          answers == {i \in DOMAIN eventLog : /\ Kind(i) = "dispute.response"
                                              /\ ResponseKey(eventLog[i]) = d.key
                                              /\ i > d.report}
      IN /\ d.report = Latest(Positions(IsReport))
         /\ Len(d.responses) = Cardinality(answers)
         /\ \A k \in DOMAIN d.responses :
              /\ d.responses[k] \in answers
              /\ k > 1 => d.responses[k - 1] < d.responses[k]
         /\ d.status = IF answers = {} THEN "open" ELSE "under_review"

-----------------------------------------------------------------------------
(* What documents and comments of the repository say, and the code does    *)
(* not do.  Each is the property of a run that finds a counterexample.     *)

\* SYNC.md:56 "all events are immutable (Append-Only)", SECURITY.md:17: an event
\* in the log still has the payload its sender signed.
LogIsImmutable == \A i \in DOMAIN eventLog : VerifyIntegrity(eventLog[i])

\* SYNC.md:51: an event whose predecessor is missing waits and is processed when
\* the predecessor has arrived; so an event that now extends the log is a
\* replay only if the log holds it.
CausalBreakIsRetried ==
    \A m \in Envelopes :
      PassesFirstChecks(m) /\ VerifyChainLink(m) /\ IsReplay(m) =>
        \E i \in DOMAIN eventLog : eventLog[i].sender = m.sender /\ eventLog[i].nonce = m.nonce

\* 001_initial.sql:121 and :125, every response belongs to a dispute: so does an
\* admitted response that leaves out the dispute_id and gives the project and the
\* subject of a report that left it out too.
ResponseReachesDispute ==
    [][\A m \in Envelopes :
         DisputeResponse(m) /\ m.payload.dispute_id = <<>>
         /\ (\E d \in disputes :
               /\ eventLog[d.report].payload.dispute_id = <<>>
               /\ eventLog[d.report].payload.project_id = m.payload.project_id
               /\ eventLog[d.report].payload.subject = m.payload.subject)
         => disputes' # disputes]_vars
=============================================================================
