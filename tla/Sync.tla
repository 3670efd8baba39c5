--------------------------------- MODULE Sync ----------------------------------
(***************************************************************************)
(* Incremental synchronisation (packages/network/src/sync.ts) over pubsub  *)
(* (node.ts:114-133).  A session is one call of requestSync; its answer is *)
(* one call of handleSyncRequest at the peer it asks.  Both are written as *)
(* the steps between their awaits.  The adapter is external: it keeps a    *)
(* chain of events per topic and admits them by the rules of the engine.   *)
(***************************************************************************)
EXTENDS Bloom, SequencesExt, Subsequences

CONSTANTS Nodes, Topics,
          Requests,      \* who may ask whom about which topic
          Faulty,        \* of these: on a lossy network and with a failing adapter
          MaxSessions,   \* bound of the calls of requestSync
          MaxEvents,     \* bound of a chain
          ChunkSize,     \* 50 in the code
          Learners,      \* nodes and topics whose logs grow by other means
          FirstLogs      \* how much of each chain each node may start with

Sessions == 1..MaxSessions

ASSUME SyncAssumption ==
    /\ Requests \subseteq [node : Nodes, peer : Nodes, topic : Topics]
    /\ \A r \in Requests : r.node # r.peer
    /\ Faulty \subseteq Requests
    /\ MaxSessions \in Nat /\ MaxEvents \in Nat /\ ChunkSize \in Nat \ {0}
    /\ Learners \subseteq Nodes \X Topics
    /\ FirstLogs \subseteq [Nodes \X Topics -> 0..MaxEvents]
    /\ Hashes = 1..MaxEvents

VARIABLES
    log,         \* of each node and topic: the last event of the chain, and spent nonces
    session,     \* the calls of requestSync in the order of their starts: where each
                 \* is, its arguments, the filter and the latest hash of its request,
                 \* and, for the properties, the snapshots of its answer it has handled
    answer,      \* of each session, its call of handleSyncRequest
    subscribed,  \* nodes and topics, as pubsub knows them
    flight,      \* published snapshots that have yet to reach a node
    handling     \* calls of a listener that wait for the adapter

vars == <<log, session, answer, subscribed, flight, handling>>

Topic(s) == session[s].request.topic
Channel(s) == <<session[s].request.node, Topic(s)>>
PeerChannel(s) == <<session[s].request.peer, Topic(s)>>
IsFaulty(s) == session[s].request \in Faulty

\* Snapshot i of the answer to session s, on its way to a node or with a listener.
MaxSnapshots == MaxEvents \div ChunkSize + 1
Copies == [to : Nodes, of : Sessions, index : 1..MaxSnapshots]
Calls == [by : Sessions, of : Sessions, index : 1..MaxSnapshots]

TypeOK ==
    /\ log \in [Nodes \X Topics -> [last : 0..MaxEvents, spent : SUBSET (1..MaxEvents)]]
    /\ \A c \in DOMAIN log : 1..log[c].last \subseteq log[c].spent
    /\ DOMAIN session \subseteq Sessions /\ DOMAIN answer = DOMAIN session
    /\ \A s \in DOMAIN session :
          /\ session[s].pc \in {"subscribing", "listening", "ended"}
          /\ session[s].request \in Requests
          /\ session[s].filter \in [0..(Bytes - 1) -> SUBSET (0..7)]
          /\ session[s].latest \in 0..MaxEvents
          /\ session[s].handled \subseteq DOMAIN answer[s].sent
          /\ answer[s].pc \in {"asked", "comparing", "sending", "done"}
          /\ answer[s].known \in 0..MaxEvents
          /\ ToSet(answer[s].missing) \subseteq 1..MaxEvents
          /\ \A i \in DOMAIN answer[s].sent : answer[s].sent[i].has_more \in BOOLEAN
    /\ subscribed \subseteq Nodes \X Topics
    /\ flight \subseteq Copies /\ handling \subseteq Calls

Init ==
    /\ \E first \in FirstLogs :
          log = [c \in Nodes \X Topics |-> [last |-> first[c], spent |-> 1..first[c]]]
    /\ session = <<>> /\ answer = <<>>
    /\ subscribed = {} /\ flight = {} /\ handling = {}

-----------------------------------------------------------------------------
(* The adapter.                                                            *)

GetKnownHashes(c) == 1..log[c].last

\* In the order of the chain.
GetMissingEvents(c, known) ==
    Keep([e \in 1..log[c].last |-> e], (1..log[c].last) \ known)

\* Mutant: nonces are not recorded.
AdmitForgetfully(chain, e) ==
    IF e = chain.last + 1 THEN [chain EXCEPT !.last = e] ELSE chain

\* An event whose nonce is spent is refused, and so is one that does not follow
\* the last; the latter has spent its nonce.
Admit(chain, e) ==
    IF e \in chain.spent THEN chain
    ELSE [last |-> IF e = chain.last + 1 THEN e ELSE chain.last,
          spent |-> chain.spent \union {e}]

ApplyEvents(c, events) == log' = [log EXCEPT ![c] = FoldLeft(Admit, log[c], events)]

\* A node's own next event, or one that reached it some other way.
Learn(c) ==
    /\ log[c].last < MaxEvents
    /\ log' = [log EXCEPT ![c] = Admit(log[c], log[c].last + 1)]
    /\ UNCHANGED <<session, answer, subscribed, flight, handling>>

-----------------------------------------------------------------------------
(* requestSync.                                                            *)

\* Mutant: the last hash alone goes into the filter.
FilterOfLatest(c) == BuildBloomFilter({log[c].last} \ {0})

FilterOfKnown(c) == BuildBloomFilter(GetKnownHashes(c))

\* The session r begins at pc, and so does its answer.  0 is the hash "genesis".
Begin(r, pc, answerPc) ==
    /\ Len(session) < MaxSessions
    /\ session' = Append(session,
          [pc |-> pc, request |-> r, filter |-> FilterOfKnown(<<r.node, r.topic>>),
           latest |-> log[<<r.node, r.topic>>].last, handled |-> {}])
    /\ answer' = Append(answer, [pc |-> answerPc, known |-> 0, missing |-> <<>>, sent |-> <<>>])
    /\ UNCHANGED <<log, subscribed, flight, handling>>

\* Reads the hashes and publishes the request, which from then on is on its way to
\* handleSyncRequest: the peer answers in later steps, whenever it gets to it.
Start(r) == Begin(r, "subscribing", "asked")

\* publish rejects, and requestSync with it.
StartThrows(r) == r \in Faulty /\ Begin(r, "ended", "done")

At(s, pc) == s \in DOMAIN session /\ session[s].pc = pc
Goto(s, pc) == session' = [session EXCEPT ![s].pc = pc]

\* Then requestSync returns, with both of its totals still 0.
Subscribe(s) ==
    /\ At(s, "subscribing")
    /\ Goto(s, "listening")
    /\ subscribed' = subscribed \union {Channel(s)}
    /\ UNCHANGED <<log, answer, flight, handling>>

-----------------------------------------------------------------------------
(* handleSyncRequest.                                                      *)

AnswerAt(s, pc) == s \in DOMAIN answer /\ answer[s].pc = pc

ReadKnown(s) ==
    /\ AnswerAt(s, "asked")
    /\ answer' = [answer EXCEPT ![s].pc = "comparing",
                                ![s].known = log[PeerChannel(s)].last]
    /\ UNCHANGED <<log, session, subscribed, flight, handling>>

\* Mutant: knownHashSet, which the code computes and does not use.
KnownHashSet(s) == 1..answer[s].known

HashesInFilter(s) == {h \in 1..answer[s].known : BloomContains(session[s].filter, h)}

ReadMissing(s) ==
    /\ AnswerAt(s, "comparing")
    /\ answer' = [answer EXCEPT ![s].pc = "sending",
          ![s].missing = GetMissingEvents(PeerChannel(s), HashesInFilter(s))]
    /\ UNCHANGED <<log, session, subscribed, flight, handling>>

\* As slice, which stops at the end.
Slice(missing, from, to) ==
    SubSeq(missing, from + 1, IF to < Len(missing) THEN to ELSE Len(missing))

\* Mutant: a full snapshot announces one more.
SnapshotInclusive(missing, i) ==
    [events |-> Slice(missing, i, i + ChunkSize), has_more |-> i + ChunkSize <= Len(missing)]

\* Mutant: a later snapshot begins one event too late.
SnapshotSkips(missing, i) ==
    [events |-> Slice(missing, IF i = 0 THEN 0 ELSE i + 1, i + ChunkSize),
     has_more |-> i + ChunkSize < Len(missing)]

Snapshot(missing, i) ==
    [events |-> Slice(missing, i, i + ChunkSize), has_more |-> i + ChunkSize < Len(missing)]

\* Whom a snapshot may reach: the nodes that may subscribe to its topic.
Audience(s) ==
    {r.node : r \in {q \in Requests : q.topic = Topic(s)}} \ {session[s].request.peer}

\* One round of the loop, and the return after the last.  The snapshot without
\* events is the one of a loop of no rounds.
PublishSnapshot(s) ==
    /\ AnswerAt(s, "sending")
    /\ LET i == Len(answer[s].sent) * ChunkSize
       IN  answer' = [answer EXCEPT
             ![s].sent = Append(answer[s].sent, Snapshot(answer[s].missing, i)),
             ![s].pc = IF i + ChunkSize < Len(answer[s].missing) THEN "sending" ELSE "done"]
    /\ flight' = flight \union
           [to : Audience(s), of : {s}, index : {Len(answer[s].sent) + 1}]
    /\ UNCHANGED <<log, session, subscribed, handling>>

\* The request is lost, or publish or the adapter rejects and handleSyncRequest
\* with it.
AnswerThrows(s) ==
    /\ \E pc \in {"asked", "comparing", "sending"} : AnswerAt(s, pc)
    /\ IsFaulty(s)
    /\ answer' = [answer EXCEPT ![s].pc = "done"]
    /\ UNCHANGED <<log, session, subscribed, flight, handling>>

-----------------------------------------------------------------------------
(* pubsub, and the listener of a session.                                  *)

Target(copy) == <<copy.to, Topic(copy.of)>>

\* Every listener of the node is called with every message; one of another topic
\* returns at once.
Deliver(copy) ==
    /\ Target(copy) \in subscribed
    /\ flight' = flight \ {copy}
    /\ handling' = handling \union
          [by : {l \in DOMAIN session : At(l, "listening") /\ Channel(l) = Target(copy)},
           of : {copy.of}, index : {copy.index}]
    /\ UNCHANGED <<log, session, answer, subscribed>>

\* It is lost, or it comes to a node that is not subscribed.
Drop(copy) ==
    /\ IsFaulty(copy.of) \/ Target(copy) \notin subscribed
    /\ flight' = flight \ {copy}
    /\ UNCHANGED <<log, session, answer, subscribed, handling>>

\* Mutant: a session that ends leaves the topic subscribed.
StillSubscribed(l) == subscribed

\* unsubscribe leaves the topic even if other sessions listen on it.
Unsubscribed(l) == subscribed \ {Channel(l)}

\* The adapter is done with the events of a snapshot.
Handled(call) ==
    LET l == call.by
        snapshot == answer[call.of].sent[call.index]
    IN  /\ handling' = handling \ {call}
        /\ ApplyEvents(Channel(l), snapshot.events)
        /\ session' = [session EXCEPT
              ![l].pc = IF snapshot.has_more THEN session[l].pc ELSE "ended",
              ![l].handled = IF call.of = l THEN session[l].handled \union {call.index}
                                            ELSE session[l].handled]
        /\ subscribed' = IF snapshot.has_more THEN subscribed ELSE Unsubscribed(l)
        /\ UNCHANGED <<answer, flight>>

\* The adapter rejects after some of the events; the error is only logged.
HandledBadly(call) ==
    /\ IsFaulty(call.by)
    /\ handling' = handling \ {call}
    /\ \E n \in 0..Len(answer[call.of].sent[call.index].events) :
          ApplyEvents(Channel(call.by), SubSeq(answer[call.of].sent[call.index].events, 1, n))
    /\ UNCHANGED <<session, answer, subscribed, flight>>

-----------------------------------------------------------------------------

AnswerStep(s) ==
    \/ ReadKnown(s) \/ ReadMissing(s) \/ PublishSnapshot(s) \/ AnswerThrows(s)

\* What goes on without a user: promises settle, and the network and the adapter
\* work off what they hold.
Background ==
    \/ \E s \in Sessions : Subscribe(s) \/ AnswerStep(s)
    \/ \E copy \in flight : Deliver(copy) \/ Drop(copy)
    \/ \E call \in handling : Handled(call) \/ HandledBadly(call)

Next ==
    \/ \E c \in Learners : Learn(c)
    \/ \E r \in Requests : Start(r) \/ StartThrows(r)
    \/ Background

\* It does not stop before it is done.  Since sessions are bounded, so is what it
\* has to do, and no part of it needs a fairness of its own.  Nobody has to start a
\* session or learn an event.
Fairness == WF_vars(Background)

Spec == Init /\ [][Next]_vars /\ Fairness

-----------------------------------------------------------------------------
(* What a synchronisation promises.                                        *)

SentEvents(s) ==
    FoldLeft(LAMBDA events, snapshot : events \o snapshot.events, <<>>, answer[s].sent)

\* The snapshots of an answer are the missing events, cut without gap or overlap
\* whatever their number is to the size of a chunk, and exactly the one with the
\* last of them says that there are no more (sync.ts:146-177).
SnapshotsCutTheMissing ==
    \A s \in DOMAIN session :
        /\ SentEvents(s) = SubSeq(answer[s].missing, 1, Len(SentEvents(s)))
        /\ \A i \in DOMAIN answer[s].sent :
              answer[s].sent[i].has_more
                <=> i < Len(answer[s].sent) \/ Len(SentEvents(s)) < Len(answer[s].missing)
        /\ answer[s].pc = "done" /\ ~IsFaulty(s) => SentEvents(s) = answer[s].missing

\* An event the requester already had is sent only if the peer learned it while it
\* answered, after it had read what it would compare with the filter
\* (sync.ts:132-141).
OnlyNewsIsSent ==
    \A s \in DOMAIN session : \A e \in ToSet(answer[s].missing) :
        e <= session[s].latest => e > answer[s].known

\* A node is subscribed to the sync topic of a community only as long as one of
\* its sessions listens there (sync.ts:98-111, node.ts:127-132).
SubscribedWhileListening ==
    \A c \in subscribed : \E s \in DOMAIN session :
        At(s, "listening") /\ Channel(s) = c

\* Of an event that the peer had read when it began to answer, what becomes at the
\* requester?  It is in the log, or it was refused because it came before its
\* predecessor and spent its nonce; if it is neither, it was falsely found in the
\* filter, or it is in the missing part of the answer and not in a snapshot that the
\* session has handled: not yet sent or heard, lost, ended too early by somebody
\* else's last snapshot, or rejected by the adapter (sync.ts:98-113, 132-141).
CaughtUp ==
    \A s \in DOMAIN session :
        answer[s].sent # <<>> =>
        LET heard == UNION {ToSet(answer[s].sent[i].events) : i \in session[s].handled}
        IN  \A e \in (1..answer[s].known) \ log[Channel(s)].spent :
               BloomContains(session[s].filter, e) \/ e \in ToSet(answer[s].missing) \ heard

\* The node has another session on the same topic.
Shared(s) ==
    s \in DOMAIN session /\ \E l \in DOMAIN session \ {s} : Channel(l) = Channel(s)

\* On a reliable network the only session of a node on a topic stops listening,
\* if it began to listen before its peer published anything (sync.ts:88-116).
LoneListenerEnds ==
    \A s \in Sessions :
        (At(s, "listening") /\ ~IsFaulty(s) /\ answer[s].sent = <<>>
            /\ answer[s].pc \in {"asked", "comparing", "sending"})
        ~> \/ At(s, "ended")
           \/ Shared(s)

\* requestSync "sends a sync.request and processes incoming sync.snapshot chunks"
\* (sync.ts:65): whoever asks processes a part of the answer.  It publishes the
\* request before it listens.
SessionsProcessSnapshots ==
    \A s \in Sessions : At(s, "subscribing") ~> (s \in DOMAIN session /\ session[s].handled # {})
================================================================================
