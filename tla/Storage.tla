-------------------------------- MODULE Storage --------------------------------
(***************************************************************************)
(* The database of a node (packages/db/src): opening and migrating a file, *)
(* and the operations of the event, graph and nonce stores, called in any  *)
(* order by the program that opened it.  SQLite itself is external: each   *)
(* statement is atomic and durable, tables enforce their constraints, and  *)
(* a statement on a table that is missing throws and changes nothing.      *)
(*                                                                         *)
(* The process may die between any two statements; the file then keeps     *)
(* what they did.  A power loss (synchronous = NORMAL) takes the file back *)
(* to an earlier one of its states, of which the invariants say as much.   *)
(***************************************************************************)
EXTENDS Integers, Sequences, FiniteSets, Subsequences

CONSTANTS
    Users, Nonces, NodeIds,
    Edges,         \* graph edges a caller may store: from, type, to
    Messages,      \* envelopes: msg_id, hash, chain, topic
    Scores,        \* trust scores
    NonceTTL,      \* NONCE_TTL_SEC
    MaxNow         \* bound of the clock

ASSUME EdgeAssumption ==
    NodeIds \subseteq STRING /\ Edges \subseteq [from : NodeIds, type : STRING, to : NodeIds]

\* The hash is that of the whole envelope, msg_id included; chain hashes are not
\* equal to the hash of another event, and "none" is no hash but stands for the
\* afterHash that a caller leaves out.
ASSUME MessageAssumption ==
    /\ Messages \subseteq [msg_id : STRING, hash : STRING, chain : STRING, topic : STRING]
    /\ \A m, n \in Messages : m.hash \in {n.hash, n.chain} => m = n
    /\ \A m \in Messages : "none" \notin {m.hash, m.chain}

ASSUME TimeAssumption == NonceTTL \in Nat /\ MaxNow \in Nat \ {0} /\ Scores \subseteq Int

VARIABLES
    now,
    open,          \* the module has a handle (_db # null)
    step,          \* where openDatabase stands
    threw,         \* it threw after it had stored the handle
    tracked, created, applied,   \* the file: _migrations, its tables, its row
    events, nodes, edges, trust, nonces,   \* the file: rows
    fresh,         \* when recordNonce last inserted a row (observed)
    seen           \* what a reader of each topic has got (observed)

schemaVars == <<tracked, created, applied>>
graphVars == <<nodes, edges>>
rowVars == <<events, nodes, edges, trust, nonces, fresh>>
vars == <<now, open, step, threw, schemaVars, rowVars, seen>>

-----------------------------------------------------------------------------
(* Opening and migrating.                                                  *)

\* The tables of 001_initial.sql, in the order of its statements.
Schema == <<"events", "graph_nodes", "graph_edges", "projects", "tasks", "elections",
            "election_votes", "disputes", "dispute_responses", "capabilities", "trust",
            "nonces", "sync_state">>

Topics == {m.topic : m \in Messages}

Init ==
    /\ now = 1
    /\ open = FALSE /\ step = "idle" /\ threw = FALSE
    /\ tracked = FALSE /\ created = 0 /\ applied = FALSE
    /\ events = <<>>
    /\ nodes = {} /\ edges = {}
    /\ trust = [u \in Users |-> {}]
    /\ nonces = {} /\ fresh = {}
    /\ seen = [t \in Topics |-> <<>>]

\* new Database: the handle is stored before anything else is done with it.
OpenFile ==
    /\ ~open
    /\ open' = TRUE /\ step' = "configuring"
    /\ UNCHANGED <<now, threw, schemaVars, rowVars, seen>>

\* Mutant: that the table of migrations exists is taken for the migration.
TrackAndTrust ==
    /\ step = "configuring"
    /\ tracked' = TRUE
    /\ step' = IF tracked THEN "idle" ELSE "migrating"
    /\ UNCHANGED <<now, open, threw, created, applied, rowVars, seen>>

\* The pragmas, CREATE TABLE _migrations and the look whether the row is there.
TrackMigrations ==
    /\ step = "configuring"
    /\ tracked' = TRUE
    /\ step' = IF applied THEN "idle" ELSE "migrating"
    /\ UNCHANGED <<now, open, threw, created, applied, rowVars, seen>>

\* db.exec(sql) is no transaction.  A statement for a table that is there does
\* nothing, so a second run goes on where the first was cut off.
CreateTable ==
    /\ step = "migrating" /\ created < Len(Schema)
    /\ created' = created + 1
    /\ UNCHANGED <<now, open, step, threw, tracked, applied, rowVars, seen>>

RecordMigration ==
    /\ step = "migrating" /\ created = Len(Schema)
    /\ applied' = TRUE /\ step' = "idle"
    /\ UNCHANGED <<now, open, threw, tracked, created, rowVars, seen>>

\* A pragma, the file of the migration or a statement fails: openDatabase throws,
\* and from then on returns the handle it has stored.
OpenThrows ==
    /\ step # "idle"
    /\ step' = "idle" /\ threw' = TRUE
    /\ UNCHANGED <<now, open, schemaVars, rowVars, seen>>

CloseDatabase ==
    /\ open /\ step = "idle"
    /\ open' = FALSE /\ threw' = FALSE
    /\ UNCHANGED <<now, step, schemaVars, rowVars, seen>>

Crash ==
    /\ open
    /\ open' = FALSE /\ step' = "idle" /\ threw' = FALSE
    /\ UNCHANGED <<now, schemaVars, rowVars, seen>>

Tick ==
    /\ now < MaxNow
    /\ now' = now + 1
    /\ UNCHANGED <<open, step, threw, schemaVars, rowVars, seen>>

\* openDatabase has returned a handle, and the file has the table.
Usable(table) ==
    /\ open /\ step = "idle"
    /\ \E i \in 1..created : Schema[i] = table

unchangedFile == <<now, open, step, threw, schemaVars>>

-----------------------------------------------------------------------------
(* The event store.                                                        *)

\* Mutant: INSERT OR REPLACE.
AppendOrReplace(m) ==
    /\ Usable("events")
    /\ events' = Append(Keep(events, {i \in DOMAIN events : /\ events[i].msg_id # m.msg_id
                                                          /\ events[i].hash # m.hash}), m)
    /\ UNCHANGED <<unchangedFile, graphVars, trust, nonces, fresh, seen>>

\* INSERT OR IGNORE: msg_id and event_hash are UNIQUE.
AppendEvent(m) ==
    /\ Usable("events")
    /\ events' = IF \E i \in DOMAIN events :
                      events[i].msg_id = m.msg_id \/ events[i].hash = m.hash
                 THEN events ELSE Append(events, m)
    /\ UNCHANGED <<unchangedFile, graphVars, trust, nonces, fresh, seen>>

EventsOf(topic, log) == Keep(log, {i \in DOMAIN log : log[i].topic = topic})

GetAllEventHashes(topic) ==
    LET of == EventsOf(topic, events) IN [i \in DOMAIN of |-> of[i].hash]

GetLatestChainHash(topic) ==
    LET of == EventsOf(topic, events)
    IN IF of = <<>> THEN "genesis" ELSE of[Len(of)].chain

CountEvents(topic) == Cardinality({i \in DOMAIN events : events[i].topic = topic})

\* Mutant: the anchor itself is returned again.
EventsFromAnchor(topic, afterHash) ==
    LET found == {i \in DOMAIN events : afterHash \in {events[i].chain, events[i].hash}}
        anchor == IF found = {} THEN 1 ELSE CHOOSE i \in found : \A j \in found : i <= j
    IN EventsOf(topic, SubSeq(events, anchor, Len(events)))

\* The anchor is looked for among the events of all topics; without one (there is
\* no afterHash, or it is not stored) all events of the topic are returned.
GetEventsByTopic(topic, afterHash) ==
    LET found == {i \in DOMAIN events : afterHash \in {events[i].chain, events[i].hash}}
        anchor == IF found = {} THEN 0 ELSE CHOOSE i \in found : \A j \in found : i <= j
    IN EventsOf(topic, SubSeq(events, anchor + 1, Len(events)))

\* A reader asks for what came after the last event of the topic it has got.
ReadTopic(t) ==
    LET last == IF seen[t] = <<>> THEN "none" ELSE seen[t][Len(seen[t])].hash
        page == GetEventsByTopic(t, last)
    IN /\ Usable("events")
       /\ page # <<>>
       /\ seen' = [seen EXCEPT ![t] = seen[t] \o page]
       /\ UNCHANGED <<unchangedFile, rowVars>>

-----------------------------------------------------------------------------
(* The graph store.  Types and attributes of nodes are abstracted.         *)

UpsertNode(n) ==
    /\ Usable("graph_nodes")
    /\ nodes' = nodes \union {n}
    /\ UNCHANGED <<unchangedFile, events, edges, trust, nonces, fresh, seen>>

\* Mutant: the foreign keys of the edges do not cascade.
DeleteNodeOnly(n) ==
    /\ Usable("graph_nodes")
    /\ nodes' = nodes \ {n}
    /\ UNCHANGED <<unchangedFile, events, edges, trust, nonces, fresh, seen>>

\* Its edges are deleted with it: ON DELETE CASCADE.
DeleteNode(n) ==
    /\ Usable("graph_nodes")
    /\ nodes' = nodes \ {n}
    /\ edges' = {e \in edges : n \notin {e.from, e.to}}
    /\ UNCHANGED <<unchangedFile, events, trust, nonces, fresh, seen>>

\* It throws if a node of the edge is missing: FOREIGN KEY.
UpsertEdge(e) ==
    /\ Usable("graph_edges")
    /\ {e.from, e.to} \subseteq nodes
    /\ edges' = edges \union {e}
    /\ UNCHANGED <<unchangedFile, events, nodes, trust, nonces, fresh, seen>>

DeleteEdge(e) ==
    /\ Usable("graph_edges")
    /\ edges' = edges \ {e}
    /\ UNCHANGED <<unchangedFile, events, nodes, trust, nonces, fresh, seen>>

GetEdgesFrom(n, type) == {e \in edges : e.from = n /\ e.type = type}
GetEdgesTo(n, type) == {e \in edges : e.to = n /\ e.type = type}

\* Nodes that are not there are filtered out.
GetOffersBy(u) == {e.to : e \in GetEdgesFrom(u, "offers")} \intersect nodes
GetNeedsOf(u) == {e.to : e \in GetEdgesFrom(u, "needs")} \intersect nodes

MatchesOf(u, others) ==
    UNION {{[offeror |-> e.from, need |-> n] :
              e \in {o \in GetEdgesTo(n, "offers") : o.from \in others}} : n \in GetNeedsOf(u)}

\* Mutant: a user is matched with its own offers.
MatchesWithOneself(u) == MatchesOf(u, NodeIds)

FindPotentialMatches(u) == MatchesOf(u, NodeIds \ {u})

UpsertTrust(u, score) ==
    /\ Usable("trust")
    /\ trust' = [trust EXCEPT ![u] = {score}]
    /\ UNCHANGED <<unchangedFile, events, graphVars, nonces, fresh, seen>>

-----------------------------------------------------------------------------
(* The nonce store.                                                        *)

HasNonce(u, n) == \E r \in nonces : r.user = u /\ r.nonce = n

\* Mutant: the time is taken in milliseconds.
RecordInMillis(u, n) ==
    /\ Usable("nonces")
    /\ LET row == [user |-> u, nonce |-> n, at |-> 1000 * now]
       IN IF HasNonce(u, n) THEN UNCHANGED <<nonces, fresh>>
          ELSE /\ nonces' = nonces \union {row}
               /\ fresh' = {r \in fresh : <<r.user, r.nonce>> # <<u, n>>} \union {row}
    /\ UNCHANGED <<unchangedFile, events, graphVars, trust, seen>>

\* INSERT OR IGNORE: a row that is there keeps its time.
RecordNonce(u, n) ==
    /\ Usable("nonces")
    /\ LET row == [user |-> u, nonce |-> n, at |-> now]
       IN IF HasNonce(u, n) THEN UNCHANGED <<nonces, fresh>>
          ELSE /\ nonces' = nonces \union {row}
               /\ fresh' = {r \in fresh : <<r.user, r.nonce>> # <<u, n>>} \union {row}
    /\ UNCHANGED <<unchangedFile, events, graphVars, trust, seen>>

\* Mutant: off by one.
EvictNoncesEarly ==
    /\ Usable("nonces")
    /\ nonces' = {r \in nonces : r.at > now - NonceTTL}
    /\ UNCHANGED <<unchangedFile, events, graphVars, trust, fresh, seen>>

EvictExpiredNonces ==
    /\ Usable("nonces")
    /\ nonces' = {r \in nonces : r.at >= now - NonceTTL}
    /\ UNCHANGED <<unchangedFile, events, graphVars, trust, fresh, seen>>

-----------------------------------------------------------------------------

Opening ==
    OpenFile \/ TrackMigrations \/ CreateTable \/ RecordMigration \/ OpenThrows
    \/ CloseDatabase \/ Crash

Storing ==
    \/ \E m \in Messages : AppendEvent(m)
    \/ \E n \in NodeIds : UpsertNode(n) \/ DeleteNode(n)
    \/ \E e \in Edges : UpsertEdge(e) \/ DeleteEdge(e)
    \/ \E u \in Users, score \in Scores : UpsertTrust(u, score)
    \/ \E u \in Users, n \in Nonces : RecordNonce(u, n)
    \/ EvictExpiredNonces

Next == Opening \/ Storing \/ Tick \/ \E t \in Topics : ReadTopic(t)

Spec == Init /\ [][Next]_vars

-----------------------------------------------------------------------------

TypeOK ==
    /\ now \in 1..MaxNow
    /\ open \in BOOLEAN /\ threw \in BOOLEAN
    /\ step \in {"idle", "configuring", "migrating"}
    /\ tracked \in BOOLEAN /\ applied \in BOOLEAN
    /\ created \in 0..Len(Schema)
    /\ events \in Seq(Messages)
    /\ nodes \subseteq NodeIds
    /\ edges \subseteq Edges
    /\ trust \in [Users -> SUBSET Scores]
    /\ nonces \subseteq [user : Users, nonce : Nonces, at : 1..MaxNow]
    /\ fresh \subseteq [user : Users, nonce : Nonces, at : 1..MaxNow]
    /\ DOMAIN seen = Topics

\* Whatever was cut off, a file that says the migration is applied has all of its
\* tables (runMigrations writes its row last).
AppliedMeansComplete == applied => created = Len(Schema)

\* A handle that openDatabase returned without ever throwing since it was stored
\* leads to a migrated file, also after earlier attempts that threw or died.
HealthyHandleIsMigrated ==
    open /\ step = "idle" /\ ~threw => applied /\ created = Len(Schema)

\* Whatever was thrown or cut off, what openDatabase says of a file is true: the row
\* of its migration, and a handle that it returned.
SchemaIsSound == AppliedMeansComplete /\ HealthyHandleIsMigrated

\* 001_initial.sql "append-only": no call and no crash changes or removes a row of
\* the event log, or puts one between others.
LogOnlyGrows ==
    [][/\ Len(events) <= Len(events')
       /\ \A i \in DOMAIN events : events'[i] = events[i]]_vars

\* What the UNIQUE columns promise: a message is stored once, even if two envelopes
\* carry its id.
OneRowPerMessage ==
    \A i, j \in DOMAIN events : events[i].msg_id = events[j].msg_id => i = j

\* Every edge leads from a node to a node, after any deletions.
EdgesHaveNodes == \A e \in edges : {e.from, e.to} \subseteq nodes

\* What the stores rely on of the tables survives every sequence of their calls.
ConstraintsHold == OneRowPerMessage /\ EdgesHaveNodes

\* A nonce is found for as long as replay protection needs it, through evictions,
\* crashes and repeated recordings.
NonceHolds ==
    \A r \in fresh : now - r.at <= NonceTTL => HasNonce(r.user, r.nonce)

\* A reader that pages through a topic by getEventsByTopic gets each event once, in
\* order and without a gap, whatever is stored between its calls; and when it has
\* countEvents of them, its last one is the one getLatestChainHash speaks of.
PagesTileTheTopic ==
    \A t \in Topics :
      LET hashes == GetAllEventHashes(t)
          n == Len(seen[t])
      IN /\ n <= CountEvents(t)
         /\ \A i \in 1..n : seen[t][i].hash = hashes[i]
         /\ n = CountEvents(t) =>
              GetLatestChainHash(t) = IF n = 0 THEN "genesis" ELSE seen[t][n].chain
=============================================================================
