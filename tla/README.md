# CommonsMesh in TLA+

CommonsMesh lets a community coordinate without a server: every device keeps a
log of signed events, derives a state from it, and exchanges events with its
peers. This directory models that program. A module is translated from the code
it names, TLC checks it on small instances, and TLAPS proves the results that
matter most for every instance.

## 1. The system

| Part | Source | State | Operations |
|---|---|---|---|
| Protocol state | `protocol/src/types.ts`, `state.ts`, `graph.ts` | event log, nonce cache, graph, projects, elections, disputes, capabilities, usage counts, revocations, trust | set, add and delete on these |
| Validator | `protocol/src/validator.ts`, `capability.ts` | reads all of it, writes the nonce cache and the usage counts | `validateAndAuthorize` |
| Engine | `protocol/src/engine.ts` | all of it | `process`: validate, append, `applyMessage` by kind |
| Crypto | `protocol/src/crypto.ts`, `canonical.ts` | none | hash, sign, verify |
| Network | `packages/network/src/node.ts`, `sync.ts` | subscriptions, listeners, one session per `requestSync` | publish, subscribe, request and answer a sync |
| Database | `packages/db/src/*` | SQLite tables | open and migrate, event, graph and nonce stores |
| LLM | `packages/llm/src/*`, `apps/mobile/src/hooks/useLLM.ts` | model handle, suggestions | create, chat, dispose, match, analyse |
| Mobile app | `apps/mobile/src/*` | engine store, persisted settings, keychain, forms | start, onboarding, saving the profile, building and signing messages |
| Legacy scaffold | `legacy-src/*` | | superseded, imported by nothing |

How they interact. The app builds an envelope and hands it to the engine in the
same process; a peer's events come as chunks of strings over pubsub to
`requestSync`, which hands them to an adapter that is meant to call the engine.
The engine calls the validator, the validator the capability checks. `process`
is synchronous: nothing interleaves with it. All asynchrony is in the network,
the keychain, the model and the database's start. The database is not connected
to the engine at this commit, nothing dispatches a `sync.request` to
`handleSyncRequest`, and the app has no network (`CommunityMapScreen.tsx:40`).
The screens read the engine's state, and the matcher reads its graph.

What is hard, and what makes each part correct:

- Validator. Refused messages change state (nonces are evicted and recorded).
  Nonces are forgotten, so replay protection rests on the relation of two
  constants at their boundary seconds. Correct: one chain, no replay, counts
  kept, revocations final.
- Engine. Handlers accept events in any order; records, graph and log say the
  same thing twice; payload objects are shared between log and state; a handler
  may throw after the event is logged. Correct: every view is the one the log
  determines, and high-impact events are earned.
- Network. A request is published before its listener exists; chunk handlers
  run concurrently; sessions share a topic and its subscription.
- Database. Opening may throw or be cut off at any statement; foreign keys the
  memory has not; readers ask in several calls. Correct: a handle that may be
  trusted is migrated, rows that are promised are there, pages tile their topic.
- Matcher. The same question is asked of the graph by two rules, a prompt and a
  SQL query, with thresholds that must fit. Correct: they agree, and nothing
  better than what is shown is cut off.
- LLM hook. Overlapping calls share the engine and the flags of one screen, and
  every await may fail. Correct: a refresh shows nothing older than itself, the
  banner means work, everything ends.
- App. Taps overlap; settings, keychain and the first screen are read and
  written at different times, with the end of the process in between. Correct:
  whoever is onboarded has a key, and messages are signed by whom they name.

The list of hazards with their lines is in `PROJECT.json`.

## 2. The modules

| Module | Models |
|---|---|
| `AppState` | Constants with their assumptions, envelopes with the payload of each kind, the records, `Init`, the type invariant |
| `Validator` | The checks in the order of `validateAndAuthorize`, the three ways to refuse and what each leaves behind, `Accept` |
| `Engine` | One action per kind of message, `Tick`, `Process`, `Next`, `Spec` |
| `Ledger` | The abstract specification of the log |
| `EngineProperties` | What must hold, and three statements of documents that do not |
| `MCEngine` | Small sets of envelopes for TLC |
| `Subsequences` | Filtering a sequence (`Keep`, `Only`), in a form that can be proved about |
| `SequenceProofs` | Lemmas about filtered and joined sequences, and recursion over the naturals |
| `EngineProofs` | Types; chain, replay, revocation, counts, and the refinement of `Ledger` |
| `RecordProofs` | Elections, trust, tasks, projects, disputes and the graph, against the log |
| `Bloom` | The filter of a `sync.request`, over any hash function |
| `Sync` | `requestSync` and `handleSyncRequest` between several nodes over pubsub, and what they promise |
| `MCSync` | Three nodes and four requests for TLC |
| `SyncProofs` | No false negatives; what answers hold, and what a session catches up with |
| `Storage` | The database file and the module's handle, opened, migrated and lost, and the three stores |
| `Queries` | The queries of the graph store against the rules and the summary of the matcher |
| `MCStorage` | A small database for TLC |
| `StorageProofs` | Migrations, the append-only log, rows that are there once, anchored edges, nonces, pages, queries |
| `Matcher` | The matcher: the summary, the prompt, the rules, the parsing and the ranking, as operators on a graph |
| `MatcherProofs` | Lemmas about them: what the rules find, what the lists hold, what the ranking keeps |
| `Analysis` | The hook `useLLM` with its engines, and the screens that call it |
| `MCAnalysis` | Four graphs and three answers for TLC |
| `AnalysisProofs` | Types, banners, engines, refreshes; what is shown and what the model is told |
| `App` | The start of the app, its settings and keychain, onboarding and the forms |
| `AppProofs` | Types, and whose key signs whose messages |

`EngineProperties` extends `Engine`, which extends `Validator`, which extends
`AppState`; it instantiates `Ledger` under the mapping that keeps of every
logged message its header. `MCEngine` extends `EngineProperties`, and so does
`EngineProofs`, which `RecordProofs` extends. `Sync` extends `Bloom`; it stands apart
from the engine, of which it keeps the chain and the nonces of a topic (`Admit`).
`Analysis` extends `Matcher`, and `Queries` extends it and `Storage`, to compare the
two. `App` stands alone: every envelope it builds is one the engine's runs may be
handed anyway. `StorageProofs` extends `Queries` and `MatcherProofs`; `SyncProofs`,
`MatcherProofs`, `AnalysisProofs` and `AppProofs` extend the modules they are named
after. All but `AppProofs` use `SequenceProofs`.

Filters of the code (`filter`, `WHERE`) are written with `Keep`, which takes a set of
positions, and `Only`, which takes a set of elements. `SelectSeq` would take an
operator, and the provers cannot be told what it returns. A graph and an answer are
the arguments of one function inside another (`Matches`) because tlapm does not
handle functions of several arguments.

### How state and actions correspond to the code

The variables are the fields of `AppState` (`types.ts:196-210`) under their own
names, with `graph` split in `nodes` and `edges`, and `now`, the clock in
seconds.

- A message is a record of the fields the checks look at. `formed` stands for
  the presence and type of the rest, `signed` for a signature that verifies, a
  payload for its own hash, so that a payload that is changed later no longer
  fits `payloadHash`.
- `Envelopes` is the set of messages anybody has ever signed. The network may
  deliver any of them at any time, in any order, repeatedly or never.
- A stored payload object is the position of its event in the log. The code
  stores references, so a write through one (`engine.ts:308`) is a write to the
  log, and the model shows it.
- `process` is one step: it neither awaits nor yields. `Process(m)` is a
  disjunction of the ways a message is refused and of one action for each kind.
- Refusals: `RefuseUnchecked` leaves the state alone; `RefuseReplay` evicts;
  `RefuseAfterNonce` also records the nonce, because `isReplay` comes before
  the checks of the chain, the token and the policy.
- The code reads the clock several times in one call; the model reads it once
  per step, except that `late` chooses whether the unrounded reading of
  `verifyCapabilityToken` has passed the start of the second. The clock does not
  step backwards.
- Scores are counted in hundredths. The code adds binary floating point numbers,
  so a sum of exactly the threshold may compare as smaller: `short` chooses.
- Throwing handlers (`remove_edge` without an edge, `capability.revoke` of a
  stored grant without constraints) keep what was written before the throw.

Abstracted: titles, roles and other attributes (the position of the event stands
for what was written), `positive_count`, `negative_count` and `last_updated` of
trust, the value of `progress`, the texts in `updates` (positions instead), the
event hash that `process` returns.

In `Sync`, a session is a call of `requestSync` and an answer the call of
`handleSyncRequest` it leads to, each with a program counter that stands at the
awaits where other tasks can change what it has read.

- `Start` reads the known hashes and publishes the request; as the peer answers
  in steps of its own, at any later time, nothing is lost by taking both
  together. `Subscribe` is the await that follows, and the return.
- `ReadKnown` and `ReadMissing` are the two calls of the adapter, between which
  the peer's log may grow (`Learn`). `PublishSnapshot` is one round of the loop.
- `Deliver` hands a copy of a snapshot to every listener of a node at once; each
  call of a listener then waits for the adapter on its own, so that calls end in
  any order (`Handled`). A copy that comes to a node that has not subscribed is
  dropped.
- The network and the adapter of the sessions in `Faulty` fail: requests and
  copies are lost, publish and the adapter reject, the latter after any part of
  the events. gossipsub suppresses duplicates.
- Events of a topic are numbered along their chain. The adapter is not in this
  repository; it is taken to do what its interface says, with the rules of the
  engine: an event out of turn is refused and has spent its nonce.
- Left out: `latest_hashes` as far as the answer goes (no code reads them; the
  properties do) and the totals, which are returned before a listener has run.

In `Storage`, each SQL statement is one step and durable, and the stores are
called in any order by whatever program opened the file.

- `OpenFile`, `TrackMigrations`, `CreateTable` (once per statement that creates a
  table) and `RecordMigration` are one call of `openDatabase`; `OpenThrows` ends
  it at any point, and `Crash` ends the process at any point. The handle stays
  stored when the call throws (`db.ts:28`), and the stores may then be called
  on a file that lacks tables (`Usable`).
- `synchronous = NORMAL` may lose the last writes when the power fails. The
  file is then an earlier one of its own states, of which the invariants on
  the file hold as well; there is no action for it.
- A row is kept as far as constraints and queries look at it. `fresh` and `seen`
  are observers: when a nonce was last inserted, and what a reader who pages
  through a topic has got.

In `Matcher`, a graph is the map of the engine: nodes by id, edges in the order
of insertion, also edges whose nodes are gone. A node has a title, a label, both or
neither. The rules call it by its title or else its id (`RuleLabel`), also when it is
gone; the summary tries the label in between (`SummaryLabel`), and groups by that
name. `Normalized` is what the deduplication makes of a title. The prompt is what its lines say, and an answer
is what `parseLLMOutput` finds in the text, in order: fields may be absent, and
a confidence out of range.

In `Analysis`, a hook is one visit of a screen, as every visit mounts its own;
the map calls `analyze` from its effect and from `onRefresh`. A call is one step
up to the first promise that takes time, loading the model or asking it, and one
step after it. `Shown` and `Ended` are the code after the awaits; `LlamaFails` is
the `catch`. The early return without a state or a profile (`useLLM.ts:61`) is left
out: the screens are entered when there are both. Calls go on when their screen is left. The graph changes whenever
the engine processes a message, whoever sends it. `since` observes which graphs
there have been since a refresh began.

In `App`, a key pair has a name of its own (`Keys`); its user id is made of it.

- `memory` is the settings store, of which the model keeps the profile;
  `hasCompletedOnboarding` is set exactly if there is one. `persist` reads at
  `Launch`, merges what it read at `Hydrate`, at any later time, and writes
  after every change (`writes`), each write landing or being lost later.
- The navigator chooses the first screen at `Initialize`, before or after the
  merge. `HandleComplete`, `KeychainStores` or `KeychainRefuses`, and
  `CompleteOnboarding` are the parts of one tap on the last button of onboarding.
- A form is one mounted screen with a button that builds a message. `Guarded` are
  those that set `submitting` (`ProjectsScreen`, `NeedsResourcesScreen`,
  `DisputeScreen`), the other is `TaskScreen`. `Process` is everything after the
  keychain's answer, whatever the engine says to the message.
- `Crash` is the end of the process, by the user or not. `interrupted` observes
  that an onboarding was cut off between keychain and disk, overtaken by the
  merge, or not saved.

## 3. What is checked

`Sync` and `SyncListens` are runs of `MCSync`, `Storage`, `Analysis` and `App` of
`MCStorage`, `MCAnalysis` and `App`, the others of `MCEngine`. The search for
deadlocks is on but for the first two, where all is quiet when the last session
is over.

| Run | Shows |
|---|---|
| `Admission` | `ChainLinked`, `NoReplay`, `NoncesGuarded` and that the log implements `Ledger`, while the clock runs through several skew windows and nonce lifetimes |
| `Capabilities` | `TypeOK`, `WithinMaxCount`, `RevocationHonoured` with counted, timed, granted and revoked capabilities, two tokens of one id, a grant without constraints and a delta that throws |
| `Work` | `DraftIsUntouched`, `GraphFollowsRecords`, `TasksFollowLog` for a project and its tasks |
| `Governance` | `HighImpactEarned`, the three properties of ballots, `GraphFollowsRecords`, `DisputesFollowLog` |
| `Sync` | `TypeOK`, `SnapshotsCutTheMissing`, `OnlyNewsIsSent`, `SubscribedWhileListening`, `CaughtUp`, `LoneListenerEnds` for two sessions at a time |
| `Storage` | `TypeOK`, `SchemaIsSound`, `ConstraintsHold`, `NonceHolds`, `PagesTileTheTopic`, `QueriesAgree`, `LogOnlyGrows` for a file that is opened, cut off and used in any order |
| `App` | `TypeOK`, `OnboardingIsWhole`, `IdentityFollowsKeychain`, `SubmissionsEnd` over many lives of the app |
| `Analysis` | `TypeOK`, `BannerTracksWork`, `EnginesBoundedByCallers`, `BestAreShown`, `RulesAreTold`, `RefreshIsFresh`, `AnalysesEnd` for overlapping calls on a graph that changes |
| `LogImmutable` | violation: a revocation rewrites a logged payload |
| `CausalBreak` | violation: a message that came too early is lost |
| `DisputeResponse` | violation: a response without id reaches no dispute |
| `SyncListens` | violation: an answer is published before anybody listens |

A run is a set of message templates, each with every predecessor it could have
been signed with (`Linked`), so that TLC explores every order in which they can
be admitted and every subset that is refused before, between or after. A log is
at most seven messages long; the properties relate at most three events, and
seven leave room for what has to come first (standing) and for one event too
many. `Work` and `Governance` each put two scenes together. Messages of
different scenes never follow each other, and they share nonces, so that a
refused message of one scene costs the other no more than the loss of a message.

Bounds. `MaxNow` bounds the clock: 7 in `Admission`, which with a skew of 1 and a
TTL of 2 (the least that `RetentionAssumption` admits, as tight as it gets)
lets a nonce be recorded, forgotten and recorded again; 2 in `Capabilities`, for
a token that expires; 1 elsewhere, where nothing depends on time. Two users
suffice for everything that relates a sender to another. At the bound of the
clock nothing stops: every message can still be delivered.

Every property is paired in `PROJECT.json` with a mutant, a plausible mistake in
the code of one definition (the operators commented `Mutant:`), that the run of
the property detects.

No liveness is stated of the engine: it does something only when it is called.

In `Sync`, two sessions share everything sessions can share: node, topic, peer,
or a node that asks while it is asked. Three events in snapshots of two give an
answer of two snapshots, of a full one, of a partial one and of none, and the
hash function makes the third event a false positive once the first two are
known. `b` learns the third event in one of the two initial states, while `a`
has it already.

Fairness in `Sync`: what goes on without a user (`Background`: promises settle,
the network and the adapters work off what they hold) does not stop before it is
done. One weak fairness for all of it is enough, and asks less of the event loops
than one for each, because bounded sessions have a bounded amount of work. No
fairness makes a user start a session or a node learn an event,
and a faulty session may lose everything. The code has no timeouts, so a session
that misses its last snapshot listens for ever; `LoneListenerEnds` therefore
asks for a reliable network, for a topic that is not shared, and for a listener
that exists before the first snapshot is published.

In `Storage`, four envelopes hold a repeated message id, a repeated chain hash and
two topics, so that a reader of one topic has events of the other between its
pages. One nonce and a clock up to 3 with a TTL of 1 let a nonce be recorded,
repeated, evicted and recorded again; a file is opened and cut off any number
of times. Three nodes and three edges are all the graphs on which a user needs
something it or another user offers. Data of different tables do not meet, which
is why one row of each kind that no invariant relates is enough.

In `App`, three key pairs are one that was stored in an earlier life of the app
and two that are generated by overlapping taps in the present one; two writes may
wait (`MaxWrites`), two taps per form be under way. In `Analysis`, visits do not
touch each other, so one visit with both callers is the whole of it. Of the four
graphs one has a single node (the model is not asked), one two nodes that are one
thing to the summary and two to the rules, one a need that is shared, and one a need
of three users for a node without a name, more matches than are shown (two), and a
node missing under its edges. An answer repeats a title in another spelling. The limits of the prompt are 2 and 3, so that
the lists overflow in some graphs.

`BestAreShown` and `RulesAreTold` look at the operators of `Matcher` on the graph
that is current, so the run evaluates them on each graph and answer.

Fairness in `App` and `Analysis`: a call that waits for the keychain, the model
or the API is settled some day, well or not; one weak fairness for each form or
call, which is what a promise that is awaited amounts to. Nothing makes a user
tap, a write land or a merge come.

### Where documents and code disagree

- `LogIsImmutable`. The log is called append-only (`SECURITY.md:17`,
  `protocol/SYNC.md:56`), but `capability.revoke` writes `expires_at` into the
  object that `capability.grant` shares with the log. The event no longer has
  the hash its sender signed, and a peer that gets it refuses it.
- `CausalBreakIsRetried`. `protocol/SYNC.md:51` keeps an event whose predecessor
  is missing in a pending queue. The code refuses it after it has recorded its
  nonce, so the event is a replay when the predecessor has arrived.
- `ResponseReachesDispute`. A report without `dispute_id` is stored under
  `project:subject:msg_id`, and a response without one is looked up under
  `project:subject`: the two defaults never meet, although in the schema every
  response belongs to a dispute (`001_initial.sql:121`, `:125`). A response that
  names the id, or a report that was given the response's default as its id, is not
  concerned.
- `SessionsProcessSnapshots`. `requestSync` "sends a sync.request and processes
  incoming sync.snapshot chunks" (`sync.ts:65`), but it subscribes after it has
  published the request (`sync.ts:89-98`) and may miss the whole answer.

Noted while reading, without a run. In the network and the engine: `requestSync` always returns zeros
(`sync.ts:118`); one session's end unsubscribes the others of its topic
(`node.ts:130`); an event hidden by a false positive of the filter is never
sent, and what follows it is refused (`FiltersGrow`, `CaughtUp`); events older
than 300 seconds cannot be synchronised through the engine (`validator.ts:158`
against `SYNC.md:8`); `TRUST_DECAY_RATE` (`engine.ts:28`) is never
applied; expired nonces of silent users are never evicted (`validator.ts:134`,
against `types.ts:198`); revoking a stored grant without constraints throws
after the id has been revoked (`engine.ts:308`).

In the database: `openDatabase` returns its cached handle after a call that threw,
without migrating (`db.ts:26-35`); the build copies no `.sql`, so the compiled
module throws there at its first start (`db.ts:65`); an edge whose node is
missing is refused here and kept in the engine, although tables "can be rebuilt
by replaying the event log" (`event-store.ts:4-5`); nonces are "automatically
evicted" (`nonce-store.ts:3`) only by callers, of which there are none.

In the matcher and the hook: "No community data leaves the device"
(`matcher.ts:11-12`), but a development build asks an API on the network
(`useLLM.ts:23`); the lists that the prompt calls the most recent twenty keep the
oldest (`matcher.ts:266-274`); "3+ people" is two others (`matcher.ts:120-121`);
a node that has a label and no title is called one thing in the prompt and another in
the suggestion of a rule (`matcher.ts:97-100` against `164` and `191`);
of two suggestions with one key the first is kept, also if the second is better
(`matcher.ts:334-343`); a model that fails to load keeps the rules from being
asked at all (`useLLM.ts:67`); engines are never disposed.

In the app: the keychain holds one key, and a pair that is stored before the
profile is saved, or an onboarding that is repeated because the first screen was
chosen before the merge (`RootNavigator.tsx:35`), leaves a profile whose
messages are signed with another user's key, against `keychain.ts:24`;
`IdentityFollowsKeychain` says when this cannot happen. Every message the app
builds names `genesis` as its predecessor, carries no capability and gives its key
in hexadecimal, where the engine expects PEM and throws
(`keychain.ts:109-125`). `NeedsResourcesScreen.tsx:8-9` promises edges that
its message does not create.

## 4. What is proved

`EngineProofs` and `RecordProofs` prove, for every set of envelopes, users, ids and clock bounds:

| Theorem | States |
|---|---|
| `TypeCorrect` | `Spec => []TypeOK` |
| `ChainIsLinked` | `Spec => []ChainLinked` |
| `ReplayIsRefused` | `Spec => []NoReplay` |
| `RevocationIsFinal` | `Spec => []RevocationHonoured` |
| `MaxCountIsKept` | `Spec => []WithinMaxCount` |
| `LogIsLedger` | `Spec => ImplementsLedger` |
| `NoncesStayGuarded` | `Spec => []NoncesGuarded` |
| `StandingIsEarned` | `Spec => []HighImpactEarned` |
| `BallotsAreDistinct` | `Spec => []BallotsSpendDistinctNullifiers` |
| `VotesStay` | `Spec => VotesAreKept` |
| `BallotsAreThoseOfTheLog` | `Spec => []BallotsFollowLog` |
| `TasksAreThoseOfTheLog` | `Spec => []TasksFollowLog` |
| `GraphIsThatOfTheRecords` | `Spec => []GraphFollowsRecords` |
| `DraftsAreUntouched` | `Spec => []DraftIsUntouched` |
| `DisputesAreThoseOfTheLog` | `Spec => []DisputesFollowLog` |

`SyncProofs` proves, for every hash function and length of the filter, and for
every set of nodes, requests and events:

| Theorem | States |
|---|---|
| `NoFalseNegatives` | what went into a filter is found in it |
| `FiltersGrow` | what is found in a filter is found in every filter of more |
| `SyncTypeCorrect` | `Spec => []TypeOK` |
| `AnswersAreCut` | `Spec => []SnapshotsCutTheMissing` |
| `AnswersAreNews` | `Spec => []OnlyNewsIsSent` |
| `SessionsCatchUp` | `Spec => []CaughtUp` |
| `SubscriptionsHaveListeners` | `Spec => []SubscribedWhileListening` |

Assumptions on the engine: `ClockAssumption` (bounds are naturals), `EnvelopeAssumption` (the
messages are well typed, which is no assumption about their content),
`NameAssumption` (which strings may serve as which keys), and
`RetentionAssumption`, `NonceTTL >= 2 * MaxClockSkew`, which the code satisfies
with 86400 and 300 and without which replays are possible.

The argument. The lemmas of `EngineProofs` first say of every step what it does
to the log: it leaves it alone, or appends one accepted message and leaves the
headers of the others as they were (`SameEntry`: a revocation may rewrite one
payload). `TypeOK` is inductive together with `GrantsStored`, which is why that
is part of it: the write at `engine.ts:308` is well typed only because a stored
reference leads to a grant.

`NoReplay` is not inductive. Its strengthening is `NoncesGuarded`: a logged
message that could still pass the skew check has its nonce in the cache, recorded
no earlier than `created - MaxClockSkew`. A nonce recorded then survives eviction
until `created - MaxClockSkew + NonceTTL >= created + MaxClockSkew`, when the
message itself is too old; here the retention assumption is used, and the
equality of the two boundary comparisons matters. `NoncesGuarded` is checked by
`Admission` as an invariant of its own.

`WithinMaxCount` and `RevocationHonoured` follow from invariants that say what
the counters and the set of revoked ids know of the log: the count of an id is
the number of logged events that used it, and the id of every logged revocation
is in the set. `LogIsLedger` maps the log to its headers, and every step to
`Admit` or to a stutter; `NoReplay` gives the guard of `Admit`.

The views of the engine are compared with the log. `BallotsSpendDistinctNullifiers`
needs to know that a vote which an election holds is a logged one whose nullifier is
in the set of spent ones (`VotesInLog`): the vote that a step adds has a nullifier
that was not. `BallotsMatch`, `TaskMatches`, `DraftMatches` and `DisputesMatch` restate
the properties over sets of positions of the log. A step adds at most one position,
the newest, which is therefore the last of its kind (`LastIsNew`), and it leaves
those sets alone when the new entry is about something else; a revocation may
rewrite the payload of a grant, which is in none of them (`SameEntryFields`). For
the graph, an edge that a record promises survives every write to `edges` or the
new entry is itself one that touches it; the record of a second vote points to the
second edge, whatever becomes of the first.

`HighImpactEarned` compares standing with a sum over the log. Its strengthening is
`TrustIsEarned`: nobody has more trust than the log has earned them so far. A step
adds to a score no more than the worth of the entry it appends (`TrustMoves`), by
which the sum of its sender grows (`EarnedGrows`, which rests on `Folding`), and it
leaves the sums of all shorter logs alone (`WorthStays`): the payload that a
revocation rewrites earns nothing.

The proofs about filters compare byte and bit of one position (`PosInArray`). The one
about subscriptions follows every session from `listening` until it ends: the one
that ends takes the subscription of its topic with it, even from others that still
listen, so no subscription outlives its last listener. Of the other variables it
needs only that sessions keep the form of their records (`SessionsOK`).

The properties of an answer rest on one invariant, `SyncInv`, about each session with
its answer and the two logs: what has been sent is the missing events cut into chunks
(`Cut`), what is missing was compared with the filter of what the requester had
(`Compared`), an answer that nothing disturbed ends when all is sent (`Complete`),
and every event of a snapshot that was handled has been spent in the requester's log
(`Logged`). Steps of other sessions and nodes change the logs between those of this
one; they only let them grow (`Grown`), which `SessionInv` survives. `CaughtUp` then
follows event by event: one that the peer had read and the filter does not contain is
missing (`Compared`), and one of a handled snapshot would be spent (`Logged`), so that
an event that is not spent is in no handled snapshot. It has no condition on the order
or the loss of anything. Together with `SnapshotsCutTheMissing` it means that a session
which handled its whole answer, with nothing out of turn, lacks at most events from a
false positive of the filter on.

`StorageProofs`, `AppProofs` and `AnalysisProofs` prove, for every value of the
constants:

| Theorem | States |
|---|---|
| `StorageProofs!TypeCorrect` | `Spec => []TypeOK` |
| `SchemaHolds` | `Spec => []SchemaIsSound` |
| `LogIsAppendOnly` | `Spec => LogOnlyGrows` |
| `ConstraintsAreKept` | `Spec => []ConstraintsHold` |
| `NoncesHold` | `Spec => []NonceHolds` |
| `PagesTile` | `Spec => []PagesTileTheTopic` |
| `QueriesHaveOneAnswer` | `Spec => []QueriesAgree` |
| `AppProofs!TypeCorrect` | `Spec => []TypeOK` |
| `OnboardingHolds` | `Spec => []OnboardingIsWhole` |
| `SendersSign` | `Spec => []IdentityFollowsKeychain` |
| `AnalysisProofs!TypeCorrect` | `Spec => []TypeOK` |
| `BannersTrackWork` | `Spec => []BannerTracksWork` |
| `EnginesAreBounded` | `Spec => []EnginesBoundedByCallers` |
| `RefreshesAreFresh` | `Spec => RefreshIsFresh` |
| `TheBestAreShown` | `Spec => []BestAreShown` |
| `TheRulesAreTold` | `Spec => []RulesAreTold` |

Assumptions: those that the modules name, which say how messages, edges and forms
are typed, that a hash belongs to one envelope (`MessageAssumption`), and that
`"nobody"` is no key. `RetentionAssumption` has no counterpart in `Storage`: the
bound of a nonce's life is the TTL itself. `MessageAssumption` also says that no hash
is `"none"`, the value that stands for no anchor: the proof of `PagesTile` needs it,
and TLC's messages satisfied it unnoticed. `GraphAssumption` says that the edges of a
graph are a map's, no two the same, and `AnswerAssumption` that a parsed answer has
fields of the types `parseLLMOutput` looks for; neither limits their number.

The invariants. For the migration: an opening that is under way has found no row,
and the row is there only when all tables are, so a handle that is idle and never
threw has been through all of it. For nonces: a row that was last inserted is still
stored, unless its TTL is over. For keys: what has arrived from the keychain is
stored, no pair twice, and the last of it is what the keychain holds (`KeyInv`);
on that rests `IdentityInv`, which says of the value the disk will have after all
waiting writes (`Saved`), and of what was read at the start as long as no new key
was stored, that it is the profile of the keychain's key. `IdentityFollowsKeychain`
is not inductive without both: a later start reads what is on the disk. For
analyses (`Inv` in `AnalysisProofs`): a visit without an engine has created none
and loads at most one per caller, a call that returns with an engine never loads
again, so engines and loading calls together never outnumber the callers; and a
refresh under way is about a graph of `since`. What `Suggestions` computes matters
to none of it, so it stays unexpanded there.

For pages (`ReadersInv`): what a reader has got is the events at a set of positions of
its topic that is closed downwards. The anchor of the next page is the last of them
(`AnchorIsLast`), since no two events have one hash, and what is selected behind it
is the rest (`BehindAnchor`), whatever has been appended to other topics in between.

For the queries: the edges of the tables are finitely many (`FiniteTable`), however
many a caller may store, so they can be put in a sequence for the matcher. That both
readings agree rests on the foreign keys (`EdgesHaveNodes`): the query joins the
nodes, which the rule does not look up, and the summary skips an edge whose node is
gone, which the query does not.

For the ranking (`MatcherProofs`): of two kept suggestions one is ahead of the other,
and whoever is ahead has the lower rank (`RanksDiffer`), so that ranks are a bijection
by counting and `Sorted` is the kept suggestions in order of confidence (`SortedIs`);
a suggestion beyond the cut has as many as are shown in front of it. For what the
model is told: every need and offer of an aid is in one of the uncut lists
(`ListedAre`), and a node that three need has two others among its needers, so that
its label reaches the threshold of the summary (`BulksAreTold`); the two thresholds,
three and two, are one apart because the summary leaves the user out.

The lemmas of `SequenceProofs` state induction over sets of numbers rather than
predicates, because a theorem with an operator as parameter cannot be instantiated.
`Recursion` gives a recursive function its equation, `KeepSteps` and `Folding` are
instances of it, and `KeepPositions` says that what a filter keeps stands at the
selected positions, each once and in order; everything else is about that list.

Only model-checked. Liveness, which is out of the prover's reach:
`LoneListenerEnds`, `SubmissionsEnd`, `AnalysesEnd`. Every invariant and every
action property of the passing runs is a theorem. The violations are found by TLC.

## 5. Not modelled

- Several engines that exchange their logs. The adapter that would connect
  `requestSync` to an engine is not in the repository, and no code merges two
  chains; `Sync` takes an adapter that keeps the engine's rules, and
  `CausalBreak` shows what concurrent events come to.
- A restart of the engine. It begins with an empty state (`engineStore.ts:31`);
  nothing is stored that it could go on from.
- `dispose` of an engine, `reset` and `setTheme` of the settings, and the DHT,
  `start`, `stop` and `dial` of a network node: nothing calls them, or they only
  pass a call on to libp2p.
- The envelope that `buildAndSignMessage` builds, field by field: the engine's runs
  take any envelope, so they cover it.
- Layout, navigation and texts of the app (`ProjectDetailScreen`, `EventCard` and
  `MatchCard` only display), the demo script, and the algorithms of hashing and
  signing.
- The legacy scaffold, an earlier version of the protocol that nothing imports.
