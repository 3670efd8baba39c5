-------------------------------- MODULE Matcher --------------------------------
(***************************************************************************)
(* The matcher of community needs and resources                            *)
(* (packages/llm/src/matcher.ts): pure operators on a graph.               *)
(*                                                                         *)
(* A graph is a record of `nodes`, a function from the ids of its nodes to *)
(* the title and the label among their attributes, each of which may be    *)
(* "absent", and `edges`, the sequence of its edges in the order of the    *)
(* Map that holds them.  Ids hold no "::", so that an edge key splits into *)
(* the parts it was made of.  Confidences are in hundredths, and the       *)
(* titles of one type of suggestion are without the words that the rules   *)
(* put before each of them.                                                *)
(***************************************************************************)
EXTENDS Integers, Sequences, FiniteSets, SequencesExt, Subsequences

CONSTANTS
    MaxSuggestions,      \* ctx.maxSuggestions, 10
    OwnLimit,            \* lengths of the lists in a prompt, 5 and 20
    CommunityLimit,
    Normalized(_)        \* a title in lower case, with "_" for its spaces

ASSUME LimitAssumption ==
    MaxSuggestions \in Nat /\ OwnLimit \in Nat /\ CommunityLimit \in Nat

TotalNodes(g) == Cardinality(DOMAIN g.nodes)

\* What the rules call a node, to which an edge may lead when it is gone.
RuleLabel(g, n) ==
    IF n \in DOMAIN g.nodes /\ g.nodes[n].title # "absent" THEN g.nodes[n].title ELSE n

\* What the summary calls a node that is there; the rules know of no label.
SummaryLabel(g, n) ==
    IF g.nodes[n].title # "absent" THEN g.nodes[n].title
    ELSE IF g.nodes[n].label # "absent" THEN g.nodes[n].label ELSE n

EdgesOf(g, type) == Only(g.edges, {e \in ToSet(g.edges) : e.type = type})

\* The values of a sequence, in the order in which they come first.
Distinct(s) == Keep(s, {i \in DOMAIN s : \A j \in 1..(i - 1) : s[j] # s[i]})

-----------------------------------------------------------------------------
(* What the language model is told.                                        *)

\* The edges of a type to the nodes that exist, from `mine` (or from the others).
Linked(g, type, me, mine) ==
    Only(EdgesOf(g, type), {e \in ToSet(g.edges) : e.to \in DOMAIN g.nodes /\ (e.from = me) = mine})

UsersOf(of) == [i \in DOMAIN of |-> of[i].from]

SharedNeeds(g, me, least) ==
    LET named == Linked(g, "needs", me, FALSE)
        users(t) == UsersOf(Only(named, {e \in ToSet(named) : SummaryLabel(g, e.to) = t}))
    IN {[need |-> t, users |-> users(t)] :
          t \in {s \in {SummaryLabel(g, e.to) : e \in ToSet(named)} : Len(users(s)) >= least}}

\* Mutant: three others, as the comment above the code says.
NeedsOfThree(g, me) == SharedNeeds(g, me, 3)

\* Needs of at least two others, by label: a user who needs two nodes of one
\* label counts twice.
AggregatedNeeds(g, me) == SharedNeeds(g, me, 2)

\* The labels of the nodes that exist and `mine` (or the others) need or offer.
Listed(g, type, me, mine) ==
    LET of == Linked(g, type, me, mine)
    IN [i \in DOMAIN of |-> [user |-> of[i].from, title |-> SummaryLabel(g, of[i].to)]]

\* projects is the set of the projects' records, as far as the prompt shows them.
GraphSummary(g, projects, me) ==
    [totalNodes |-> TotalNodes(g),
     myNeeds |-> Listed(g, "needs", me, TRUE),
     myResources |-> Listed(g, "offers", me, TRUE),
     communityNeeds |-> Listed(g, "needs", me, FALSE),
     communityResources |-> Listed(g, "offers", me, FALSE),
     activeProjects |-> {p \in projects : p.status \in {"recruiting", "assigned", "active"}},
     aggregatedNeeds |-> AggregatedNeeds(g, me)]

\* The lists are cut at their end: a full one keeps the oldest edges.
Take(s, n) == SubSeq(s, 1, IF Len(s) < n THEN Len(s) ELSE n)

MatchingPrompt(summary) ==
    [myNeeds |-> Take(summary.myNeeds, OwnLimit),
     myResources |-> Take(summary.myResources, OwnLimit),
     communityNeeds |-> Take(summary.communityNeeds, CommunityLimit),
     communityResources |-> Take(summary.communityResources, CommunityLimit),
     aggregatedNeeds |-> {[need |-> n.need, count |-> Len(n.users)] : n \in summary.aggregatedNeeds},
     activeProjects |-> summary.activeProjects]

-----------------------------------------------------------------------------
(* Matching by rule.                                                       *)

Aid(g, me, need, offer) ==
    [id |-> <<"match", me, offer.from, need.to>>, type |-> "mutual_aid",
     title |-> RuleLabel(g, need.to), confidence |-> 85, participants |-> <<me, offer.from>>]

\* One for every need of mine and every other user who offers it.
MutualAid(g, me) ==
    LET needs == Only(EdgesOf(g, "needs"), {e \in ToSet(g.edges) : e.from = me})
        offers(n) == Only(EdgesOf(g, "offers"), {o \in ToSet(g.edges) : o.to = n.to /\ o.from # me})
        aids(n) == [j \in DOMAIN offers(n) |-> Aid(g, me, n, offers(n)[j])]
    IN FlattenSeq([i \in DOMAIN needs |-> aids(needs[i])])

\* Who needs a node.
NeedersOf(g, n) == UsersOf(Only(EdgesOf(g, "needs"), {e \in ToSet(g.edges) : e.to = n}))

Bulk(g, n) ==
    [id |-> <<"bulk", n>>, type |-> "bulk_purchase", title |-> RuleLabel(g, n), confidence |-> 75,
     participants |-> NeedersOf(g, n)]

\* One for every node that three users need, me included.
BulkPurchases(g) ==
    LET needs == EdgesOf(g, "needs")
        needed == Distinct([i \in DOMAIN needs |-> needs[i].to])
        wanted == Only(needed, {n \in ToSet(needed) : Len(NeedersOf(g, n)) >= 3})
    IN [i \in DOMAIN wanted |-> Bulk(g, wanted[i])]

RuleBased(g, me) == MutualAid(g, me) \o BulkPurchases(g)

-----------------------------------------------------------------------------
(* Matching by language model.  An answer is [read |-> FALSE] if the call   *)
(* throws or the text has no JSON array that can be read; otherwise it has *)
(* `items`, with fields that may be absent: a title or type is then        *)
(* "absent", a confidence <<>>, and `named` says that the participants are *)
(* there.                                                                  *)

Asks(g, llmReady) == llmReady /\ TotalNodes(g) >= 3

Clamped(c) == IF c < 0 THEN 0 ELSE IF c > 100 THEN 100 ELSE c

ParsedAnswer(answer, me) ==
    IF ~answer.read THEN <<>>
    ELSE LET items == Only(answer.items, {x \in ToSet(answer.items) : "absent" \notin {x.title, x.type}})
         IN [i \in DOMAIN items |->
               [id |-> <<"llm", i>>, type |-> items[i].type, title |-> items[i].title,
                confidence |-> IF items[i].confidence = <<>> THEN 60
                               ELSE Clamped(items[i].confidence[1]),
                participants |-> IF items[i].named THEN items[i].participants ELSE <<me>>]]

-----------------------------------------------------------------------------
(* The list that is shown.                                                 *)

Key(s) == <<s.type, Normalized(s.title)>>

\* The positions of the first suggestion of every key, and those of them that come
\* before position i when they are sorted (stably) by confidence.
Kept(all) == {i \in DOMAIN all : \A j \in 1..(i - 1) : Key(all[j]) # Key(all[i])}

Ahead(all, i) ==
    {j \in Kept(all) : \/ all[j].confidence > all[i].confidence
                       \/ all[j].confidence = all[i].confidence /\ j < i}

Sorted(all) ==
    [k \in 1..Cardinality(Kept(all)) |->
       all[CHOOSE i \in Kept(all) : Cardinality(Ahead(all, i)) = k - 1]]

\* Mutant: the list is cut before it is sorted.
CutThenSorted(all) == Sorted(Take(all, MaxSuggestions))

\* Mutant: it is not cut.
RankedInFull(all) == Sorted(all)

Ranked(all) == Take(Sorted(all), MaxSuggestions)

\* An empty graph is not looked at further.
Suggestions(g, me, answer) ==
    IF TotalNodes(g) = 0 THEN <<>>
    ELSE Ranked(RuleBased(g, me) \o ParsedAnswer(answer, me))
=============================================================================
