-------------------------------- MODULE Analysis --------------------------------
(***************************************************************************)
(* The hook useLLM (apps/mobile/src/hooks) with the engines it creates     *)
(* (packages/llm/src/llm-engine.ts), as the screens that mount it call it. *)
(* Every visit of a screen mounts a hook of its own: Hooks are the visits. *)
(* analyze is one step up to the first promise that takes time; the model  *)
(* file, the inference and the HTTP API behind these are external.         *)
(*                                                                         *)
(* The graph is the one of the engine store, which messages change at any  *)
(* time.                                                                   *)
(***************************************************************************)
EXTENDS Matcher

Unasked == [read |-> FALSE]

CONSTANTS
    Hooks,         \* visits of the screens
    Refreshable,   \* those of the screen that can be pulled to refresh
    Me,            \* profile.userId
    Graphs,        \* graphs the engine's state may hold
    Answers        \* what chat may return, see ParsedAnswer

ASSUME HookAssumption == Refreshable \subseteq Hooks

\* The edges of a graph are a Map, so that no two are the same.
ASSUME GraphAssumption ==
    \A g \in Graphs : /\ g.edges \in Seq([from : STRING, type : STRING, to : STRING])
                      /\ IsInjective(g.edges)

\* parseLLMOutput looks at the types of what it reads; no other confidence counts.
ASSUME AnswerAssumption ==
    \A a \in Answers : a.read =>
       a.items \in Seq([type : STRING, title : STRING, confidence : Seq(Int), named : {FALSE}] \union
                       [type : STRING, title : STRING, confidence : Seq(Int), named : {TRUE},
                        participants : Seq(STRING)])

VARIABLES
    backend,       \* "llama-rn", or "openai-compat" with USE_CLOUD_FALLBACK
    graph,
    hook           \* the state of every hook, and of the screen that mounts it

vars == <<backend, graph, hook>>

Callers(h) == IF h \in Refreshable THEN {"effect", "refresh"} ELSE {"effect"}

\* A call waits for an engine, or for the answer to what it asked.  What it asked and
\* what the rules found is kept as the graph of which both were made.
NoCall == [at |-> "idle"]
Loading == [at |-> "loading"]
Asking(g) == [at |-> "asking", of |-> g]

\* runMatcher, of a graph and an answer.
Matches == [g \in Graphs |-> [a \in Answers \union {Unasked} |-> Suggestions(g, Me, a)]]

NewHook(h) ==
    [mounted |-> "not yet",
     ready |-> FALSE,        \* engineRef.current is set; an engine stays ready
     engines |-> 0,          \* that were created, of which none is ever disposed
     isAnalyzing |-> FALSE, error |-> FALSE, suggestions |-> <<>>,
     refreshing |-> FALSE,
     calls |-> [c \in Callers(h) |-> NoCall],
     since |-> {}]           \* the graphs since its last refresh began (observed)

Init ==
    /\ backend \in {"llama-rn", "openai-compat"}
    /\ graph \in Graphs
    /\ hook = [h \in Hooks |-> NewHook(h)]

-----------------------------------------------------------------------------
(* What the parts of analyze make of a hook k.                             *)

\* Mutant: the spinner of the refresh follows isAnalyzing.
EndedTogether(k, c) ==
    [k EXCEPT !.calls[c] = NoCall, !.isAnalyzing = FALSE, !.refreshing = FALSE]

\* Mutant: there is no `finally`, and onRefresh is not resumed.
EndedByHalf(k, c) == [k EXCEPT !.calls[c] = NoCall]

\* `finally`, and what onRefresh does after its await.
Ended(k, c) ==
    [k EXCEPT !.calls[c] = NoCall, !.isAnalyzing = FALSE,
              !.refreshing = k.refreshing /\ c # "refresh"]

Shown(k, c, list) == [Ended(k, c) EXCEPT !.suggestions = list]

Began(k, c) ==
    [k EXCEPT !.isAnalyzing = TRUE, !.error = FALSE,
              !.refreshing = k.refreshing \/ c = "refresh",
              !.since = IF c = "refresh" THEN {graph} ELSE k.since]

Created(k) == [k EXCEPT !.ready = TRUE, !.engines = k.engines + 1]

\* runMatcher reads the graph, and is done unless it asks the language model.
RunMatcher(k, c) ==
    IF Asks(graph, k.ready)
    THEN [k EXCEPT !.calls[c] = Asking(graph)]
    ELSE Shown(k, c, Matches[graph][Unasked])

\* Mutant: nobody looks whether there is an engine.
AlwaysCreates(k, c) ==
    IF backend = "llama-rn" THEN [k EXCEPT !.calls[c] = Loading] ELSE RunMatcher(Created(k), c)

\* getOrCreateEngine: the engine for an HTTP API is there at once.
WithEngine(k, c) ==
    IF k.ready THEN RunMatcher(k, c)
    ELSE IF backend = "llama-rn" THEN [k EXCEPT !.calls[c] = Loading]
    ELSE RunMatcher(Created(k), c)

\* analyze.  It returns early without a state or a profile; the screens that mount
\* the hook are entered when there are both.
Analyze(k, c) == WithEngine(Began(k, c), c)

-----------------------------------------------------------------------------

\* A screen is entered: its effect analyses.
Mount(h) ==
    /\ hook[h].mounted = "not yet"
    /\ hook' = [hook EXCEPT ![h] = Analyze([hook[h] EXCEPT !.mounted = "now"], "effect")]
    /\ UNCHANGED <<backend, graph>>

\* It is left; its calls go on, and what they set is not seen.
Unmount(h) ==
    /\ hook[h].mounted = "now"
    /\ hook' = [hook EXCEPT ![h].mounted = "no more"]
    /\ UNCHANGED <<backend, graph>>

\* A list whose spinner turns cannot be pulled.
OnRefresh(h) ==
    /\ h \in Refreshable
    /\ hook[h].mounted = "now" /\ ~hook[h].refreshing
    /\ hook' = [hook EXCEPT ![h] = Analyze(hook[h], "refresh")]
    /\ UNCHANGED <<backend, graph>>

\* initLlama is done.  Another call of the hook may have been faster; its engine
\* is forgotten.
LlamaLoads(h, c) ==
    /\ hook[h].calls[c] = Loading
    /\ hook' = [hook EXCEPT ![h] = RunMatcher(Created(hook[h]), c)]
    /\ UNCHANGED <<backend, graph>>

\* Mutant: the error leaves analyze, and onRefresh is not resumed.
LlamaFailsLoudly(h, c) ==
    /\ hook[h].calls[c] = Loading
    /\ hook' = [hook EXCEPT ![h] = [Ended(hook[h], c) EXCEPT !.error = TRUE,
                                     !.refreshing = hook[h].refreshing]]
    /\ UNCHANGED <<backend, graph>>

\* The model file is not there, or there is no memory for it: what the rules would
\* have found is not looked for.
LlamaFails(h, c) ==
    /\ hook[h].calls[c] = Loading
    /\ hook' = [hook EXCEPT ![h] = [Ended(hook[h], c) EXCEPT !.error = TRUE]]
    /\ UNCHANGED <<backend, graph>>

\* chat returns or throws.
ChatEnds(h, c, answer) ==
    /\ hook[h].calls[c].at = "asking"
    /\ hook' = [hook EXCEPT ![h] = Shown(hook[h], c, Matches[hook[h].calls[c].of][answer])]
    /\ UNCHANGED <<backend, graph>>

\* The engine processes messages.
GraphChanges ==
    /\ graph' \in Graphs \ {graph}
    /\ hook' = [h \in Hooks |->
                  IF hook[h].refreshing
                  THEN [hook[h] EXCEPT !.since = hook[h].since \union {graph'}]
                  ELSE hook[h]]
    /\ UNCHANGED backend

Settle(h, c) == LlamaLoads(h, c) \/ LlamaFails(h, c) \/ \E a \in Answers : ChatEnds(h, c, a)

Next ==
    \/ \E h \in Hooks : Mount(h) \/ Unmount(h) \/ OnRefresh(h)
    \/ \E h \in Hooks : \E c \in Callers(h) : Settle(h, c)
    \/ GraphChanges

\* Loading and inference end, well or not.
Spec ==
    /\ Init /\ [][Next]_vars
    /\ \A h \in Hooks : \A c \in Callers(h) : WF_vars(Settle(h, c))

-----------------------------------------------------------------------------

CallType == {NoCall, Loading} \union {Asking(g) : g \in Graphs}

TypeOK ==
    /\ backend \in {"llama-rn", "openai-compat"} /\ graph \in Graphs
    /\ \A h \in Hooks :
         /\ hook[h].mounted \in {"not yet", "now", "no more"}
         /\ {hook[h].ready, hook[h].isAnalyzing, hook[h].error, hook[h].refreshing} \subseteq BOOLEAN
         /\ hook[h].engines \in Nat
         /\ hook[h].calls \in [Callers(h) -> CallType]
         /\ hook[h].since \subseteq Graphs
         /\ Len(hook[h].suggestions) <= MaxSuggestions

\* isAnalyzing is never left set: as long as a screen says that it analyses, a call
\* is under way (the converse fails as soon as two calls overlap).
BannerTracksWork ==
    \A h \in Hooks : hook[h].isAnalyzing => \E c \in Callers(h) : hook[h].calls[c] # NoCall

\* However calls overlap, fail and are repeated, a visit never loads more models
\* than it has callers, although overlapping calls each load one.
EnginesBoundedByCallers ==
    \A h \in Hooks :
      hook[h].engines + Cardinality({c \in Callers(h) : hook[h].calls[c] = Loading})
        <= Cardinality(Callers(h))

\* When the spinner of a refresh stops, without an error, the list is what the
\* matcher makes of a graph no older than the refresh, whatever other call the
\* refresh overlapped.
RefreshIsFresh ==
    [][\A h \in Refreshable :
         hook[h].refreshing /\ ~hook'[h].refreshing =>
           \/ hook'[h].error
           \/ \E g \in hook'[h].since, a \in Answers \union {Unasked} : hook'[h].suggestions = Matches[g][a]]_vars

\* No banner and no spinner turns for ever.
AnalysesEnd ==
    \A h \in Hooks :
      /\ hook[h].isAnalyzing ~> ~hook[h].isAnalyzing
      /\ hook[h].refreshing ~> ~hook[h].refreshing

RanksBest(g, answer) ==
    LET all == RuleBased(g, Me) \o ParsedAnswer(answer, Me)
        list == Ranked(all)
    IN /\ Cardinality({Key(list[i]) : i \in DOMAIN list}) = Len(list)
       /\ \A i \in DOMAIN all :
            \/ all[i] \in ToSet(list)
            \/ \E j \in 1..(i - 1) : Key(all[j]) = Key(all[i])
            \/ /\ Len(list) = MaxSuggestions
               /\ \A j \in DOMAIN list : list[j].confidence >= all[i].confidence

TellsWhatRulesFind(g) ==
    LET summary == GraphSummary(g, {}, Me)
        prompt == MatchingPrompt(summary)
        uncut == Len(summary.myNeeds) <= OwnLimit /\ Len(summary.communityResources) <= CommunityLimit
        aids == {s \in ToSet(MutualAid(g, Me)) : s.id[4] \in DOMAIN g.nodes}
        bulks == {s \in ToSet(BulkPurchases(g)) : s.id[2] \in DOMAIN g.nodes}
    IN /\ uncut => \A s \in aids :
            LET label == SummaryLabel(g, s.id[4])
            IN /\ [user |-> Me, title |-> label] \in ToSet(prompt.myNeeds)
               /\ [user |-> s.participants[2], title |-> label] \in ToSet(prompt.communityResources)
       /\ \A s \in bulks : \E n \in prompt.aggregatedNeeds :
            n.need = SummaryLabel(g, s.id[2]) /\ n.count + 1 >= Len(s.participants)

\* Sets of graphs, so that every graph is looked at once.
RankedGraphs == {g \in Graphs : \A a \in Answers : RanksBest(g, a)}
ToldGraphs == {g \in Graphs : TellsWhatRulesFind(g)}

\* What is shown is the best of what was found, each key once: a suggestion that is
\* missing repeats the key of an earlier one (and may be better than that), or is no
\* better than all that are shown.
BestAreShown == graph \in RankedGraphs

\* What the rules find the language model is told of, as far as its lists are long
\* enough and the nodes are there: the need and the offer of every mutual aid, and
\* the need that every bulk purchase would serve, with how many others have it.  The
\* prompt says this by the summary's name of the node, which is another than the
\* rule's if the node has a label and no title.
RulesAreTold == graph \in ToldGraphs
================================================================================
