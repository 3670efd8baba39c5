----------------------------- MODULE AnalysisProofs ----------------------------
(***************************************************************************)
(* What overlapping analyses of a visit keep, for any graphs and answers   *)
(* and any number of visits; and what the matcher makes of them: that the  *)
(* best are shown, and that the language model is told what rules find.    *)
(***************************************************************************)
EXTENDS Analysis, MatcherProofs

AnyAnswer == Answers \union {Unasked}

Outcomes == {<<>>} \union {Matches[g][a] : g \in Graphs, a \in AnyAnswer}

HookType(h) ==
    [mounted : {"not yet", "now", "no more"}, ready : BOOLEAN, engines : Nat,
     isAnalyzing : BOOLEAN, error : BOOLEAN,
     suggestions : Outcomes,
     refreshing : BOOLEAN, calls : [Callers(h) -> CallType], since : SUBSET Graphs]

LoadingIn(h, k) == {c \in Callers(h) : k.calls[c] = Loading}

\* A banner has its call; the engines of a hook that has none yet are none, and no
\* caller has yet to bring its own once there is one but those that are loading; and
\* a refresh under way is about a graph that is no older than it.
Good(h, k, b, g) ==
    /\ k \in HookType(h)
    /\ k.isAnalyzing => \E c \in Callers(h) : k.calls[c] # NoCall
    /\ IF k.ready THEN k.engines + Cardinality(LoadingIn(h, k)) <= Cardinality(Callers(h))
       ELSE k.engines = 0
    /\ b # "llama-rn" => LoadingIn(h, k) = {}
    /\ k.refreshing =>
         /\ h \in Refreshable /\ g \in k.since
         /\ k.calls["refresh"] = Loading \/ \E f \in k.since : k.calls["refresh"] = Asking(f)

Inv == /\ backend \in {"llama-rn", "openai-compat"} /\ graph \in Graphs
       /\ hook = [h \in Hooks |-> hook[h]]
       /\ \A h \in Hooks : Good(h, hook[h], backend, graph)

-----------------------------------------------------------------------------

\* The stages of a call are told apart.
LEMMA Stages ==
    /\ NoCall \in CallType /\ Loading \in CallType /\ NoCall # Loading
    /\ NoCall.at = "idle" /\ Loading.at = "loading"
    /\ \A g : Asking(g).at = "asking" /\ Asking(g).of = g /\ Asking(g) \notin {NoCall, Loading}
    /\ \A g \in Graphs : Asking(g) \in CallType
<1>1. NoCall.at = "idle" /\ Loading.at = "loading"
  BY DEF NoCall, Loading
<1>2. \A g : Asking(g).at = "asking" /\ Asking(g).of = g
  BY DEF Asking
<1>3. NoCall # Loading /\ \A g : Asking(g) \notin {NoCall, Loading}
  BY <1>1, <1>2
<1> QED BY <1>1, <1>2, <1>3 DEF CallType

\* A hook has a caller, and finitely many.
LEMMA CallersAreFinite ==
    ASSUME NEW h
    PROVE  /\ "effect" \in Callers(h) /\ (h \in Refreshable <=> "refresh" \in Callers(h))
           /\ IsFiniteSet(Callers(h)) /\ Cardinality(Callers(h)) \in Nat \ {0}
<1>1. "effect" \in Callers(h) /\ (h \in Refreshable <=> "refresh" \in Callers(h))
  BY DEF Callers
<1>2. IsFiniteSet({"effect"}) /\ IsFiniteSet({"effect", "refresh"})
  <2>1. {"effect", "refresh"} = {"effect"} \union {"refresh"}
    OBVIOUS
  <2>2. IsFiniteSet({"effect"}) /\ IsFiniteSet({"effect"} \union {"refresh"})
    BY FS_Singleton, FS_AddElement
  <2> QED BY <2>1, <2>2
<1>3. IsFiniteSet(Callers(h))
  BY <1>2 DEF Callers
<1> QED BY <1>1, <1>3, FS_CardinalityType, FS_EmptySet

\* How many calls load, without one of them.
LEMMA FewerLoad ==
    ASSUME NEW h, NEW k, NEW c
    PROVE  /\ Cardinality(LoadingIn(h, k)) \in 0..Cardinality(Callers(h))
           /\ Cardinality(LoadingIn(h, k) \ {c}) =
                Cardinality(LoadingIn(h, k)) - (IF c \in LoadingIn(h, k) THEN 1 ELSE 0)
<1>1. LoadingIn(h, k) \subseteq Callers(h)
  BY DEF LoadingIn
<1>2. /\ IsFiniteSet(LoadingIn(h, k)) /\ Cardinality(LoadingIn(h, k)) \in Nat
      /\ Cardinality(LoadingIn(h, k)) <= Cardinality(Callers(h))
  BY <1>1, CallersAreFinite, FS_Subset, FS_CardinalityType
<1>3. Cardinality(LoadingIn(h, k) \ {c}) =
        Cardinality(LoadingIn(h, k)) - (IF c \in LoadingIn(h, k) THEN 1 ELSE 0)
  <2>1. CASE c \in LoadingIn(h, k)
    BY <1>2, <2>1, FS_RemoveElement
  <2>2. CASE c \notin LoadingIn(h, k)
    <3>1. LoadingIn(h, k) \ {c} = LoadingIn(h, k)
      BY <2>2
    <3> QED BY <1>2, <2>2, <3>1
  <2> QED BY <2>1, <2>2
<1> QED BY <1>2, <1>3, CallersAreFinite

\* A call that is no longer loading is one less that is.
LEMMA NotLoading ==
    ASSUME NEW h, NEW k \in HookType(h), NEW c \in Callers(h), NEW r,
           NEW v, v # Loading, r.calls = [k.calls EXCEPT ![c] = v]
    PROVE  LoadingIn(h, r) = LoadingIn(h, k) \ {c}
<1>1. k.calls \in [Callers(h) -> CallType]
  BY DEF HookType
<1>2. \A d \in Callers(h) : r.calls[d] = IF d = c THEN v ELSE k.calls[d]
  BY <1>1
<1> QED BY <1>2 DEF LoadingIn

\* What the end of a call does.
LEMMA EndedIs ==
    ASSUME NEW h, NEW k \in HookType(h), NEW c \in Callers(h)
    PROVE  /\ Ended(k, c) \in HookType(h)
           /\ Ended(k, c).calls = [k.calls EXCEPT ![c] = NoCall] /\ ~Ended(k, c).isAnalyzing
           /\ (Ended(k, c).refreshing <=> k.refreshing /\ c # "refresh")
           /\ Ended(k, c).ready = k.ready /\ Ended(k, c).engines = k.engines
           /\ Ended(k, c).since = k.since
<1>1. [k.calls EXCEPT ![c] = NoCall] \in [Callers(h) -> CallType]
  BY Stages DEF HookType
<1> QED BY <1>1 DEF Ended, HookType

\* What a new engine does.
LEMMA CreatedIs ==
    ASSUME NEW h, NEW k \in HookType(h)
    PROVE  /\ Created(k) \in HookType(h) /\ Created(k).ready
           /\ Created(k).engines = k.engines + 1 /\ Created(k).calls = k.calls
           /\ Created(k).isAnalyzing = k.isAnalyzing
           /\ Created(k).refreshing = k.refreshing /\ Created(k).since = k.since
<1>1. k.engines \in Nat
  BY DEF HookType
<1>2. k.engines + 1 \in Nat
  BY <1>1
<1>3. \A n \in Nat : [k EXCEPT !.ready = TRUE, !.engines = n] \in HookType(h)
  BY DEF HookType
<1>4. Created(k) \in HookType(h)
  BY <1>2, <1>3 DEF Created
<1>5. Created(k).ready /\ Created(k).engines = k.engines + 1
  BY DEF Created, HookType
<1>6. Created(k).calls = k.calls /\ Created(k).since = k.since
  BY DEF Created, HookType
<1>7. Created(k).isAnalyzing = k.isAnalyzing /\ Created(k).refreshing = k.refreshing
  BY DEF Created, HookType
<1> QED BY <1>4, <1>5, <1>6, <1>7

\* What is shown, or an error, at the end of a call changes nothing else.
LEMMA ShownIs ==
    ASSUME NEW h, NEW k \in HookType(h), NEW c \in Callers(h), NEW r,
           \/ r = [Ended(k, c) EXCEPT !.error = TRUE]
           \/ \E list \in Outcomes : r = Shown(k, c, list)
    PROVE  /\ r \in HookType(h)
           /\ r.calls = [k.calls EXCEPT ![c] = NoCall] /\ ~r.isAnalyzing
           /\ (r.refreshing <=> k.refreshing /\ c # "refresh")
           /\ r.ready = k.ready /\ r.engines = k.engines /\ r.since = k.since
           /\ r = [Ended(k, c) EXCEPT !.error = TRUE] => r.error
           /\ \A list \in Outcomes : r = Shown(k, c, list) => r.suggestions = list
<1> DEFINE e == Ended(k, c)
<1>1. e \in HookType(h)
  BY EndedIs
<1>2. \/ r = [e EXCEPT !.error = TRUE]
      \/ \E list \in Outcomes : r = [e EXCEPT !.suggestions = list]
  BY DEF Shown
<1> HIDE DEF e
<1>3. r \in HookType(h)
  BY <1>1, <1>2 DEF HookType
<1>4. r.calls = e.calls /\ r.since = e.since /\ r.engines = e.engines
  BY <1>1, <1>2 DEF HookType
<1>5. r.isAnalyzing = e.isAnalyzing /\ r.refreshing = e.refreshing /\ r.ready = e.ready
  BY <1>1, <1>2 DEF HookType
<1>6. r = [e EXCEPT !.error = TRUE] => r.error
  BY <1>1 DEF HookType
<1>7. ASSUME NEW list \in Outcomes, r = Shown(k, c, list) PROVE r.suggestions = list
  <2>1. r = [e EXCEPT !.suggestions = list]
    BY <1>7 DEF Shown, e
  <2> QED BY <1>1, <2>1 DEF HookType
<1> QED BY <1>3, <1>4, <1>5, <1>6, <1>7, EndedIs DEF e

\* What hook r a call c of hook k leaves that goes on to the matcher.
Matched(h, k, c, r) ==
    /\ r \in HookType(h)
    /\ r.ready = k.ready /\ r.engines = k.engines /\ r.since = k.since
    /\ \/ /\ r.calls = [k.calls EXCEPT ![c] = Asking(graph)]
          /\ r.isAnalyzing = k.isAnalyzing /\ r.refreshing = k.refreshing
       \/ /\ r.calls = [k.calls EXCEPT ![c] = NoCall] /\ ~r.isAnalyzing
          /\ (r.refreshing <=> k.refreshing /\ c # "refresh")
          /\ r.suggestions = Matches[graph][Unasked]

\* It ends there, or asks; it loads no more.
LEMMA RunMatcherIs ==
    ASSUME NEW h, NEW k \in HookType(h), NEW c \in Callers(h), graph \in Graphs
    PROVE  Matched(h, k, c, RunMatcher(k, c))
<1> DEFINE r == RunMatcher(k, c)
<1>1. CASE Asks(graph, k.ready)
  <2>1. r = [k EXCEPT !.calls[c] = Asking(graph)]
    BY <1>1 DEF RunMatcher
  <2>2. [k.calls EXCEPT ![c] = Asking(graph)] \in [Callers(h) -> CallType]
    BY Stages DEF HookType
  <2> HIDE DEF r
  <2>3. Matched(h, k, c, r)
    BY <2>1, <2>2 DEF HookType, Matched
  <2> QED BY <2>3 DEF r
<1>2. CASE ~Asks(graph, k.ready)
  <2>1. r = Shown(k, c, Matches[graph][Unasked])
    BY <1>2 DEF RunMatcher
  <2>2. Matches[graph][Unasked] \in Outcomes
    BY DEF Outcomes, AnyAnswer
  <2> HIDE DEF r
  <2>3. Matched(h, k, c, r)
    BY <2>1, <2>2, ShownIs DEF Matched
  <2> QED BY <2>3 DEF r
<1> QED BY <1>1, <1>2

-----------------------------------------------------------------------------
(* The steps of one hook.                                                  *)

\* A call that goes on to the matcher leaves its hook good, if all but what it was
\* doing is.
LEMMA RunStep ==
    ASSUME NEW h, NEW e \in HookType(h), NEW c \in Callers(h), graph \in Graphs, e.ready,
           e.engines + Cardinality(LoadingIn(h, e) \ {c}) <= Cardinality(Callers(h)),
           backend # "llama-rn" => LoadingIn(h, e) \ {c} = {},
           e.refreshing => h \in Refreshable /\ graph \in e.since,
           e.refreshing /\ c # "refresh" =>
             e.calls["refresh"] = Loading \/ \E f \in e.since : e.calls["refresh"] = Asking(f)
    PROVE  Good(h, RunMatcher(e, c), backend, graph)
<1> DEFINE r == RunMatcher(e, c)
<1>0. Matched(h, e, c, r)
  BY RunMatcherIs
<1> HIDE DEF r
<1>1. r \in HookType(h) /\ r.ready = e.ready /\ r.engines = e.engines /\ r.since = e.since
  BY <1>0 DEF Matched
<1>2. \/ /\ r.calls = [e.calls EXCEPT ![c] = Asking(graph)] /\ r.refreshing = e.refreshing
      \/ /\ r.calls = [e.calls EXCEPT ![c] = NoCall] /\ ~r.isAnalyzing
         /\ (r.refreshing <=> e.refreshing /\ c # "refresh")
  BY <1>0 DEF Matched
<1>3. e.calls \in [Callers(h) -> CallType]
  BY DEF HookType
<1>4. LoadingIn(h, r) = LoadingIn(h, e) \ {c}
  BY <1>2, NotLoading, Stages
<1>5. r.isAnalyzing => \E d \in Callers(h) : r.calls[d] # NoCall
  <2>1. CASE r.isAnalyzing
    <3>1. r.calls = [e.calls EXCEPT ![c] = Asking(graph)]
      BY <1>2, <2>1
    <3>2. r.calls[c] = Asking(graph)
      BY <1>3, <3>1
    <3> QED BY <3>2, Stages
  <2> QED BY <2>1
<1>6. r.ready /\ r.engines + Cardinality(LoadingIn(h, r)) <= Cardinality(Callers(h))
  BY <1>1, <1>4
<1>7. backend # "llama-rn" => LoadingIn(h, r) = {}
  BY <1>4
<1>8. ASSUME r.refreshing
      PROVE  /\ h \in Refreshable /\ graph \in r.since
             /\ r.calls["refresh"] = Loading \/ \E f \in r.since : r.calls["refresh"] = Asking(f)
  <2>1. e.refreshing /\ h \in Refreshable /\ graph \in r.since /\ "refresh" \in Callers(h)
    BY <1>1, <1>2, <1>8, CallersAreFinite
  <2>2. CASE c = "refresh"
    <3>1. r.calls = [e.calls EXCEPT ![c] = Asking(graph)]
      BY <1>2, <1>8, <2>2
    <3> QED BY <1>3, <2>1, <2>2, <3>1
  <2>3. CASE c # "refresh"
    <3>1. r.calls["refresh"] = e.calls["refresh"]
      BY <1>2, <1>3, <2>1, <2>3
    <3> QED BY <1>1, <2>1, <2>3, <3>1
  <2> QED BY <2>2, <2>3
<1>9. Good(h, r, backend, graph)
  BY <1>1, <1>5, <1>6, <1>7, <1>8 DEF Good
<1> QED BY <1>9 DEF r

\* A call that begins leaves its hook good.
LEMMA AnalyzeStep ==
    ASSUME NEW h, NEW k, Good(h, k, backend, graph), graph \in Graphs,
           NEW c \in Callers(h), NEW r, r = Analyze(k, c)
    PROVE  Good(h, r, backend, graph)
<1> DEFINE q == Began(k, c)
<1>1. /\ q \in HookType(h) /\ q.isAnalyzing /\ q.calls = k.calls
      /\ q.ready = k.ready /\ q.engines = k.engines
      /\ (q.refreshing <=> k.refreshing \/ c = "refresh")
      /\ q.since = IF c = "refresh" THEN {graph} ELSE k.since
    BY DEF Began, Good, HookType
<1>2. /\ k.calls \in [Callers(h) -> CallType] /\ k.engines \in Nat
      /\ LoadingIn(h, q) = LoadingIn(h, k)
  <2>1. k.calls \in [Callers(h) -> CallType] /\ k.engines \in Nat
    BY DEF Good, HookType
  <2> QED BY <1>1, <2>1 DEF LoadingIn
<1>3. CASE k.ready
  <2>1. q.ready /\ r = RunMatcher(q, c)
    BY <1>1, <1>3 DEF Analyze, WithEngine
  <2> HIDE DEF q
  <2>2. q.engines + Cardinality(LoadingIn(h, q) \ {c}) <= Cardinality(Callers(h))
    BY <1>1, <1>2, <1>3, FewerLoad, CallersAreFinite DEF Good
  <2>3. /\ backend # "llama-rn" => LoadingIn(h, q) \ {c} = {}
        /\ q.refreshing => h \in Refreshable /\ graph \in q.since
        /\ q.refreshing /\ c # "refresh" =>
             q.calls["refresh"] = Loading \/ \E f \in q.since : q.calls["refresh"] = Asking(f)
    BY <1>1, <1>2, CallersAreFinite DEF Good
  <2> QED BY <1>1, <1>3, <2>1, <2>2, <2>3, RunStep
<1>4. CASE ~k.ready /\ backend # "llama-rn"
  <2> DEFINE e == Created(q)
  <2>1. r = RunMatcher(e, c)
    BY <1>1, <1>4 DEF Analyze, WithEngine
  <2>2. /\ e \in HookType(h) /\ e.ready /\ e.calls = q.calls
        /\ e.refreshing = q.refreshing /\ e.since = q.since /\ e.engines = q.engines + 1
    BY <1>1, CreatedIs
  <2> HIDE DEF q, e
  <2>3. LoadingIn(h, e) = {} /\ e.engines = 1
    <3>1. LoadingIn(h, k) = {} /\ k.engines = 0
      BY <1>4 DEF Good
    <3> QED BY <1>1, <1>2, <2>2, <3>1 DEF LoadingIn
  <2>4. e.engines + Cardinality(LoadingIn(h, e) \ {c}) <= Cardinality(Callers(h))
    <3>1. LoadingIn(h, e) \ {c} = {}
      BY <2>3
    <3> QED BY <2>3, <3>1, FS_EmptySet, CallersAreFinite
  <2>5. /\ backend # "llama-rn" => LoadingIn(h, e) \ {c} = {}
        /\ e.refreshing => h \in Refreshable /\ graph \in e.since
        /\ e.refreshing /\ c # "refresh" =>
             e.calls["refresh"] = Loading \/ \E f \in e.since : e.calls["refresh"] = Asking(f)
    BY <1>1, <2>2, <2>3, CallersAreFinite DEF Good
  <2> QED BY <2>1, <2>2, <2>4, <2>5, RunStep
<1>5. CASE ~k.ready /\ backend = "llama-rn"
  <2>1. r = [q EXCEPT !.calls = [q.calls EXCEPT ![c] = Loading]]
    BY <1>1, <1>5 DEF Analyze, WithEngine
  <2> HIDE DEF q
  <2> DEFINE calls == [k.calls EXCEPT ![c] = Loading]
  <2>2. calls \in [Callers(h) -> CallType] /\ r = [q EXCEPT !.calls = calls]
    BY <1>1, <1>2, <2>1, Stages
  <2>3. calls[c] = Loading /\ \A d \in Callers(h) : d # c => calls[d] = k.calls[d]
    BY <1>2
  <2> HIDE DEF calls
  <2>4. r \in HookType(h) /\ r.calls = calls /\ r.engines = q.engines /\ r.since = q.since
    BY <1>1, <2>2 DEF HookType
  <2>5. r.ready = q.ready /\ r.isAnalyzing = q.isAnalyzing /\ r.refreshing = q.refreshing
    BY <1>1, <2>2 DEF HookType
  <2>6. r.isAnalyzing => \E d \in Callers(h) : r.calls[d] # NoCall
    BY <2>3, <2>4, Stages
  <2>7. ~r.ready /\ r.engines = 0
    BY <1>1, <1>5, <2>4, <2>5 DEF Good
  <2>8. r.refreshing =>
          /\ h \in Refreshable /\ graph \in r.since
          /\ r.calls["refresh"] = Loading \/ \E f \in r.since : r.calls["refresh"] = Asking(f)
    BY <1>1, <2>3, <2>4, <2>5, CallersAreFinite DEF Good
  <2> QED BY <1>5, <2>4, <2>6, <2>7, <2>8 DEF Good
<1> QED BY <1>3, <1>4, <1>5

\* So does one whose engine, or whose answer, has come or failed.
LEMMA SettleStep ==
    ASSUME NEW h, NEW k, Good(h, k, backend, graph), graph \in Graphs, NEW c \in Callers(h), NEW r,
           \/ k.calls[c] = Loading /\ r = RunMatcher(Created(k), c)
           \/ k.calls[c] = Loading /\ r = [Ended(k, c) EXCEPT !.error = TRUE]
           \/ \E a \in Answers : k.calls[c].at = "asking" /\ r = Shown(k, c, Matches[k.calls[c].of][a])
    PROVE  Good(h, r, backend, graph)
<1>0. k \in HookType(h) /\ k.calls \in [Callers(h) -> CallType]
    BY DEF Good, HookType
<1>1. CASE k.calls[c] = Loading /\ r = RunMatcher(Created(k), c)
  <2> DEFINE e == Created(k)
  <2>1. /\ e \in HookType(h) /\ e.ready /\ e.calls = k.calls
        /\ e.refreshing = k.refreshing /\ e.since = k.since /\ e.engines = k.engines + 1
    BY <1>0, CreatedIs
  <2>2. r = RunMatcher(e, c)
    BY <1>1
  <2> HIDE DEF e
  <2>3. LoadingIn(h, e) = LoadingIn(h, k) /\ c \in LoadingIn(h, k) /\ k.engines \in Nat
    <3>1. k.engines \in Nat
      BY <1>0 DEF HookType
    <3> QED BY <1>1, <2>1, <3>1 DEF LoadingIn
  <2>4. /\ Cardinality(LoadingIn(h, k) \ {c}) = Cardinality(LoadingIn(h, k)) - 1
        /\ Cardinality(LoadingIn(h, k)) \in 0..Cardinality(Callers(h))
    BY <2>3, FewerLoad
  <2>5. e.engines + Cardinality(LoadingIn(h, e) \ {c}) <= Cardinality(Callers(h))
    <3>1. k.engines + Cardinality(LoadingIn(h, k)) <= Cardinality(Callers(h))
      BY <2>4, CallersAreFinite DEF Good
    <3> QED BY <2>1, <2>3, <2>4, <3>1, CallersAreFinite
  <2>6. /\ backend # "llama-rn" => LoadingIn(h, e) \ {c} = {}
        /\ e.refreshing => h \in Refreshable /\ graph \in e.since
        /\ e.refreshing /\ c # "refresh" =>
             e.calls["refresh"] = Loading \/ \E f \in e.since : e.calls["refresh"] = Asking(f)
    BY <2>1, <2>3 DEF Good
  <2> QED BY <2>1, <2>2, <2>5, <2>6, RunStep
<1>2. ASSUME \/ r = [Ended(k, c) EXCEPT !.error = TRUE]
             \/ \E list \in Outcomes : r = Shown(k, c, list)
      PROVE  Good(h, r, backend, graph)
  <2>1. /\ r \in HookType(h) /\ r.calls = [k.calls EXCEPT ![c] = NoCall] /\ ~r.isAnalyzing
        /\ (r.refreshing <=> k.refreshing /\ c # "refresh")
        /\ r.ready = k.ready /\ r.engines = k.engines /\ r.since = k.since
    BY <1>0, <1>2, ShownIs
  <2>2. LoadingIn(h, r) = LoadingIn(h, k) \ {c}
    BY <1>0, <2>1, NotLoading, Stages
  <2>3. IF r.ready THEN r.engines + Cardinality(LoadingIn(h, r)) <= Cardinality(Callers(h))
        ELSE r.engines = 0
    <3>1. k.engines \in Nat
      BY <1>0 DEF HookType
    <3>2. /\ Cardinality(LoadingIn(h, r)) \in Nat /\ Cardinality(LoadingIn(h, k)) \in Nat
          /\ Cardinality(LoadingIn(h, r)) <= Cardinality(LoadingIn(h, k))
      BY <2>2, FewerLoad, CallersAreFinite
    <3> QED BY <2>1, <3>1, <3>2, CallersAreFinite DEF Good
  <2>4. backend # "llama-rn" => LoadingIn(h, r) = {}
    BY <2>2 DEF Good
  <2>5. r.refreshing =>
          /\ h \in Refreshable /\ graph \in r.since
          /\ r.calls["refresh"] = Loading \/ \E f \in r.since : r.calls["refresh"] = Asking(f)
    BY <1>0, <2>1, CallersAreFinite DEF Good
  <2> QED BY <2>1, <2>2, <2>3, <2>4, <2>5 DEF Good
<1>3. ASSUME NEW a \in Answers, k.calls[c].at = "asking"
      PROVE  Matches[k.calls[c].of][a] \in Outcomes
  <2>1. k.calls[c].of \in Graphs
    BY <1>0, <1>3, Stages DEF CallType
  <2> QED BY <2>1 DEF AnyAnswer, Outcomes
<1> QED BY <1>1, <1>2, <1>3

\* Changes that touch no call.
LEMMA OtherStep ==
    ASSUME NEW h, NEW k, NEW g, NEW f, Good(h, k, backend, g), f \in Graphs, g \in Graphs
    PROVE  /\ Good(h, [k EXCEPT !.mounted = "no more"], backend, g)
           /\ Good(h, [k EXCEPT !.mounted = "now"], backend, g)
           /\ k.refreshing => Good(h, [k EXCEPT !.since = k.since \union {f}], backend, f)
           /\ ~k.refreshing => Good(h, k, backend, f)
<1>1. ASSUME NEW m \in {"now", "no more"} PROVE Good(h, [k EXCEPT !.mounted = m], backend, g)
  <2> DEFINE r == [k EXCEPT !.mounted = m]
  <2>1. /\ r \in HookType(h) /\ r.calls = k.calls /\ r.isAnalyzing = k.isAnalyzing
        /\ r.ready = k.ready /\ r.engines = k.engines
        /\ r.refreshing = k.refreshing /\ r.since = k.since
    BY DEF Good, HookType
  <2> HIDE DEF r
  <2>2. Good(h, r, backend, g)
    BY <2>1 DEF Good, LoadingIn
  <2> QED BY <2>2 DEF r
<1>2. ASSUME k.refreshing PROVE Good(h, [k EXCEPT !.since = k.since \union {f}], backend, f)
  <2> DEFINE r == [k EXCEPT !.since = k.since \union {f}]
  <2>1. /\ r \in HookType(h) /\ r.calls = k.calls /\ r.isAnalyzing = k.isAnalyzing
        /\ r.ready = k.ready /\ r.engines = k.engines
        /\ r.refreshing = k.refreshing /\ r.since = k.since \union {f}
    BY DEF Good, HookType
  <2> HIDE DEF r
  <2>2. Good(h, r, backend, f)
    BY <1>2, <2>1 DEF Good, LoadingIn
  <2> QED BY <2>2 DEF r
<1>3. ~k.refreshing => Good(h, k, backend, f)
  BY DEF Good
<1> QED BY <1>1, <1>2, <1>3
-----------------------------------------------------------------------------
(* The steps of all.                                                       *)

\* One step of one hook.
Step(h, r) ==
    \/ hook[h].mounted = "not yet" /\ r = Analyze([hook[h] EXCEPT !.mounted = "now"], "effect")
    \/ r = [hook[h] EXCEPT !.mounted = "no more"]
    \/ h \in Refreshable /\ ~hook[h].refreshing /\ r = Analyze(hook[h], "refresh")
    \/ \E c \in Callers(h) :
         \/ hook[h].calls[c] = Loading /\ r = RunMatcher(Created(hook[h]), c)
         \/ hook[h].calls[c] = Loading /\ r = [Ended(hook[h], c) EXCEPT !.error = TRUE]
         \/ \E a \in Answers : /\ hook[h].calls[c].at = "asking"
                              /\ r = Shown(hook[h], c, Matches[hook[h].calls[c].of][a])

\* A step of the system is that of one hook, or changes the graph.
LEMMA NextIs ==
    ASSUME Inv, [Next]_vars
    PROVE  /\ backend' = backend
           /\ \/ /\ graph' = graph
                 /\ \E h \in Hooks : \E r : hook' = [hook EXCEPT ![h] = r] /\ Step(h, r)
              \/ GraphChanges
              \/ UNCHANGED vars
<1>1. ASSUME NEW h \in Hooks, Mount(h) \/ Unmount(h) \/ OnRefresh(h)
      PROVE  /\ backend' = backend /\ graph' = graph
             /\ \E r : hook' = [hook EXCEPT ![h] = r] /\ Step(h, r)
  <2>1. CASE Mount(h)
    BY <2>1 DEF Mount, Step
  <2>2. CASE Unmount(h)
    BY <2>2 DEF Unmount, Step
  <2>3. CASE OnRefresh(h)
    BY <2>3 DEF OnRefresh, Step
  <2> QED BY <1>1, <2>1, <2>2, <2>3
<1>2. ASSUME NEW h \in Hooks, NEW c \in Callers(h), Settle(h, c)
      PROVE  /\ backend' = backend /\ graph' = graph
             /\ \E r : hook' = [hook EXCEPT ![h] = r] /\ Step(h, r)
  <2>1. CASE LlamaLoads(h, c)
    BY <2>1 DEF LlamaLoads, Step
  <2>2. CASE LlamaFails(h, c)
    BY <2>2 DEF LlamaFails, Step
  <2>3. ASSUME NEW a \in Answers, ChatEnds(h, c, a)
        PROVE  /\ backend' = backend /\ graph' = graph
               /\ \E r : hook' = [hook EXCEPT ![h] = r] /\ Step(h, r)
    BY <2>3 DEF ChatEnds, Step
  <2> QED BY <1>2, <2>1, <2>2, <2>3 DEF Settle
<1>3. CASE GraphChanges
  BY <1>3 DEF GraphChanges
<1>4. CASE UNCHANGED vars
  BY <1>4 DEF vars
<1> QED BY <1>1, <1>2, <1>3, <1>4 DEF Next

\* The step of a hook leaves it good.
LEMMA GoodStep ==
    ASSUME Inv, NEW h \in Hooks, NEW r, Step(h, r)
    PROVE  Good(h, r, backend, graph)
<1> DEFINE k == hook[h]
<1>1. Good(h, k, backend, graph) /\ graph \in Graphs
  BY DEF Inv
<1>2. CASE r = Analyze([k EXCEPT !.mounted = "now"], "effect")
  <2> DEFINE e == [k EXCEPT !.mounted = "now"]
  <2>1. Good(h, e, backend, graph) /\ r = Analyze(e, "effect")
    BY <1>1, <1>2, OtherStep
  <2> HIDE DEF e
  <2> QED BY <1>1, <2>1, AnalyzeStep, CallersAreFinite
<1>3. CASE r = [k EXCEPT !.mounted = "no more"]
  BY <1>1, <1>3, OtherStep
<1>4. CASE h \in Refreshable /\ r = Analyze(k, "refresh")
  BY <1>1, <1>4, AnalyzeStep, CallersAreFinite
<1>5. ASSUME NEW c \in Callers(h),
             \/ k.calls[c] = Loading /\ r = RunMatcher(Created(k), c)
             \/ k.calls[c] = Loading /\ r = [Ended(k, c) EXCEPT !.error = TRUE]
             \/ \E a \in Answers : /\ k.calls[c].at = "asking"
                                  /\ r = Shown(k, c, Matches[k.calls[c].of][a])
      PROVE  Good(h, r, backend, graph)
  <2> HIDE DEF k
  <2> QED BY <1>1, <1>5, SettleStep
<1> QED BY <1>2, <1>3, <1>4, <1>5 DEF Step

\* Hooks stay good.
LEMMA InvStep == Inv /\ [Next]_vars => Inv'
<1> SUFFICES ASSUME Inv, [Next]_vars PROVE Inv'
    OBVIOUS
<1>1. CASE graph' = graph /\ \E h \in Hooks : \E r : hook' = [hook EXCEPT ![h] = r] /\ Step(h, r)
  <2>0. PICK h \in Hooks : \E r : hook' = [hook EXCEPT ![h] = r] /\ Step(h, r)
    BY <1>1
  <2>1. PICK r : hook' = [hook EXCEPT ![h] = r] /\ Step(h, r)
    BY <2>0
  <2>2. Good(h, r, backend, graph)
    BY <2>1, GoodStep
  <2>3. \A i \in Hooks : hook'[i] = IF i = h THEN r ELSE hook[i]
    BY <2>1 DEF Inv
  <2>4. \A i \in Hooks : Good(i, hook'[i], backend', graph')
    BY <1>1, <2>2, <2>3, NextIs DEF Inv
  <2>5. backend' = backend
    BY NextIs
  <2> QED BY <1>1, <2>1, <2>4, <2>5 DEF Inv
<1>2. CASE GraphChanges
  <2>1. graph' \in Graphs /\ backend' = backend /\ graph \in Graphs
    BY <1>2 DEF GraphChanges, Inv
  <2>2. ASSUME NEW h \in Hooks PROVE Good(h, hook'[h], backend', graph')
    <3>1. hook'[h] = IF hook[h].refreshing
                     THEN [hook[h] EXCEPT !.since = hook[h].since \union {graph'}] ELSE hook[h]
      BY <1>2 DEF GraphChanges
    <3>2. Good(h, hook[h], backend, graph)
      BY DEF Inv
    <3> QED BY <2>1, <3>1, <3>2, OtherStep
  <2> QED BY <1>2, <2>1, <2>2 DEF GraphChanges, Inv
<1>3. CASE UNCHANGED vars
  BY <1>3 DEF vars, Inv
<1> QED BY <1>1, <1>2, <1>3, NextIs

\* Every hook is good in every state that can be reached.
LEMMA HooksAreGood == Spec => []Inv
<1>1. Init => Inv
  <2> SUFFICES ASSUME Init PROVE Inv
      OBVIOUS
  <2>1. ASSUME NEW h \in Hooks PROVE Good(h, NewHook(h), backend, graph)
    <3> DEFINE k == NewHook(h)
    <3>1. [c \in Callers(h) |-> NoCall] \in [Callers(h) -> CallType] /\ <<>> \in Outcomes
      BY Stages DEF Outcomes
    <3>2. k \in HookType(h)
      BY <3>1 DEF NewHook, HookType
    <3>3. /\ k.calls = [c \in Callers(h) |-> NoCall] /\ ~k.isAnalyzing /\ ~k.ready
          /\ k.engines = 0 /\ ~k.refreshing
      BY DEF NewHook
    <3> HIDE DEF k
    <3>4. LoadingIn(h, k) = {}
      BY <3>3, Stages DEF LoadingIn
    <3>5. Good(h, k, backend, graph)
      BY <3>2, <3>3, <3>4 DEF Good
    <3> QED BY <3>5 DEF k
  <2> QED BY <2>1 DEF Init, Inv
<1> QED BY <1>1, InvStep, PTL DEF Spec

\* No screen says that it analyses without a call under way.
THEOREM BannersTrackWork == Spec => []BannerTracksWork
<1>1. Inv => BannerTracksWork
  BY DEF Inv, Good, BannerTracksWork
<1> QED BY <1>1, HooksAreGood, PTL

\* A visit creates no more engines than it has callers, however long it lasts and
\* however often it is refreshed.
THEOREM EnginesAreBounded == Spec => []EnginesBoundedByCallers
<1>1. ASSUME Inv, NEW h \in Hooks
      PROVE  hook[h].engines + Cardinality(LoadingIn(h, hook[h])) <= Cardinality(Callers(h))
  <2> DEFINE k == hook[h]
  <2>1. Good(h, k, backend, graph)
    BY <1>1 DEF Inv
  <2> HIDE DEF k
  <2>2. Cardinality(LoadingIn(h, k)) \in 0..Cardinality(Callers(h)) /\ k.engines \in Nat
    BY <2>1, FewerLoad DEF Good, HookType
  <2>3. k.engines + Cardinality(LoadingIn(h, k)) <= Cardinality(Callers(h))
    BY <2>1, <2>2, CallersAreFinite DEF Good
  <2> QED BY <2>3 DEF k
<1>2. Inv => EnginesBoundedByCallers
  BY <1>1 DEF EnginesBoundedByCallers, LoadingIn
<1> QED BY <1>2, HooksAreGood, PTL

\* The call of the effect never stops the spinner of a refresh.
LEMMA EffectKeepsSpinner ==
    ASSUME NEW h, NEW k \in HookType(h), k.refreshing, graph \in Graphs
    PROVE  Analyze(k, "effect").refreshing
<1> DEFINE q == Began(k, "effect")
<1>1. q \in HookType(h) /\ q.refreshing
  BY DEF Began, HookType
<1>2. ASSUME NEW e \in HookType(h), e.refreshing PROVE RunMatcher(e, "effect").refreshing
  BY <1>2, RunMatcherIs, CallersAreFinite DEF Matched
<1>3. Created(q) \in HookType(h) /\ Created(q).refreshing
  BY <1>1, CreatedIs
<1>4. [q EXCEPT !.calls["effect"] = Loading].refreshing
  <2> HIDE DEF q
  <2> QED BY <1>1 DEF HookType
<1>5. Analyze(k, "effect") \in {RunMatcher(q, "effect"), RunMatcher(Created(q), "effect"),
                               [q EXCEPT !.calls["effect"] = Loading]}
  BY DEF Analyze, WithEngine
<1> QED BY <1>1, <1>2, <1>3, <1>4, <1>5

\* What is shown, in so many words.
LEMMA ShownList ==
    ASSUME NEW h, NEW k \in HookType(h), NEW c \in Callers(h), NEW list \in Outcomes
    PROVE  /\ Shown(k, c, list).suggestions = list /\ Shown(k, c, list).since = k.since
           /\ (Shown(k, c, list).refreshing <=> k.refreshing /\ c # "refresh")
<1> DEFINE e == Ended(k, c)
<1>1. Shown(k, c, list) = [e EXCEPT !.suggestions = list]
  BY DEF Shown
<1>2. e \in HookType(h)
  BY EndedIs
<1>3. e.since = k.since /\ (e.refreshing <=> k.refreshing /\ c # "refresh")
  BY DEF Ended, HookType
<1> HIDE DEF e
<1>4. /\ [e EXCEPT !.suggestions = list].suggestions = list
      /\ [e EXCEPT !.suggestions = list].since = e.since
      /\ [e EXCEPT !.suggestions = list].refreshing = e.refreshing
  BY <1>2 DEF HookType
<1> QED BY <1>1, <1>3, <1>4

\* The answer to a refresh is about a graph since that began.
LEMMA AnswerToRefresh ==
    ASSUME NEW h, NEW k, Good(h, k, backend, graph), NEW c \in Callers(h), NEW a \in Answers,
           k.calls[c].at = "asking", k.refreshing,
           NEW r, r = Shown(k, c, Matches[k.calls[c].of][a]), ~r.refreshing
    PROVE  r.suggestions = Matches[k.calls[c].of][a] /\ k.calls[c].of \in r.since
<1>1. k \in HookType(h) /\ k.calls[c] \in CallType
  BY DEF Good, HookType
<1>2. k.calls[c].of \in Graphs
  BY <1>1, Stages DEF CallType
<1>3. Matches[k.calls[c].of][a] \in Outcomes
  BY <1>2 DEF Outcomes, AnyAnswer
<1>4. r.suggestions = Matches[k.calls[c].of][a] /\ r.since = k.since /\ c = "refresh"
  <2>1. ASSUME NEW list \in Outcomes, r = Shown(k, c, list)
        PROVE  r.suggestions = list /\ r.since = k.since /\ c = "refresh"
    BY <1>1, <2>1, ShownList
  <2> QED BY <1>3, <2>1
<1>5. k.calls[c].of \in k.since
  BY <1>4, Stages DEF Good
<1> QED BY <1>4, <1>5

\* What stops it leaves an error, or a list made of a graph since the refresh.
LEMMA EndOfRefresh ==
    ASSUME Inv, NEW h \in Hooks, NEW r, Step(h, r), hook[h].refreshing, ~r.refreshing
    PROVE  r.error \/ \E g \in r.since, a \in AnyAnswer : r.suggestions = Matches[g][a]
<1> DEFINE k == hook[h]
<1>1. Good(h, k, backend, graph) /\ graph \in Graphs /\ k.refreshing /\ k \in HookType(h)
  BY DEF Inv, Good
<1>2. CASE r = Analyze([k EXCEPT !.mounted = "now"], "effect")
  <2> DEFINE e == [k EXCEPT !.mounted = "now"]
  <2>1. e \in HookType(h) /\ e.refreshing /\ r = Analyze(e, "effect")
    BY <1>1, <1>2 DEF HookType
  <2> HIDE DEF e
  <2> QED BY <1>1, <2>1, EffectKeepsSpinner
<1>3. CASE r = [k EXCEPT !.mounted = "no more"]
  <2> HIDE DEF k
  <2>1. r.refreshing = k.refreshing
    BY <1>1, <1>3 DEF HookType
  <2> QED BY <1>1, <2>1
<1>4. ASSUME NEW c \in Callers(h), k.calls[c] = Loading, r = RunMatcher(Created(k), c)
      PROVE  r.suggestions = Matches[graph][Unasked] /\ graph \in r.since
  <2> DEFINE e == Created(k)
  <2>1. e \in HookType(h) /\ e.refreshing /\ e.since = k.since
    BY <1>1, CreatedIs
  <2>2. Matched(h, e, c, r)
    BY <1>1, <1>4, <2>1, RunMatcherIs
  <2> HIDE DEF e, k
  <2> QED BY <1>1, <2>1, <2>2 DEF Matched, Good
<1>5. ASSUME NEW c \in Callers(h), r = [Ended(k, c) EXCEPT !.error = TRUE] PROVE r.error
  <2> HIDE DEF k
  <2> QED BY <1>1, <1>5, ShownIs
<1>6. ASSUME NEW c \in Callers(h), NEW a \in Answers, k.calls[c].at = "asking",
             r = Shown(k, c, Matches[k.calls[c].of][a])
      PROVE  r.suggestions = Matches[k.calls[c].of][a] /\ k.calls[c].of \in r.since
  <2> HIDE DEF k
  <2> QED BY <1>1, <1>6, AnswerToRefresh
<1>7. \A a : a \in Answers \/ a = Unasked => a \in AnyAnswer
  BY DEF AnyAnswer
<1> QED BY <1>1, <1>2, <1>3, <1>4, <1>5, <1>6, <1>7 DEF Step

\* The list that a refresh ends with is no older than the refresh, whatever it overlapped.
THEOREM RefreshesAreFresh == Spec => RefreshIsFresh
<1>1. ASSUME Inv, [Next]_vars, NEW h \in Refreshable, hook[h].refreshing, ~hook'[h].refreshing
      PROVE  \/ hook'[h].error
             \/ \E g \in hook'[h].since, a \in Answers \union {Unasked} :
                  hook'[h].suggestions = Matches[g][a]
  <2>1. h \in Hooks
    BY HookAssumption
  <2>2. CASE \E i \in Hooks : \E r : hook' = [hook EXCEPT ![i] = r] /\ Step(i, r)
    <3>0. PICK i \in Hooks : \E r : hook' = [hook EXCEPT ![i] = r] /\ Step(i, r)
      BY <2>2
    <3>1. PICK r : hook' = [hook EXCEPT ![i] = r] /\ Step(i, r)
      BY <3>0
    <3>2. hook'[h] = IF h = i THEN r ELSE hook[h]
      BY <2>1, <3>1, <1>1 DEF Inv
    <3>3. i = h /\ hook'[h] = r
      BY <1>1, <3>2
    <3> QED BY <1>1, <2>1, <3>1, <3>3, EndOfRefresh DEF AnyAnswer
  <2>3. CASE GraphChanges
    <3>1. hook'[h] = [hook[h] EXCEPT !.since = hook[h].since \union {graph'}]
      BY <1>1, <2>1, <2>3 DEF GraphChanges
    <3>2. hook[h] \in HookType(h)
      BY <1>1, <2>1 DEF Inv, Good
    <3> DEFINE k == hook[h]
    <3>3. k \in HookType(h) /\ hook'[h] = [k EXCEPT !.since = k.since \union {graph'}]
      BY <3>1, <3>2
    <3> HIDE DEF k
    <3>4. hook'[h].refreshing = k.refreshing
      BY <3>3 DEF HookType
    <3> QED BY <1>1, <3>4 DEF k
  <2>4. CASE UNCHANGED vars
    BY <1>1, <2>4 DEF vars
  <2> QED BY <1>1, <2>2, <2>3, <2>4, NextIs
<1>2. Inv /\ [Next]_vars =>
        \A h \in Refreshable :
          hook[h].refreshing /\ ~hook'[h].refreshing =>
            \/ hook'[h].error
            \/ \E g \in hook'[h].since, a \in Answers \union {Unasked} :
                 hook'[h].suggestions = Matches[g][a]
  BY <1>1
<1> QED BY <1>2, HooksAreGood, PTL DEF Spec, RefreshIsFresh

-----------------------------------------------------------------------------

(* What the matcher makes of graphs and answers.                           *)

\* The shown are the best.
LEMMA ShownAreBest ==
    ASSUME NEW g, IsGraph(g), NEW a, IsAnswer(a)
    PROVE  RanksBest(g, a)
<1> DEFINE all == RuleBased(g, Me) \o ParsedAnswer(a, Me)
           list == Ranked(all)
<1>1. PICK n \in Nat : IsScored(all, n)
  BY FoundIsScored
<1> HIDE DEF all
<1>2. PICK m \in Nat : \E l, r : IsBest(list, all, l, m, r)
  BY <1>1, RankedIs
<1>3. PICK l, r : IsBest(list, all, l, m, r)
  BY <1>2
<1> HIDE DEF list
<1>4. /\ r \in [1..m -> Kept(all)] /\ l \in Nat /\ l <= m /\ (l = m \/ l = MaxSuggestions)
      /\ \A i \in Kept(all) : \E k \in 1..m : r[k] = i
      /\ \A j, k \in 1..m : j < k => r[j] # r[k] /\ all[r[j]].confidence >= all[r[k]].confidence
      /\ DOMAIN list = 1..l /\ Len(list) = l
      /\ \A k \in 1..l : list[k] = all[r[k]]
  BY <1>3 DEF IsBest, Orders
<1>5. DOMAIN all = 1..n
  BY <1>1 DEF IsScored
<1>6. \A k \in 1..l : k \in 1..m /\ r[k] \in Kept(all)
  BY <1>4
<1>7. \A i, j \in Kept(all) : i # j => Key(all[i]) # Key(all[j])
  <2> SUFFICES ASSUME NEW i \in Kept(all), NEW j \in Kept(all), i < j, Key(all[i]) = Key(all[j])
               PROVE  FALSE
    <3>1. \A i \in Kept(all) : i \in 1..n
      BY <1>5 DEF Kept
    <3>2. \A i, j \in Kept(all) : i # j => i < j \/ j < i
      BY <3>1
    <3> QED  BY <3>2
  <2>1. i \in 1..n /\ j \in 1..n /\ \A k \in 1..(j - 1) : Key(all[k]) # Key(all[j])
    BY <1>5 DEF Kept
  <2>2. i \in 1..(j - 1)
    BY <2>1
  <2> QED  BY <2>1, <2>2
<1>8. Cardinality({Key(list[i]) : i \in DOMAIN list}) = Len(list)
  <2> DEFINE K == {Key(list[i]) : i \in DOMAIN list}
             f == [i \in 1..l |-> Key(list[i])]
  <2>1. \A i, j \in 1..l : f[i] = f[j] => i = j
    <3> SUFFICES ASSUME NEW i \in 1..l, NEW j \in 1..l, i < j
                 PROVE  Key(list[i]) # Key(list[j])
      OBVIOUS
    <3>1. r[i] # r[j]
      BY <1>4, <1>6
    <3> QED  BY <1>4, <1>6, <1>7, <3>1
  <2>2. f \in Bijection(1..l, K)
    <3>1. f \in [1..l -> K] /\ \A x \in K : \E i \in 1..l : f[i] = x
      BY <1>4
    <3> HIDE DEF f, K
    <3> QED  BY <2>1, <3>1 DEF Bijection, Injection, Surjection, IsInjective
  <2> HIDE DEF f, K
  <2>3. Cardinality(K) = l
    BY <1>4, <2>2, FS_CountingElements DEF ExistsBijection
  <2> QED  BY <1>4, <2>3 DEF K
<1>9. ASSUME NEW i \in DOMAIN all
      PROVE  \/ all[i] \in ToSet(list)
             \/ \E j \in 1..(i - 1) : Key(all[j]) = Key(all[i])
             \/ /\ Len(list) = MaxSuggestions
                /\ \A j \in DOMAIN list : list[j].confidence >= all[i].confidence
  <2>1. CASE i \notin Kept(all)
    BY <1>9, <2>1 DEF Kept
  <2>2. CASE i \in Kept(all)
    <3>1. PICK k \in 1..m : r[k] = i
      BY <1>4, <2>2
    <3>2. CASE k <= l
      <4>1. k \in 1..l
        BY <1>4, <3>2
      <4> QED  BY <1>4, <3>1, <4>1 DEF ToSet
    <3>3. CASE ~(k <= l)
      <4>1. \A j \in 1..l : j < k
        BY <1>4, <3>3
      <4>2. l # m
        BY <3>3
      <4> QED  BY <1>4, <1>6, <3>1, <4>1, <4>2
    <3> QED  BY <3>2, <3>3
  <2> QED  BY <2>1, <2>2
<1> QED  BY <1>8, <1>9 DEF RanksBest, all, list

\* The language model is told of what the rules find.
LEMMA RulesTold ==
    ASSUME NEW g, IsGraph(g)
    PROVE  TellsWhatRulesFind(g)
<1> DEFINE summary == GraphSummary(g, {}, Me)
           prompt == MatchingPrompt(summary)
           uncut == Len(summary.myNeeds) <= OwnLimit /\ Len(summary.communityResources) <= CommunityLimit
<1>1. /\ summary.myNeeds = Listed(g, "needs", Me, TRUE)
      /\ summary.communityResources = Listed(g, "offers", Me, FALSE)
      /\ summary.aggregatedNeeds = AggregatedNeeds(g, Me)
  BY DEF GraphSummary
<1>2. /\ prompt.myNeeds = Take(summary.myNeeds, OwnLimit)
      /\ prompt.communityResources = Take(summary.communityResources, CommunityLimit)
      /\ prompt.aggregatedNeeds = {[need |-> n.need, count |-> Len(n.users)] : n \in summary.aggregatedNeeds}
  <2> HIDE DEF summary
  <2> QED  BY DEF MatchingPrompt
<1> HIDE DEF summary, prompt
<1>3. OwnLimit \in Nat /\ CommunityLimit \in Nat
  BY LimitAssumption
<1>4. ASSUME NEW s \in ToSet(MutualAid(g, Me)), s.id[4] \in DOMAIN g.nodes, uncut
      PROVE  /\ [user |-> Me, title |-> SummaryLabel(g, s.id[4])] \in ToSet(prompt.myNeeds)
             /\ [user |-> s.participants[2], title |-> SummaryLabel(g, s.id[4])]
                  \in ToSet(prompt.communityResources)
  <2>1. s \in AidSet(g, Me)
    BY <1>4, AidsAre
  <2>2. PICK p \in AidPairs(g, Me) : s = Aid(g, Me, p[1], p[2])
    BY <2>1 DEF AidSet
  <2> DEFINE n == p[1]
             o == p[2]
  <2>3. /\ n \in EdgeSet(g, "needs") /\ o \in EdgeSet(g, "offers")
        /\ n.from = Me /\ o.from # Me /\ o.to = n.to
    BY DEF AidPairs
  <2> HIDE DEF n, o
  <2>4. s = Aid(g, Me, n, o)
    BY <2>2 DEF n, o
  <2>5. s.id[4] = n.to /\ s.participants[2] = o.from
    BY <2>4 DEF Aid
  <2>6. n.to \in DOMAIN g.nodes /\ o.to \in DOMAIN g.nodes
    BY <1>4, <2>3, <2>5
  <2>7. [user |-> n.from, title |-> SummaryLabel(g, n.to)] \in ToSet(Take(Listed(g, "needs", Me, TRUE), OwnLimit))
    BY <1>1, <1>3, <1>4, <2>3, <2>6, ListedAre
  <2>8. [user |-> o.from, title |-> SummaryLabel(g, o.to)] \in ToSet(Take(Listed(g, "offers", Me, FALSE), CommunityLimit))
    BY <1>1, <1>3, <1>4, <2>3, <2>6, ListedAre
  <2> QED  BY <1>1, <1>2, <2>3, <2>5, <2>6, <2>7, <2>8
<1>5. ASSUME NEW s \in ToSet(BulkPurchases(g)), s.id[2] \in DOMAIN g.nodes
      PROVE  \E n \in prompt.aggregatedNeeds :
                n.need = SummaryLabel(g, s.id[2]) /\ n.count + 1 >= Len(s.participants)
  <2>1. s \in BulkSet(g)
    BY <1>5, BulksAre
  <2>2. PICK n \in Wanted(g) : s = Bulk(g, n)
    BY <2>1 DEF BulkSet
  <2>3. s.id[2] = n /\ s.participants = NeedersOf(g, n)
    BY <2>2 DEF Bulk
  <2>4. n \in DOMAIN g.nodes
    BY <1>5, <2>3
  <2>5. PICK a \in AggregatedNeeds(g, Me) :
          a.need = SummaryLabel(g, n) /\ Len(a.users) \in Nat /\ Len(a.users) + 1 >= Len(NeedersOf(g, n))
    BY <2>4, BulksAreTold
  <2> DEFINE e == [need |-> a.need, count |-> Len(a.users)]
  <2>6. e \in prompt.aggregatedNeeds
    BY <1>1, <1>2
  <2>7. e.need = SummaryLabel(g, s.id[2]) /\ e.count = Len(a.users)
    BY <2>3, <2>5
  <2> HIDE DEF e
  <2> QED  BY <2>3, <2>5, <2>6, <2>7
<1> QED  BY <1>4, <1>5 DEF TellsWhatRulesFind, summary, prompt

\* The graphs and the answers are what the lemmas ask for.
LEMMA Assumed ==
    /\ \A g \in Graphs : IsGraph(g)
    /\ \A a \in AnyAnswer : IsAnswer(a)
<1>1. \A g \in Graphs : IsGraph(g)
  BY GraphAssumption DEF IsGraph, EdgeType
<1>2. \A a \in Answers : IsAnswer(a)
  BY AnswerAssumption DEF IsAnswer, ItemType
<1>3. IsAnswer(Unasked)
  BY DEF IsAnswer, Unasked
<1> QED  BY <1>1, <1>2, <1>3 DEF AnyAnswer

\* The types, and the list that is shown is never longer than it may be.
THEOREM TypeCorrect == Spec => []TypeOK
<1>1. \A list \in Outcomes : Len(list) <= MaxSuggestions
  <2>1. ASSUME NEW g \in Graphs, NEW a \in AnyAnswer
        PROVE  Len(Matches[g][a]) <= MaxSuggestions
    <3>1. Matches[g][a] = Suggestions(g, Me, a)
      BY <2>1 DEF Matches, AnyAnswer
    <3> QED  BY <3>1, Assumed, SuggestionsAreFew
  <2>2. Len(<<>>) <= MaxSuggestions
    BY LimitAssumption
  <2> QED  BY <2>1, <2>2 DEF Outcomes
<1>2. ASSUME Inv, NEW h \in Hooks
      PROVE  /\ hook[h].mounted \in {"not yet", "now", "no more"}
             /\ {hook[h].ready, hook[h].isAnalyzing, hook[h].error, hook[h].refreshing} \subseteq BOOLEAN
             /\ hook[h].engines \in Nat
             /\ hook[h].calls \in [Callers(h) -> CallType]
             /\ hook[h].since \subseteq Graphs
             /\ Len(hook[h].suggestions) <= MaxSuggestions
  <2> DEFINE k == hook[h]
  <2>1. k \in HookType(h)
    BY <1>2 DEF Inv, Good
  <2> HIDE DEF k
  <2>2. /\ k.mounted \in {"not yet", "now", "no more"}
        /\ {k.ready, k.isAnalyzing, k.error, k.refreshing} \subseteq BOOLEAN
        /\ k.engines \in Nat /\ k.calls \in [Callers(h) -> CallType]
        /\ k.since \subseteq Graphs /\ k.suggestions \in Outcomes
    BY <2>1 DEF HookType
  <2>3. Len(k.suggestions) <= MaxSuggestions
    BY <1>1, <2>2
  <2> QED  BY <2>2, <2>3 DEF k
<1>3. Inv => TypeOK
  BY <1>2 DEF Inv, TypeOK
<1> QED  BY <1>3, HooksAreGood, PTL

\* Whatever graph the state may hold and whatever the language model answers, what is
\* shown is the best of what was found (runMatcher).
THEOREM TheBestAreShown == Spec => []BestAreShown
<1>1. \A g \in Graphs, a \in Answers : RanksBest(g, a)
  BY Assumed, ShownAreBest DEF AnyAnswer
<1>2. Inv => BestAreShown
  BY <1>1 DEF Inv, BestAreShown, RankedGraphs
<1> QED  BY <1>2, HooksAreGood, PTL

\* And the language model is told of what the rules find (buildGraphSummary,
\* buildMatchingPrompt).
THEOREM TheRulesAreTold == Spec => []RulesAreTold
<1>1. \A g \in Graphs : TellsWhatRulesFind(g)
  BY Assumed, RulesTold
<1>2. Inv => RulesAreTold
  BY <1>1 DEF Inv, RulesAreTold, ToldGraphs
<1> QED  BY <1>2, HooksAreGood, PTL

===============================================================================
