-------------------------------- MODULE Queries --------------------------------
(***************************************************************************)
(* One graph, stored and in memory: the queries of the graph store         *)
(* (packages/db/src/graph-store.ts) and the matcher's own reading of the   *)
(* graph (packages/llm/src/matcher.ts).                                    *)
(***************************************************************************)
EXTENDS Storage, Matcher

\* The tables as the graph the matcher reads.  The store's queries answer with ids,
\* so that its nodes have no other name.
Unnamed == [title |-> "absent", label |-> "absent"]

StoredGraph == [nodes |-> [n \in nodes |-> Unnamed], edges |-> SetToSeq(edges)]

\* findPotentialMatches and the matcher's rule for mutual aid, two programs for one
\* question, give one answer for every graph that the database can hold.
QueryAgreesWithRule ==
    \A u \in NodeIds :
      FindPotentialMatches(u) =
        {[offeror |-> s.participants[2], need |-> s.id[4]] :
           s \in ToSet(MutualAid(StoredGraph, u))}

\* What a user needs and offers according to getNeedsOf and getOffersBy is what
\* buildGraphSummary tells the language model.
ListsAgree ==
    \A u \in NodeIds :
      LET titles(type) == {x.title : x \in ToSet(Listed(StoredGraph, type, u, TRUE))}
      IN GetNeedsOf(u) = titles("needs") /\ GetOffersBy(u) = titles("offers")

\* One graph, stored and in memory, has one answer to each question.
QueriesAgree == QueryAgreesWithRule /\ ListsAgree
================================================================================
