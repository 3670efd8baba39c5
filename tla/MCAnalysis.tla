------------------------------- MODULE MCAnalysis -------------------------------
(***************************************************************************)
(* A visit of the map, which has both callers, on graphs where nodes share *)
(* a name, have a label and no title, or neither, an edge has lost its     *)
(* node, and the list overflows.  Visits do not touch each other.          *)
(***************************************************************************)
EXTENDS Analysis

Needs(u, n) == [from |-> u, type |-> "needs", to |-> n]
Offers(u, n) == [from |-> u, type |-> "offers", to |-> n]

Exchange == <<Needs("me", "n1"), Offers("u", "n1"), Needs("me", "n2"), Offers("v", "n2"),
              Needs("u", "n3"), Offers("me", "n1")>>
Demand == <<Needs("v", "n3"), Needs("me", "n3"), Offers("u", "n3")>>

Node(title, label) == [title |-> title, label |-> label]

Titled(title) == Node(title, "absent")

\* To the summary n1 and n2 are one thing, to the rules they are not.
Bikes == [n1 |-> Titled("bike"), n2 |-> Node("absent", "bike"), n3 |-> Node("Soup", "soup")]

\* One node; three, two of one name; three, and a need that is shared; and a bulk
\* purchase of what has no name, where n1 is deleted, its edges are not.
MCGraphs ==
    {[nodes |-> [n1 |-> Titled("Bike")], edges |-> SubSeq(Exchange, 1, 2)],
     [nodes |-> Bikes, edges |-> Exchange],
     [nodes |-> Bikes, edges |-> Demand],
     [nodes |-> [n2 |-> Node("absent", "bike"), n3 |-> Node("absent", "absent"), n4 |-> Titled("tools")],
      edges |-> Exchange \o Demand]}

\* Two spellings of one title.
MCNormalized(title) == IF title = "Bike" THEN "bike" ELSE title

Item(type, title, confidence) ==
    [type |-> type, title |-> title, confidence |-> confidence, named |-> FALSE]

\* The call fails; an answer with a suggestion the rules have too, and one of them
\* better than all; and one of which an item is no suggestion.
MCAnswers ==
    {[read |-> FALSE],
     [read |-> TRUE, items |-> <<Item("mutual_aid", "bike", <<95>>),
                                 Item("community_event", "party", <<140>>)>>],
     [read |-> TRUE, items |-> <<Item("absent", "walk", <<70>>),
                                 Item("project", "garden", <<>>),
                                 [Item("project", "shed", <<90>>) EXCEPT !.named = TRUE]
                                   @@ [participants |-> <<"u", "v">>]>>]}
================================================================================
