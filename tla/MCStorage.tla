------------------------------- MODULE MCStorage -------------------------------
(***************************************************************************)
(* A small instance of the database, and its graph queries against those   *)
(* of the matcher.                                                         *)
(***************************************************************************)
EXTENDS Queries

Event(id, hash, chain, topic) == [msg_id |-> id, hash |-> hash, chain |-> chain, topic |-> topic]

\* Two envelopes with one id, two events with one chain hash, and two topics.
MCMessages ==
    {Event("m1", "h1", "c1", "t1"), Event("m2", "h2", "c1", "t1"),
     Event("m1", "h3", "c3", "t2"), Event("m4", "h4", "c4", "t2")}

\* Nothing is ranked here.
MCNormalized(title) == title

MCEdges ==
    {[from |-> "u1", type |-> "needs", to |-> "n1"],
     [from |-> "u1", type |-> "offers", to |-> "n1"],
     [from |-> "u2", type |-> "offers", to |-> "n1"]}
=============================================================================
