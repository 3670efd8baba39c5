-------------------------------- MODULE MCSync ---------------------------------
(***************************************************************************)
(* Three nodes.  Any two of the requests below run together: two sessions  *)
(* of one node on one topic, on two topics, and sessions of two nodes of   *)
(* which one also answers.                                                 *)
(***************************************************************************)
EXTENDS Sync

MCHashes == 1..MaxEvents

Ask(n, p, t) == [node |-> n, peer |-> p, topic |-> t]
MCRequests == {Ask("a", "b", "t"), Ask("a", "c", "t"), Ask("c", "b", "t"), Ask("a", "b", "u")}
MCFaulty == {Ask("c", "b", "t")}

\* The positions of 3 are among those of 1 and 2: a false positive.
MCSimpleHash ==
    [x \in Hashes \X Seeds |->
        IF x[1] = 3 THEN <<1, 18, 3>>[x[2] + 1] ELSE x[1] + 16 * x[2] + (x[2] \div 2)]

\* Of t, a starts with nothing, b with all and c with two events, or a with all, b
\* without the last event and c with one.
MCFirstLogs ==
    {[c \in Nodes \X Topics |->
        CASE c[2] = "u" -> 0
          [] c[1] = "a" -> k[1] [] c[1] = "b" -> k[2] [] c[1] = "c" -> k[3]] :
     k \in {<<0, 3, 2>>, <<3, 2, 1>>}}
MCLearners == {<<"b", "t">>}
================================================================================
