----------------------------- MODULE Subsequences -----------------------------
(***************************************************************************)
(* Filtering a sequence by position.  SelectSeq of the standard module     *)
(* takes an operator, of which a first-order prover cannot speak; a set of *)
(* positions is data.                                                      *)
(***************************************************************************)
EXTENDS Naturals, Sequences

\* The elements of s at these positions, in their order.
Keep(s, positions) ==
    LET kept[i \in 0..Len(s)] ==
          IF i = 0 THEN <<>>
          ELSE IF i \in positions THEN Append(kept[i - 1], s[i]) ELSE kept[i - 1]
    IN kept[Len(s)]

\* Those elements of s that are in T.
Only(s, T) == Keep(s, {i \in DOMAIN s : s[i] \in T})
================================================================================
