-------------------------------- MODULE Ledger --------------------------------
(***************************************************************************)
(* What the log of an engine promises (README.md "Security Design",        *)
(* SECURITY.md "Security goals"): a single chain of headers that only      *)
(* grows, at its end, by a header that names the one before it, and that   *)
(* holds what a sender has signed at most once.                            *)
(*                                                                         *)
(* It knows nothing of clocks, nonce caches, tokens or handlers.           *)
(***************************************************************************)
EXTENDS Integers, Sequences

CONSTANT Headers      \* records with at least sender, nonce, created, prev, chain

VARIABLE ledger

Tip == IF ledger = <<>> THEN "genesis" ELSE ledger[Len(ledger)].chain

\* Two headers of one message: its sender spends a nonce once per creation time.
SameMessage(h, g) ==
    h.sender = g.sender /\ h.nonce = g.nonce /\ h.created = g.created

Admit(h) ==
    /\ h.prev = Tip
    /\ \A i \in DOMAIN ledger : ~SameMessage(ledger[i], h)
    /\ ledger' = Append(ledger, h)

Init == ledger = <<>>

Next == \E h \in Headers : Admit(h)

Spec == Init /\ [][Next]_ledger
=============================================================================
