------------------------------ MODULE Validator ------------------------------
(***************************************************************************)
(* What an engine checks before it admits a message, and what the checks   *)
(* leave behind (protocol/src/validator.ts and capability.ts).             *)
(*                                                                         *)
(* validateAndAuthorize runs to completion without yielding, at one        *)
(* reading of the clock, and ends in one of four ways.  Two of them change *)
(* the state although the message is refused: isReplay evicts old nonces,  *)
(* and it records the nonce of a message that later checks turn down.      *)
(***************************************************************************)
EXTENDS AppState

Max2(a, b) == IF a > b THEN a ELSE b
Distance(a, b) == Max2(a - b, b - a)

-----------------------------------------------------------------------------
(* The checks, in the order of validateAndAuthorize.                       *)

ValidEnvelope(m) == m.formed /\ m.kind \in AllowedKinds /\ m.created > 0

VerifyIntegrity(m) == m.payloadHash = m.payload /\ m.signed

\* Mutant: a message may be as old as its validity allows.
WindowForFutureOnly(m) ==
    /\ m.from <= now /\ now <= m.to
    /\ m.created - now <= MaxClockSkew

VerifyTemporalWindow(m) ==
    /\ m.from <= now /\ now <= m.to
    /\ Distance(now, m.created) <= MaxClockSkew

\* Mutant: a nonce is evicted one second early.
LiveNoncesTooFew(u) == {n \in nonceCache[u] : now - n.at < NonceTTL}

\* The nonces of user u that survive the eviction isReplay starts with.
LiveNonces(u) == {n \in nonceCache[u] : now - n.at <= NonceTTL}

IsReplay(m) == \E n \in LiveNonces(m.sender) : n.nonce = m.nonce

EvictNonces(m) ==
    nonceCache' = [nonceCache EXCEPT ![m.sender] = LiveNonces(m.sender)]

RecordNonce(m) ==
    nonceCache' = [nonceCache EXCEPT ![m.sender] =
                     LiveNonces(m.sender) \union {[nonce |-> m.nonce, at |-> now]}]

ChainTip == IF eventLog = <<>> THEN "genesis" ELSE eventLog[Len(eventLog)].chain

\* Mutant: a message without a predecessor is always welcome.
LinksToTipOrGenesis(m) == m.prev \in {ChainTip, "genesis"}

\* Mutant: any event of the log will do as the predecessor, so chains fork.
LinksToAnyEvent(m) == m.prev \in {ChainTip} \union {eventLog[i].chain : i \in DOMAIN eventLog}

VerifyChainLink(m) == m.prev = ChainTip

\* verifyCapabilityToken compares with Date.now() / 1000, which is not floored:
\* `late` says that the current second has begun before this instant.
TokenTimely(t, late) ==
    /\ \A end \in {t.expires, t.to} : now < end \/ (now = end /\ ~late)
    /\ t.from <= now

\* Mutant: off by one.
AtMostMaxCount(t) == t.max > 0 => capabilityUsage[t.id] <= t.max

BelowMaxCount(t) == t.max > 0 => capabilityUsage[t.id] < t.max

\* Each part of the scope is alone enough: absent, or equal to the target.
ScopeMatch(t, target) == \E part \in {t.project, t.topic, t.object} : part \in {"unset", target}

NeededRight(kind) ==
    CASE kind = "graph.delta" -> "write"
      [] kind \in {"project.motion", "task.propose", "election.motion"} -> "propose"
      [] kind \in {"project.intent", "project.update", "task.commit", "task.deliver",
                   "dispute.response", "ack"} -> "comment"
      [] kind = "task.assign" -> "assign"
      [] kind = "election.vote" -> "vote"
      [] kind = "capability.grant" -> "grant"
      [] kind = "capability.revoke" -> "revoke"
      [] kind = "dispute.report" -> "report"
      [] OTHER -> "read"

VerifyCapabilityToken(t, kind, target, late) ==
    /\ t.signed
    /\ TokenTimely(t, late)
    /\ t.id \notin revokedCapabilities
    /\ BelowMaxCount(t)
    /\ ScopeMatch(t, target)
    /\ {NeededRight(kind), "*"} \intersect t.rights # {}

VerifyAuthz(m, late) == VerifyCapabilityToken(m.token, m.kind, m.target, late)

\* HIGH_IMPACT_TRUST_MIN in hundredths.  Scores are sums of binary floating
\* point numbers: ten times 0.01 falls short of 0.1, and 0.05 + 0.05 does not.
\* `short` says which way a score of exactly the threshold has been rounded.
HighImpactTrustMin == 10

PolicyOk(m, short) ==
    m.kind \in HighImpactKinds =>
        \/ trust[m.sender] > HighImpactTrustMin
        \/ trust[m.sender] = HighImpactTrustMin /\ ~short

-----------------------------------------------------------------------------
(* The four ways out.                                                      *)

\* isReplay is reached by the messages that pass the first three checks.
PassesFirstChecks(m) == ValidEnvelope(m) /\ VerifyIntegrity(m) /\ VerifyTemporalWindow(m)

unchangedByRefusal == <<now, eventLog, graphVars, projects, elections, disputes,
                        capabilities, trust, capabilityUsage, revokedCapabilities>>

RefuseUnchecked(m) == ~PassesFirstChecks(m) /\ UNCHANGED vars

RefuseReplay(m) ==
    /\ PassesFirstChecks(m) /\ IsReplay(m)
    /\ EvictNonces(m)
    /\ UNCHANGED unchangedByRefusal

\* causal_break, unauthorized or policy_flag: too late for the nonce.
RefuseAfterNonce(m) ==
    /\ PassesFirstChecks(m) /\ ~IsReplay(m)
    /\ \E late, short \in BOOLEAN :
         ~(VerifyChainLink(m) /\ VerifyAuthz(m, late) /\ PolicyOk(m, short))
    /\ RecordNonce(m)
    /\ UNCHANGED unchangedByRefusal

RecordCapabilityUsage(t) == capabilityUsage' = [capabilityUsage EXCEPT ![t.id] = @ + 1]

\* The message is admitted.  What it does to the rest of the state is said by
\* the action of its kind, in Engine.
Accept(m) ==
    /\ PassesFirstChecks(m) /\ ~IsReplay(m)
    /\ VerifyChainLink(m)
    /\ \E late \in BOOLEAN : VerifyAuthz(m, late)
    /\ \E short \in BOOLEAN : PolicyOk(m, short)
    /\ RecordNonce(m)
    /\ RecordCapabilityUsage(m.token)
=============================================================================
