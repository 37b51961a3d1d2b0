------------------------ MODULE VerificationStrategy ------------------------
(***************************************************************************)
(* verification/strategy.py: synthesize_verification, the pure function that*)
(* turns what the policy evaluator, the semantic engine, the Markov model   *)
(* and the SPRT engine reported on one action into ALLOW, REVIEW or BLOCK.  *)
(*                                                                         *)
(* Abstractions.  A confidence is replaced by "confidence >= semantic_min_  *)
(* confidence", a transition probability by "below the anomaly threshold".  *)
(* Reasons, evidence lists and the explanation report are left out.         *)
(***************************************************************************)
EXTENDS Naturals

DecisionType == {"ALLOW", "REVIEW", "BLOCK"}
RiskClassification == {"LOW", "MEDIUM", "HIGH", "CRITICAL", "UNKNOWN"}
DecisionSignalType == {"ALLOW", "REVIEW", "BLOCK", "NEUTRAL"}

\* "NONE": the argument is None.
PolicyResult == {"NONE"} \cup DecisionType
MarkovResult == {"NONE", "NORMAL", "RARE"}

\* sprt/engine.py; REJECT_H0, which the strategy takes for ACCEPT_H1, is never sent.
SprtStatus == {"NONE", "PENDING", "ACCEPT_H0", "ACCEPT_H1"}

DecisionSignal ==
    [risk : RiskClassification, signal : DecisionSignalType,
     confident : BOOLEAN, fallback : BOOLEAN]
NoSignal == [risk |-> "NONE", signal |-> "NONE", confident |-> FALSE, fallback |-> TRUE]

(* What the three engines answer.  "confident" compares with the threshold  *)
(* of the strategy, which is not the one laya.py compares with.             *)
NullSignal ==
    [risk |-> "UNKNOWN", signal |-> "NEUTRAL", confident |-> TRUE, fallback |-> FALSE]
LayaFallback == [NullSignal EXCEPT !.confident = FALSE, !.fallback = TRUE]
LayaSignal ==
    {s \in DecisionSignal :
        /\ ~s.fallback
        /\ s.signal \in {"ALLOW", "REVIEW"} \/ (s.signal = "BLOCK" /\ s.risk = "CRITICAL")}
HeuristicSignal ==
    {s \in DecisionSignal :
        /\ ~s.fallback
        /\ <<s.risk, s.signal>> \in {<<"CRITICAL", "BLOCK">>, <<"HIGH", "BLOCK">>,
                                     <<"HIGH", "REVIEW">>, <<"LOW", "ALLOW">>}}
EngineSignal == {NullSignal, LayaFallback} \cup LayaSignal \cup HeuristicSignal

EvidenceSet ==
    [policy   : PolicyResult,
     semantic : EngineSignal \cup {NoSignal},
     markov   : MarkovResult,
     sprt     : SprtStatus]

\* The fields of VerificationEngineConfig the strategy reads.
EngineConfig ==
    [policyBlock  : BOOLEAN,             \* policy_block_enabled
     policyReview : BOOLEAN,             \* policy_review_enabled
     critical     : {"REVIEW", "BLOCK"}, \* semantic_critical_escalates_to
     high         : {"REVIEW", "BLOCK"}, \* semantic_high_escalates_to
     markov       : {"REVIEW", "BLOCK"}, \* markov_anomaly_escalates_to
     sprt         : {"REVIEW", "BLOCK"}, \* sprt_drift_escalates_to
     combined     : BOOLEAN]             \* combined_risk_escalation

DefaultConfig ==
    [policyBlock |-> TRUE, policyReview |-> TRUE, critical |-> "BLOCK",
     high |-> "REVIEW", markov |-> "REVIEW", sprt |-> "REVIEW", combined |-> TRUE]

-----------------------------------------------------------------------------
Speaks(s) == s # NoSignal /\ ~s.fallback

\* The condition of each tier, without those of the tiers before it.
PolicyBlocks(c, e) == e.policy = "BLOCK" /\ c.policyBlock
SemanticCritical(e) ==
    Speaks(e.semantic) /\ e.semantic.risk = "CRITICAL" /\ e.semantic.confident
PolicyReviews(c, e) == e.policy = "REVIEW" /\ c.policyReview
SprtDrift(e) == e.sprt = "ACCEPT_H1"
SemanticHigh(e) ==
    /\ Speaks(e.semantic)
    /\ e.semantic.risk = "HIGH" \/ e.semantic.signal = "REVIEW"
    /\ e.semantic.confident
CombinedRisk(c, e) ==
    /\ c.combined
    /\ Speaks(e.semantic)
    /\ e.semantic.risk = "MEDIUM"
    /\ e.markov = "RARE"
MarkovAnomaly(e) == e.markov = "RARE"

Fires(c, e) ==
    <<PolicyBlocks(c, e), SemanticCritical(e), PolicyReviews(c, e), SprtDrift(e),
      SemanticHigh(e), CombinedRisk(c, e), MarkovAnomaly(e), TRUE>>

\* The first tier whose condition holds decides alone.
DecidingTier(c, e) ==
    CHOOSE t \in 1..8 : Fires(c, e)[t] /\ \A u \in 1..(t - 1) : ~Fires(c, e)[u]

\* What each tier asks for when its condition holds.
TierVerdict(c) ==
    <<"BLOCK", c.critical, "REVIEW", c.sprt, c.high, "REVIEW", c.markov, "ALLOW">>

MutantReviewBeforeCritical(c, e) ==
    IF PolicyReviews(c, e) /\ ~PolicyBlocks(c, e) THEN "REVIEW"
    ELSE TierVerdict(c)[DecidingTier(c, e)]

Synthesize(c, e) == TierVerdict(c)[DecidingTier(c, e)]

-----------------------------------------------------------------------------
Severity(decision) == CASE decision = "ALLOW"  -> 0
                        [] decision = "REVIEW" -> 1
                        [] decision = "BLOCK"  -> 2

RiskOrder == <<"LOW", "MEDIUM", "HIGH", "CRITICAL">>
RiskAtMost(a, b) ==
    \E i, j \in 1..4 : i <= j /\ RiskOrder[i] = a /\ RiskOrder[j] = b

PolicyAtMost(a, b) ==
    a = b \/ a \in {"NONE", "ALLOW"} \/ (a = "REVIEW" /\ b = "BLOCK")

(* "f reports at least what e reports": each subsystem is as alarming or    *)
(* more so, and the semantic signal differs in its risk only.               *)
AtLeastAsAlarming(f, e) ==
    /\ PolicyAtMost(e.policy, f.policy)
    /\ \/ f.semantic = e.semantic
       \/ /\ f.semantic = [e.semantic EXCEPT !.risk = f.semantic.risk]
          /\ RiskAtMost(e.semantic.risk, f.semantic.risk)
    /\ e.markov = "RARE" => f.markov = "RARE"
    /\ SprtDrift(e) => SprtDrift(f)
=============================================================================
