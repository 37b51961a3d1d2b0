----------------------- MODULE VerificationEngineProofs -----------------------
(***************************************************************************)
(* What Synthesize and VerificationEngine return, for every set of sessions,*)
(* tokens, signals and failures, and every configuration of the engine that *)
(* a theorem does not exclude.  The history of a session enters through its *)
(* previous token, and every failure through the evidence it leaves: the    *)
(* invariant ties the returned decision to that evidence.                   *)
(***************************************************************************)
EXTENDS VerificationEngine, TLAPS


(* One of the eight tiers decides: the first whose condition holds.         *)
LEMMA FirstTierDecides ==
    ASSUME NEW c \in EngineConfig, NEW e \in EvidenceSet
    PROVE  /\ DecidingTier(c, e) \in 1..8
           /\ Fires(c, e)[DecidingTier(c, e)]
           /\ \A u \in 1..(DecidingTier(c, e) - 1) : ~Fires(c, e)[u]
<1> DEFINE F == Fires(c, e)
           First(t) == F[t] /\ \A u \in 1..(t - 1) : ~F[u]
<1>1. F[8]
  BY DEF Fires
<1>2. \E t \in 1..8 : First(t)
  <2> HIDE DEF F
  <2>1. CASE F[1]
    BY <2>1
  <2>2. CASE ~F[1] /\ F[2]
    BY <2>2
  <2>3. CASE ~F[1] /\ ~F[2] /\ F[3]
    BY <2>3
  <2>4. CASE ~F[1] /\ ~F[2] /\ ~F[3] /\ F[4]
    BY <2>4
  <2>5. CASE ~F[1] /\ ~F[2] /\ ~F[3] /\ ~F[4] /\ F[5]
    BY <2>5
  <2>6. CASE ~F[1] /\ ~F[2] /\ ~F[3] /\ ~F[4] /\ ~F[5] /\ F[6]
    BY <2>6
  <2>7. CASE ~F[1] /\ ~F[2] /\ ~F[3] /\ ~F[4] /\ ~F[5] /\ ~F[6] /\ F[7]
    BY <2>7
  <2>8. CASE ~F[1] /\ ~F[2] /\ ~F[3] /\ ~F[4] /\ ~F[5] /\ ~F[6] /\ ~F[7]
    BY <1>1, <2>8
  <2> QED
    BY <2>1, <2>2, <2>3, <2>4, <2>5, <2>6, <2>7, <2>8
<1> QED
  BY <1>2 DEF DecidingTier

(* The configurations in which no statistical or semantic signal short of   *)
(* CRITICAL blocks by itself; the default is one of them.                   *)
ReviewsOnly(c) == c.sprt = "REVIEW" /\ c.high = "REVIEW" /\ c.markov = "REVIEW"

LEMMA DefaultReviewsOnly == DefaultConfig \in EngineConfig /\ ReviewsOnly(DefaultConfig)
BY DEF DefaultConfig, EngineConfig, ReviewsOnly

LEMMA Severities ==
    /\ Severity("ALLOW") = 0
    /\ Severity("REVIEW") = 1
    /\ Severity("BLOCK") = 2
BY DEF Severity

(* "BLOCK overrides REVIEW, REVIEW overrides ALLOW" (conflict resolution    *)
(* principles): the tier that decides asks for the strictest of all         *)
(* verdicts any firing tier asks for.                                       *)
THEOREM StrictestTierDecides ==
    ASSUME NEW c \in EngineConfig, NEW e \in EvidenceSet, ReviewsOnly(c),
           NEW t \in 1..8, Fires(c, e)[t]
    PROVE  Severity(TierVerdict(c)[t]) <= Severity(Synthesize(c, e))
<1> DEFINE k == DecidingTier(c, e)
<1>1. k \in 1..8 /\ k <= t
  BY FirstTierDecides
<1>2. Synthesize(c, e) = TierVerdict(c)[k]
  BY DEF Synthesize
<1>3. c.critical \in {"REVIEW", "BLOCK"}
  BY DEF EngineConfig
<1>4. \A i, j \in 1..8 : i <= j => Severity(TierVerdict(c)[j]) <= Severity(TierVerdict(c)[i])
  <2>1. /\ TierVerdict(c)[1] = "BLOCK"
        /\ TierVerdict(c)[2] \in {"REVIEW", "BLOCK"}
        /\ \A i \in 3..7 : TierVerdict(c)[i] = "REVIEW"
        /\ TierVerdict(c)[8] = "ALLOW"
    BY <1>3 DEF TierVerdict, ReviewsOnly
  <2> QED
    BY <2>1, Severities
<1> QED
  BY <1>1, <1>2, <1>4

(* The condition under which each tier fires.                               *)
LEMMA TierConditions ==
    ASSUME NEW c, NEW e
    PROVE  /\ Fires(c, e)[1] <=> PolicyBlocks(c, e)
           /\ Fires(c, e)[2] <=> SemanticCritical(e)
           /\ Fires(c, e)[3] <=> PolicyReviews(c, e)
           /\ Fires(c, e)[4] <=> SprtDrift(e)
           /\ Fires(c, e)[5] <=> SemanticHigh(e)
           /\ Fires(c, e)[6] <=> CombinedRisk(c, e)
           /\ Fires(c, e)[7] <=> MarkovAnomaly(e)
BY DEF Fires

(* HIGH and CRITICAL can only be followed by themselves or CRITICAL.        *)
LEMMA RiskEscalation ==
    /\ \A b : RiskAtMost("CRITICAL", b) => b = "CRITICAL"
    /\ \A b : RiskAtMost("HIGH", b) => b \in {"HIGH", "CRITICAL"}
BY DEF RiskAtMost, RiskOrder

(* More alarming reports about the same action never make the verdict       *)
(* weaker, as long as a policy BLOCK is enforced at all.                    *)
THEOREM MoreEvidenceNeverWeakens ==
    ASSUME NEW c \in EngineConfig, ReviewsOnly(c), c.policyBlock,
           NEW e \in EvidenceSet, NEW f \in EvidenceSet, AtLeastAsAlarming(f, e)
    PROVE  Severity(Synthesize(c, e)) <= Severity(Synthesize(c, f))
<1> DEFINE k == DecidingTier(c, e)
<1>1. k \in 1..8 /\ Fires(c, e)[k]
  BY FirstTierDecides
<1>2. Synthesize(c, e) = TierVerdict(c)[k]
  BY DEF Synthesize
<1>3. \A t \in 1..8 : Fires(c, f)[t] => Severity(TierVerdict(c)[t]) <= Severity(Synthesize(c, f))
  BY StrictestTierDecides
<1>4. /\ Severity(TierVerdict(c)[1]) = 2
      /\ Severity(TierVerdict(c)[2]) \in {1, 2}
      /\ \A i \in 3..7 : Severity(TierVerdict(c)[i]) = 1
      /\ Severity(TierVerdict(c)[8]) = 0
  BY Severities DEF TierVerdict, ReviewsOnly, EngineConfig
<1>5. Severity(Synthesize(c, f)) \in {0, 1, 2}
  <2>1. DecidingTier(c, f) \in 1..8 /\ Synthesize(c, f) = TierVerdict(c)[DecidingTier(c, f)]
    BY FirstTierDecides DEF Synthesize
  <2> QED
    BY <2>1, <1>4
<1>6. CASE k = 1
  <2>1. f.policy = "BLOCK"
    BY <1>1, <1>6, TierConditions DEF PolicyBlocks, AtLeastAsAlarming, PolicyAtMost
  <2>2. Fires(c, f)[1]
    BY <2>1, TierConditions DEF PolicyBlocks
  <2> QED
    BY <1>2, <1>3, <1>6, <2>2
<1>7. CASE k = 2
  <2>1. SemanticCritical(e)
    BY <1>1, <1>7, TierConditions
  <2>2. SemanticCritical(f)
    BY <2>1, RiskEscalation
    DEF SemanticCritical, Speaks, NoSignal, AtLeastAsAlarming, EvidenceSet, EngineSignal,
        NullSignal, LayaFallback, LayaSignal, HeuristicSignal, DecisionSignal
  <2>3. Fires(c, f)[2]
    BY <2>2, TierConditions
  <2> QED
    BY <1>2, <1>3, <1>7, <2>3
<1>8. CASE k = 3
  <2>1. e.policy = "REVIEW" /\ c.policyReview
    BY <1>1, <1>8, TierConditions DEF PolicyReviews
  <2>2. f.policy \in {"REVIEW", "BLOCK"}
    BY <2>1 DEF AtLeastAsAlarming, PolicyAtMost, EvidenceSet, PolicyResult, DecisionType
  <2>3. Fires(c, f)[1] \/ Fires(c, f)[3]
    BY <2>1, <2>2, TierConditions DEF PolicyBlocks, PolicyReviews
  <2> QED
    BY <1>2, <1>3, <1>4, <1>5, <1>8, <2>3
<1>9. CASE k = 4
  <2>1. Fires(c, f)[4]
    BY <1>1, <1>9, TierConditions DEF AtLeastAsAlarming
  <2> QED
    BY <1>2, <1>3, <1>9, <2>1
<1>10. CASE k = 5
  <2>1. SemanticHigh(e)
    BY <1>1, <1>10, TierConditions
  <2>2. SemanticHigh(f) \/ SemanticCritical(f)
    BY <2>1, RiskEscalation
    DEF SemanticHigh, SemanticCritical, Speaks, NoSignal, AtLeastAsAlarming, EvidenceSet,
        EngineSignal, NullSignal, LayaFallback, LayaSignal, HeuristicSignal, DecisionSignal
  <2>3. Fires(c, f)[5] \/ Fires(c, f)[2]
    BY <2>2, TierConditions
  <2> QED
    BY <1>2, <1>3, <1>4, <1>5, <1>10, <2>3
<1>11. CASE k \in {6, 7}
  <2>1. f.markov = "RARE"
    BY <1>1, <1>11, TierConditions DEF CombinedRisk, MarkovAnomaly, AtLeastAsAlarming
  <2>2. Fires(c, f)[7]
    BY <2>1, TierConditions DEF MarkovAnomaly
  <2> QED
    BY <1>2, <1>3, <1>4, <1>5, <1>11, <2>2
<1>12. CASE k = 8
  BY <1>2, <1>4, <1>5, <1>12
<1> QED
  BY <1>1, <1>6, <1>7, <1>8, <1>9, <1>10, <1>11, <1>12

-----------------------------------------------------------------------------

(* What is returned was synthesized from evidence of the right form, in     *)
(* which a policy verdict reported without failure still stands; or the     *)
(* multi-agent check has blocked.                                           *)
Explained ==
    Returned =>
        \/ call.early = TRUE /\ call.decision = "BLOCK"
        \/ /\ call.early = FALSE
           /\ call.evidence \in EvidenceSet
           /\ call.decision = Synthesize(Config, call.evidence)
           /\ {"event", "policy"} \cap call.failed = {}
                    => call.evidence.policy = call.in.policy

LEMMA GatheredIsEvidence ==
    ASSUME NEW in \in Reports, NEW failed \in Failures
    PROVE  /\ Gathered(in, failed) \in EvidenceSet
           /\ {"event", "policy"} \cap failed = {}
                    => Gathered(in, failed).policy = in.policy
<1>1. /\ in.policy \in DecisionType
      /\ in.semantic \in EngineSignal
      /\ in.sprt \in SprtStatus
  BY EngineAssumption DEF Reports
<1>2. TransitionRarity(in.session, in.token) \in MarkovResult
  BY DEF TransitionRarity, MarkovResult
<1>3. Gathered(in, failed) \in EvidenceSet
  BY <1>1, <1>2 DEF Gathered, EvidenceSet, PolicyResult, MarkovResult, SprtStatus
<1> QED
  BY <1>3 DEF Gathered

THEOREM AlwaysExplained == Spec => []Explained
<1>1. Init => Explained
  BY DEF Init, Explained, Returned
<1>2. Explained /\ [Next]_vars => Explained'
  <2> SUFFICES ASSUME Explained, [Next]_vars
               PROVE  Explained'
    OBVIOUS
  <2>1. ASSUME NEW in \in Reports, NEW failed \in Failures, VerifyBlocked(in, failed)
        PROVE  Explained'
    BY <2>1 DEF VerifyBlocked, Explained, Returned
  <2>2. ASSUME NEW in \in Reports, NEW failed \in Failures, VerifyBySynthesis(in, failed)
        PROVE  Explained'
    BY <2>2, GatheredIsEvidence DEF VerifyBySynthesis, Explained, Returned
  <2>3. CASE Return
    BY <2>3 DEF Return, Explained, Returned
  <2>4. CASE (\E s \in Session : ResetSession(s)) \/ UNCHANGED vars
    BY <2>4 DEF ResetSession, vars, Explained, Returned
  <2> QED
    BY <2>1, <2>2, <2>3, <2>4 DEF Next, Verify
<1> QED
  BY <1>1, <1>2, PTL DEF Spec

(* A policy BLOCK that was reported is the verdict, whatever else failed.   *)
THEOREM PolicyBlocksAlways ==
    ASSUME Config.policyBlock
    PROVE  Spec => []PolicyBlockIsAuthoritative
<1>1. Explained => PolicyBlockIsAuthoritative
  <2> SUFFICES ASSUME Explained, Returned, call.in.policy = "BLOCK",
                      {"event", "policy"} \cap call.failed = {}
               PROVE  call.decision = "BLOCK"
    BY DEF PolicyBlockIsAuthoritative
  <2>1. CASE call.early = TRUE
    BY <2>1 DEF Explained
  <2>2. CASE call.early = FALSE
    <3> DEFINE e == call.evidence
    <3>1. e \in EvidenceSet /\ e.policy = "BLOCK" /\ call.decision = Synthesize(Config, e)
      BY <2>2 DEF Explained
    <3>2. Fires(Config, e)[1]
      BY <3>1, TierConditions DEF PolicyBlocks
    <3>3. DecidingTier(Config, e) = 1
      BY <3>1, <3>2, EngineAssumption, FirstTierDecides
    <3> QED
      BY <3>1, <3>3 DEF Synthesize, TierVerdict
  <2> QED
    BY <2>1, <2>2 DEF Explained
<1> QED
  BY <1>1, AlwaysExplained, PTL

(* No firing control asks for more than the verdict, if only policies and   *)
(* CRITICAL risks can block.                                                *)
THEOREM StrictestControlAlways ==
    ASSUME ReviewsOnly(Config)
    PROVE  Spec => []StrictestControlDecides
<1>1. Explained => StrictestControlDecides
  BY EngineAssumption, StrictestTierDecides DEF Explained, StrictestControlDecides
<1> QED
  BY <1>1, AlwaysExplained, PTL

(* More alarming reports never give a milder verdict, in the same           *)
(* configurations, if policy blocks are enforced.                           *)
THEOREM EvidenceNeverWeakensAlways ==
    ASSUME ReviewsOnly(Config), Config.policyBlock
    PROVE  Spec => []EvidenceNeverWeakens
<1>1. Explained => EvidenceNeverWeakens
  BY EngineAssumption, MoreEvidenceNeverWeakens DEF Explained, EvidenceNeverWeakens
<1> QED
  BY <1>1, AlwaysExplained, PTL

-----------------------------------------------------------------------------
(* When no condition of the first seven tiers holds the verdict is ALLOW.   *)
LEMMA NothingFires ==
    ASSUME NEW c \in EngineConfig, NEW e \in EvidenceSet,
           e.policy \notin {"BLOCK", "REVIEW"}, e.markov # "RARE", ~SprtDrift(e),
           e.semantic.risk \notin {"CRITICAL", "HIGH"}, e.semantic.signal # "REVIEW"
    PROVE  Synthesize(c, e) = "ALLOW"
<1>1. \A t \in 1..7 : ~Fires(c, e)[t]
  BY TierConditions DEF PolicyBlocks, SemanticCritical, PolicyReviews, SemanticHigh,
     CombinedRisk, MarkovAnomaly
<1>2. DecidingTier(c, e) = 8
  BY <1>1, FirstTierDecides
<1> QED
  BY <1>2 DEF Synthesize, TierVerdict

(* What is gathered of an action of a session without a previous token.     *)
LEMMA FreshEvidence ==
    ASSUME NEW in \in Reports, NEW failed \in Failures, prevToken[in.session] = NoToken
    PROVE  LET e == Gathered(in, failed) IN
           /\ e.markov # "RARE"
           /\ e.policy \in {in.policy, "NONE"}
           /\ e.semantic \in {in.semantic, NoSignal}
           /\ e.sprt \in {in.sprt, "NONE"}
BY DEF Gathered, TransitionRarity

(* The first action of a session, and the first after a reset, is never     *)
(* held for a transition: whatever the other sessions' tokens and whichever *)
(* subsystems fail, nothing but its own reports can hold it.                *)
THEOREM FreshSessionsPass == Spec => FreshSessionIsNotHeld
<1>1. ASSUME Next, call = NoCall, call' # NoCall, NEW s \in Session, prevToken[s] = NoToken,
             call'.in.session = s, call'.in.policy = "ALLOW", call'.in.multiagent # "BLOCK",
             call'.in.semantic.risk = "LOW", call'.in.semantic.signal = "ALLOW",
             ~SprtDrift([sprt |-> call'.in.sprt])
      PROVE  call'.decision = "ALLOW"
  <2>1. PICK in \in Reports, failed \in Failures : Verify(in, failed)
    BY <1>1 DEF Next, Return, ResetSession
  <2>2. call'.in = in
    BY <2>1 DEF Verify, VerifyBlocked, VerifyBySynthesis
  <2>3. VerifyBySynthesis(in, failed)
    BY <1>1, <2>1, <2>2 DEF Verify, VerifyBlocked, MultiAgentBlocks
  <2> DEFINE e == Gathered(in, failed)
  <2>4. call'.decision = Synthesize(Config, e)
    BY <2>3 DEF VerifyBySynthesis
  <2>5. e \in EvidenceSet
    BY GatheredIsEvidence
  <2>6. /\ e.markov # "RARE"
        /\ e.policy \in {in.policy, "NONE"}
        /\ e.semantic \in {in.semantic, NoSignal}
        /\ e.sprt \in {in.sprt, "NONE"}
    BY <1>1, <2>2, FreshEvidence
  <2> HIDE DEF e
  <2>7. /\ e.policy \notin {"BLOCK", "REVIEW"} /\ ~SprtDrift(e)
        /\ e.semantic.risk \notin {"CRITICAL", "HIGH"} /\ e.semantic.signal # "REVIEW"
    BY <1>1, <2>2, <2>6 DEF SprtDrift, NoSignal
  <2> QED
    BY <2>4, <2>5, <2>6, <2>7, NothingFires, EngineAssumption
<1>2. [Next]_vars => [\A s \in Session :
        (/\ call = NoCall /\ call' # NoCall
         /\ prevToken[s] = NoToken /\ call'.in.session = s
         /\ call'.in.policy = "ALLOW" /\ call'.in.multiagent # "BLOCK"
         /\ call'.in.semantic.risk = "LOW" /\ call'.in.semantic.signal = "ALLOW"
         /\ ~SprtDrift([sprt |-> call'.in.sprt]))
            => call'.decision = "ALLOW"]_vars
  BY <1>1
<1> QED
  BY <1>2, PTL DEF Spec, FreshSessionIsNotHeld
=============================================================================
