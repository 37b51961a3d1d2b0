-------------------------- MODULE VerificationEngine --------------------------
(***************************************************************************)
(* verification/engine.py: VerificationEngine.verify, one call per action,  *)
(* with the failures of its subsystems, which it logs and swallows, and the *)
(* per-session Markov token it keeps between calls.                         *)
(*                                                                         *)
(* What the subsystems report is an input of the call.  A subsystem that is *)
(* not configured contributes None, like one that raised.                   *)
(***************************************************************************)
EXTENDS VerificationStrategy

CONSTANTS
    Session,        \* session ids
    Token,          \* Markov state tokens
    Rare,           \* the transitions whose probability is below the threshold
    Config,         \* the engine's VerificationEngineConfig
    Signals,        \* the semantic signals considered
    Failures,       \* the sets of subsystems considered to fail in one call
    NoToken         \* session without a previous token

ASSUME EngineAssumption ==
    /\ Rare \subseteq Token \X Token
    /\ Config \in EngineConfig
    /\ Signals \subseteq EngineSignal
    /\ NoToken \notin Token

\* The try blocks of verify, by what raises in them.
FailurePoint == {"event", "multiagent", "policy", "semantic",
                 "classify", "probability", "sprt"}

VARIABLES
    prevToken,      \* self._session_prev_tokens
    call            \* the last call: its inputs and its result

vars == <<prevToken, call>>

ASSUME FailuresAssumption == Failures \subseteq SUBSET FailurePoint

\* What the enabled subsystems would say of the action if none of them failed.
Reports ==
    [session : Session, token : Token, policy : DecisionType,
     semantic : Signals, sprt : SprtStatus \ {"NONE"},
     multiagent : {"NONE", "REVIEW", "BLOCK"}]

NoCall == [session |-> NoToken]

Init ==
    /\ prevToken = [s \in Session |-> NoToken]
    /\ call = NoCall

-----------------------------------------------------------------------------
MutantRarityOfAnySession(s, token) ==
    IF \E q \in Session : prevToken[q] # NoToken /\ <<prevToken[q], token>> \in Rare
      THEN "RARE" ELSE "NORMAL"

TransitionRarity(s, token) ==
    IF prevToken[s] # NoToken /\ <<prevToken[s], token>> \in Rare THEN "RARE" ELSE "NORMAL"

MutantPolicyNeedsClassification(in, failed) ==
    LET classified == {"event", "classify"} \cap failed = {} IN
    [policy   |-> IF classified /\ "policy" \notin failed THEN in.policy ELSE "NONE",
     semantic |-> IF "semantic" \notin failed THEN in.semantic ELSE NoSignal,
     markov   |-> IF classified /\ "probability" \notin failed
                    THEN TransitionRarity(in.session, in.token) ELSE "NONE",
     sprt     |-> IF classified /\ "sprt" \notin failed THEN in.sprt ELSE "NONE"]

(* What reaches the strategy: None for a subsystem that raised, and without *)
(* a canonical event only the semantic engine is asked.                     *)
Gathered(in, failed) ==
    LET hasEvent == "event" \notin failed
        classified == hasEvent /\ "classify" \notin failed IN
    [policy   |-> IF hasEvent /\ "policy" \notin failed THEN in.policy ELSE "NONE",
     semantic |-> IF "semantic" \notin failed THEN in.semantic ELSE NoSignal,
     markov   |-> IF classified /\ "probability" \notin failed
                    THEN TransitionRarity(in.session, in.token) ELSE "NONE",
     sprt     |-> IF classified /\ "sprt" \notin failed THEN in.sprt ELSE "NONE"]

\* A topology violation is final; any other multi-agent verdict is dropped.
MultiAgentBlocks(in, failed) ==
    in.multiagent = "BLOCK" /\ {"event", "multiagent"} \cap failed = {}

VerifyBlocked(in, failed) ==
    /\ call = NoCall
    /\ MultiAgentBlocks(in, failed)
    /\ call' = [in |-> in, failed |-> failed, decision |-> "BLOCK", early |-> TRUE]
    /\ UNCHANGED prevToken

VerifyBySynthesis(in, failed) ==
    /\ call = NoCall
    /\ ~MultiAgentBlocks(in, failed)
    /\ LET evidence == Gathered(in, failed) IN
        call' = [in |-> in, failed |-> failed, early |-> FALSE, evidence |-> evidence,
                 decision |-> Synthesize(Config, evidence)]
    /\ prevToken' = IF Gathered(in, failed).markov = "NONE" THEN prevToken
                    ELSE [prevToken EXCEPT ![in.session] = in.token]

Verify(in, failed) == VerifyBlocked(in, failed) \/ VerifyBySynthesis(in, failed)

\* The caller has taken the result.
Return ==
    /\ call # NoCall
    /\ call' = NoCall
    /\ UNCHANGED prevToken

\* reset_session; the SPRT accumulator is reset with it.
ResetSession(s) ==
    /\ call = NoCall
    /\ prevToken' = [prevToken EXCEPT ![s] = NoToken]
    /\ UNCHANGED call

Next ==
    \/ \E in \in Reports, failed \in Failures : Verify(in, failed)
    \/ Return
    \/ \E s \in Session : ResetSession(s)

Spec == Init /\ [][Next]_vars

-----------------------------------------------------------------------------
Returned == call # NoCall

(* docs/verification/README.md:63, "BLOCK overrides REVIEW": a BLOCK the    *)
(* policy evaluator managed to report is the engine's decision, whichever   *)
(* other subsystems failed and whatever the session did before.             *)
PolicyBlockIsAuthoritative ==
    Returned /\ call.in.policy = "BLOCK" /\ {"event", "policy"} \cap call.failed = {}
        => call.decision = "BLOCK"

(* A session's behaviour is judged against that session's own last token:   *)
(* the first action of a session, or the first after reset_session, is not  *)
(* held for the transition it makes, whatever other sessions are doing.     *)
FreshSessionIsNotHeld ==
    [][\A s \in Session :
        (/\ call = NoCall /\ call' # NoCall
         /\ prevToken[s] = NoToken /\ call'.in.session = s
         /\ call'.in.policy = "ALLOW" /\ call'.in.multiagent # "BLOCK"
         /\ call'.in.semantic.risk = "LOW" /\ call'.in.semantic.signal = "ALLOW"
         /\ ~SprtDrift([sprt |-> call'.in.sprt]))
            => call'.decision = "ALLOW"]_vars

(* docs/verification/README.md:63-65, "BLOCK overrides REVIEW", "REVIEW     *)
(* overrides ALLOW", "No Score Averaging": the first tier decides, and no   *)
(* other tier whose condition holds asks for a stricter verdict.            *)
StrictestControlDecides ==
    Returned /\ ~call.early =>
        \A t \in 1..8 :
            Fires(Config, call.evidence)[t]
                => Severity(TierVerdict(Config)[t]) <= Severity(call.decision)

(* docs/verification/README.md:63, "BLOCK overrides REVIEW": had a subsystem*)
(* found the same action more alarming, the verdict would have been the same*)
(* or stricter, never milder.                                               *)
EvidenceNeverWeakens ==
    Returned /\ ~call.early =>
        \A e \in EvidenceSet :
            AtLeastAsAlarming(e, call.evidence)
                => Severity(call.decision) <= Severity(Synthesize(Config, e))
=============================================================================
